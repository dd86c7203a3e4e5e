---------------------------- MODULE StoreProofs -----------------------------
(* What holds of the stores that commands and requests share, for any number *)
(* of them, of names, files and payloads: the idempotency keys of the        *)
(* transaction core, the installed plugins, the paths of a bundle, and the   *)
(* event log.                                                                *)
EXTENDS Idempotency, EventStore, Plugins, PluginBundle, SequenceTheorems, FiniteSetTheorems,
        NaturalsInduction, WellFoundedInduction, TLAPS

(* A request that has its job holds the payload the job was started with.    *)
PayloadsAgree ==
    /\ \A r \in Request : doing[r].job # 0 => doing[r].payload = {jobs[doing[r].job]}
    /\ \A a \in answers : a.job # 0 => jobs[a.job] = a.payload

(* Until something excuses it, at most one request is busy and only as long  *)
(* as there is no record; the jobs are the stored one or the busy one's.     *)
OneAtATime ==
    /\ \A r, q \in Request : doing[r] # Idle /\ doing[q] # Idle => r = q
    /\ \A r \in Request : doing[r] # Idle => stored = 0
    /\ \A r \in Request : doing[r] # Idle /\ doing[r].job = 0 => jobs = <<>>
    /\ stored = 0 /\ (\A r \in Request : doing[r] = Idle) => jobs = <<>>
    /\ Len(jobs) <= 1

RegistryInv == RegistryTypeOK /\ PayloadsAgree /\ (excused \/ OneAtATime)

LEMMA RegistryInitially == RegistryInit => RegistryInv
  <1>1. SUFFICES ASSUME RegistryInit PROVE RegistryInv
    OBVIOUS
  <1>2. \A r \in Request : doing[r] = Idle
    BY <1>1 DEF RegistryInit
  <1>3. jobs = <<>> /\ Len(jobs) = 0 /\ jobs \in Seq(Payload)
    BY <1>1 DEF RegistryInit
  <1>4. RegistryTypeOK
    <2>1. stored \in 0 .. Len(jobs)
      BY <1>1, <1>3 DEF RegistryInit
    <2>2. doing \in [Request -> {Idle} \cup [payload : {{p} : p \in Payload}, job : 0 .. Len(jobs)]]
      BY <1>1 DEF RegistryInit
    <2>3. answers = {} /\ excused = FALSE
      BY <1>1 DEF RegistryInit
    <2>4. QED
      BY <1>3, <2>1, <2>2, <2>3 DEF RegistryTypeOK
  <1>5. PayloadsAgree
    BY <1>1, <1>2 DEF RegistryInit, PayloadsAgree, Idle
  <1>6. OneAtATime
    BY <1>2, <1>3 DEF OneAtATime
  <1>7. QED
    BY <1>4, <1>5, <1>6 DEF RegistryInv

(* What a busy request looks like.                                           *)
LEMMA BusyRequest ==
  ASSUME RegistryTypeOK, NEW r \in Request, doing[r] # Idle
  PROVE  \E p \in Payload : doing[r].payload = {p} /\ doing[r].job \in 0 .. Len(jobs)
  BY DEF RegistryTypeOK

LEMMA ExecuteKeeps ==
  ASSUME RegistryInv, NEW r \in Request, NEW p \in Payload, Execute(r, p)
  PROVE  RegistryInv'
  <1> USE DEF RegistryInv
  <1>1. CASE stored # 0
    <2>1. /\ UNCHANGED <<stored, jobs, doing, excused>>
          /\ answers' = answers \cup {[payload |-> p, job |-> IF SamePayload(p) THEN stored ELSE 0]}
      BY <1>1 DEF Execute, Answer
    <2>2. RegistryTypeOK'
      BY <2>1 DEF RegistryTypeOK
    <2>3. PayloadsAgree'
      BY <2>1 DEF PayloadsAgree, SamePayload
    <2>4. QED
      BY <2>1, <2>2, <2>3 DEF OneAtATime
  <1>2. CASE stored = 0
    <2>1. /\ doing[r] = Idle
          /\ doing' = [doing EXCEPT ![r] = Executing(p)]
          /\ excused' = (excused \/ Busy # {})
          /\ UNCHANGED <<stored, jobs, answers>>
      BY <1>2 DEF Execute
    <2>2. RegistryTypeOK'
      BY <2>1 DEF RegistryTypeOK, Executing
    <2>3. PayloadsAgree'
      BY <2>1 DEF PayloadsAgree, RegistryTypeOK, Executing
    <2>4. excused' \/ OneAtATime'
      <3>1. SUFFICES ASSUME ~excused, Busy = {}
                     PROVE  OneAtATime'
        BY <2>1
      <3>2. \A q \in Request : doing[q] = Idle
        BY <3>1 DEF Busy
      <3>3. jobs = <<>>
        BY <1>2, <3>1, <3>2 DEF OneAtATime
      <3>4. \A q \in Request : q # r => doing'[q] = Idle
        BY <2>1, <3>2 DEF RegistryTypeOK
      <3>5. Len(jobs) <= 1
        BY <3>1 DEF OneAtATime
      <3>6. doing'[r] # Idle
        BY <2>1 DEF RegistryTypeOK, Executing, Idle
      <3>7. QED
        BY <1>2, <2>1, <3>3, <3>4, <3>5, <3>6 DEF OneAtATime
    <2>5. QED
      BY <2>2, <2>3, <2>4
  <1>3. QED
    BY <1>1, <1>2

LEMMA FactoryKeeps ==
  ASSUME RegistryInv, NEW r \in Request, FactoryReturns(r)
  PROVE  RegistryInv'
  <1> USE DEF RegistryInv
  <1>1. PICK p \in Payload :
          /\ doing[r].payload = {p} /\ doing[r].job = 0 /\ doing[r] # Idle
          /\ jobs' = Append(jobs, p)
          /\ doing' = [doing EXCEPT ![r].job = Len(jobs) + 1]
          /\ UNCHANGED <<stored, answers, excused>>
    BY BusyRequest DEF FactoryReturns
  <1>2. /\ jobs \in Seq(Payload) /\ jobs' \in Seq(Payload) /\ Len(jobs') = Len(jobs) + 1
        /\ jobs'[Len(jobs) + 1] = p
        /\ \A i \in 1 .. Len(jobs) : jobs'[i] = jobs[i]
    BY <1>1 DEF RegistryTypeOK
  <1>3. /\ doing'[r] = [payload |-> {p}, job |-> Len(jobs) + 1]
        /\ \A q \in Request : q # r => doing'[q] = doing[q]
        /\ doing' \in [Request -> {Idle} \cup [payload : {{x} : x \in Payload}, job : 0 .. Len(jobs')]]
    <2>1. doing[r] = [payload |-> {p}, job |-> 0]
      BY <1>1 DEF RegistryTypeOK
    <2>2. doing'[r] = [payload |-> {p}, job |-> Len(jobs) + 1]
      BY <1>1, <2>1 DEF RegistryTypeOK
    <2>3. \A q \in Request : q # r => doing'[q] = doing[q]
      BY <1>1 DEF RegistryTypeOK
    <2>4. doing' = [q \in Request |-> IF q = r THEN doing'[r] ELSE doing[q]]
      BY <1>1, <2>3 DEF RegistryTypeOK
    <2>5. QED
      BY <1>2, <2>2, <2>3, <2>4 DEF RegistryTypeOK
  <1>4. RegistryTypeOK'
    BY <1>1, <1>2, <1>3 DEF RegistryTypeOK
  <1>5. PayloadsAgree'
    <2>1. \A q \in Request : doing'[q].job # 0 => doing'[q].payload = {jobs'[doing'[q].job]}
      <3>1. SUFFICES ASSUME NEW q \in Request, q # r, doing[q].job # 0
                     PROVE  doing[q].payload = {jobs'[doing[q].job]}
        BY <1>2, <1>3
      <3>2. doing[q].job \in 1 .. Len(jobs)
        BY <3>1, BusyRequest DEF Idle
      <3>3. QED
        BY <1>2, <3>1, <3>2 DEF PayloadsAgree
    <2>2. ASSUME NEW a \in answers, a.job # 0
          PROVE  jobs'[a.job] = a.payload
      <3>1. a.job \in 0 .. Len(jobs) /\ Len(jobs) \in Nat
        BY DEF RegistryTypeOK
      <3>2. a.job \in 1 .. Len(jobs)
        BY <2>2, <3>1
      <3>3. jobs[a.job] = a.payload
        BY <2>2 DEF PayloadsAgree
      <3>4. QED
        BY <1>2, <3>2, <3>3
    <2>3. QED
      BY <1>1, <2>1, <2>2 DEF PayloadsAgree
  <1>6. excused' \/ OneAtATime'
    <2>1. SUFFICES ASSUME ~excused, OneAtATime
                   PROVE  OneAtATime'
      BY <1>1
    <2>2. jobs = <<>> /\ stored = 0
      BY <1>1, <2>1 DEF OneAtATime
    <2>3. \A q \in Request : q # r => doing'[q] = Idle
      BY <1>1, <1>3, <2>1 DEF OneAtATime
    <2>4. Len(jobs') = 1 /\ doing'[r].job = 1 /\ doing'[r] # Idle
      BY <1>2, <1>3, <2>2 DEF Idle
    <2>5. QED
      BY <1>1, <2>2, <2>3, <2>4 DEF OneAtATime
  <1>7. QED
    BY <1>4, <1>5, <1>6

(* A request that ends, whatever it leaves behind.                           *)
LEMMA EndKeeps ==
  ASSUME RegistryInv, NEW r \in Request, doing[r] # Idle,
         doing' = [doing EXCEPT ![r] = Idle], UNCHANGED jobs,
         \/ UNCHANGED stored
         \/ stored' = doing[r].job /\ doing[r].job # 0,
         \/ UNCHANGED answers
         \/ \E p \in doing[r].payload : doing[r].job # 0 /\ Answer(p, doing[r].job),
         excused' \in BOOLEAN, excused => excused',
         excused' \/ stored' # stored \/ doing[r].job = 0
  PROVE  RegistryInv'
  <1> USE DEF RegistryInv
  <1>1. PICK p \in Payload : doing[r].payload = {p} /\ doing[r].job \in 0 .. Len(jobs)
    BY BusyRequest
  <1>2. /\ doing'[r] = Idle
        /\ \A q \in Request : q # r => doing'[q] = doing[q]
        /\ doing' \in [Request -> {Idle} \cup [payload : {{x} : x \in Payload}, job : 0 .. Len(jobs)]]
    BY DEF RegistryTypeOK
  <1>3. \A a \in answers' : \/ a \in answers
                            \/ /\ a = [payload |-> p, job |-> doing[r].job]
                               /\ doing[r].job # 0
    BY <1>1 DEF Answer
  <1>4. RegistryTypeOK'
    BY <1>1, <1>2, <1>3 DEF RegistryTypeOK
  <1>5. PayloadsAgree'
    <2>1. doing[r].job # 0 => jobs[doing[r].job] = p
      BY <1>1 DEF PayloadsAgree
    <2>2. QED
      BY <1>2, <1>3, <2>1 DEF PayloadsAgree, Idle
  <1>6. excused' \/ OneAtATime'
    <2>1. SUFFICES ASSUME OneAtATime, stored' # stored \/ doing[r].job = 0
                   PROVE  OneAtATime'
      OBVIOUS
    <2>2. \A q \in Request : doing'[q] = Idle
      BY <1>2, <2>1 DEF OneAtATime
    <2>3. stored' = 0 => jobs = <<>>
      BY <2>1 DEF OneAtATime
    <2>4. QED
      BY <2>1, <2>2, <2>3 DEF OneAtATime
  <1>7. QED
    BY <1>4, <1>5, <1>6

LEMMA RegistryInductive ==
  ASSUME RegistryInv, [RegistryNext]_registryVars
  PROVE  RegistryInv'
  <1>1. CASE UNCHANGED registryVars
    BY <1>1 DEF registryVars, RegistryInv, RegistryTypeOK, PayloadsAgree, OneAtATime
  <1>2. ASSUME NEW r \in Request, Store(r)
        PROVE  RegistryInv'
    <2>1. doing[r] # Idle /\ doing[r].job # 0
      BY <1>2 DEF Store, Idle
    <2>2. CASE stored' = doing[r].job /\ UNCHANGED excused
      <3>1. excused' \/ stored' # stored
        BY <2>1, <2>2 DEF RegistryInv, OneAtATime
      <3>2. QED
        BY <1>2, <2>1, <2>2, <3>1, EndKeeps DEF Store, RegistryInv, RegistryTypeOK
    <2>3. CASE excused' = TRUE /\ UNCHANGED stored
      BY <1>2, <2>1, <2>3, EndKeeps DEF Store
    <2>4. QED
      BY <1>2, <2>2, <2>3 DEF Store
  <1>3. ASSUME NEW r \in Request, FactoryFails(r)
        PROVE  RegistryInv'
    BY <1>3, EndKeeps DEF FactoryFails, RegistryInv, RegistryTypeOK
  <1>4. ASSUME NEW r \in Request, Die(r)
        PROVE  RegistryInv'
    <2>1. (doing[r].job # 0) \in BOOLEAN /\ excused \in BOOLEAN
      BY DEF RegistryInv, RegistryTypeOK
    <2>2. /\ doing[r] # Idle /\ doing' = [doing EXCEPT ![r] = Idle]
          /\ excused' = (excused \/ doing[r].job # 0)
          /\ UNCHANGED stored /\ UNCHANGED jobs /\ UNCHANGED answers
      BY <1>4 DEF Die
    <2>3. excused' \in BOOLEAN /\ (excused => excused') /\ (excused' \/ doing[r].job = 0)
      BY <2>1, <2>2
    <2>4. QED
      BY <2>2, <2>3, EndKeeps
  <1>5. QED
    BY <1>1, <1>2, <1>3, <1>4, ExecuteKeeps, FactoryKeeps DEF RegistryNext

(* Requests in flight, records and answers are well formed, and no answer    *)
(* names a job that was not started (idempotency.js:75).                     *)
THEOREM RegistryTypes == RegistrySpec => []RegistryTypeOK
  <1>1. RegistryInv => RegistryTypeOK
    BY DEF RegistryInv
  <1>2. QED
    BY <1>1, RegistryInitially, RegistryInductive, PTL DEF RegistrySpec

(* One key starts one job, for any number of requests, unless two requests   *)
(* overlapped or a record was lost after its job was started; and nobody is  *)
(* answered with the job of another payload (idempotency.js:75).             *)
THEOREM KeyStartsOneJob == RegistrySpec => []OneJobPerKey
  <1>1. RegistryInv => OneJobPerKey
    BY DEF RegistryInv, PayloadsAgree, OneAtATime, OneJobPerKey
  <1>2. QED
    BY <1>1, RegistryInitially, RegistryInductive, PTL DEF RegistrySpec

-----------------------------------------------------------------------------
(* What is installed under a name, its entry in plugins.json and a command.  *)
(* Ids are natural numbers, the contents that the user makes are negative.   *)
TreeType == [files : [File -> Int], source : [File -> Nat], conflict : BOOLEAN]
Entry == [listed : BOOLEAN, digest : SUBSET TreeType]
Command == [kind : {"none", "add", "remove", "digest"}, name : SUBSET Plugin,
            force : BOOLEAN, read : [Plugin -> Entry]]

PluginTypes ==
    /\ dir \in [Plugin -> [File -> Int]]
    /\ source \in [Plugin -> [File -> Nat]]
    /\ conflict \in [Plugin -> BOOLEAN]
    /\ pluginsJson \in [Plugin -> Entry]
    /\ cmd \in [Process -> Command]
    /\ changes \in Nat /\ covered \subseteq Plugin \X File
    /\ \A p \in Process : cmd[p] # Resting =>
          cmd[p].kind # "none" /\ \E n \in Plugin : cmd[p].name = {n}

(* Until commands overlap or one dies in its last write: one command at a    *)
(* time, and plugins.json is what it read, but for the entry it has just     *)
(* installed.                                                                *)
Alone ==
    /\ ~torn
    /\ \A p, q \in Process : cmd[p] # Resting /\ cmd[q] # Resting => p = q
    /\ \A p \in Process : cmd[p].kind \in {"add", "remove"} => cmd[p].read = pluginsJson
    /\ \A p \in Process, n \in Plugin : cmd[p].kind = "digest" /\ n \in cmd[p].name =>
          pluginsJson = [cmd[p].read EXCEPT ![n] = [listed |-> TRUE, digest |-> {}]]
    /\ \A n \in Plugin : pluginsJson[n].listed <=> source[n] # NoSource

(* The trees whose digests are somewhere were made before the next edit.     *)
Trees(n) == {Tree(n)} \cup pluginsJson[n].digest \cup (UNION {cmd[p].read[n].digest : p \in Process})
Fresh == \A n \in Plugin : \A t \in Trees(n), f \in File : t.files[f] >= -changes

(* An edit that is covered differs from every digest of its plugin, and the  *)
(* commands on the plugin that are under way leave it alone or were forced.  *)
Safe(n, f) ==
    /\ OnRecord(n) /\ Edited(dir[n][f])
    /\ \A t \in pluginsJson[n].digest : t.files[f] # dir[n][f]
    /\ \A p \in Process :
          /\ \A t \in cmd[p].read[n].digest : t.files[f] # dir[n][f]
          /\ n \in cmd[p].name => \/ cmd[p].kind = "remove"
                                  \/ cmd[p].kind = "add" /\ cmd[p].force
AllSafe == \A n \in Plugin, f \in File : <<n, f>> \in covered => Safe(n, f)

(* The inductive invariant: the two promises rest on it.                     *)
PluginInv == PluginTypes /\ Fresh /\ AllSafe /\ (confused \/ Alone)

-----------------------------------------------------------------------------

(* The state of a process without a command, and the entry of no plugin.     *)
LEMMA RestingType ==
  /\ Resting \in Command /\ Absent \in Entry
  /\ Resting.kind = "none" /\ Resting.name = {}
  /\ \A n \in Plugin : Resting.read[n].digest = {}
  <1>1. Absent \in Entry
    BY DEF Absent, Entry
  <1>2. QED
    BY <1>1 DEF Resting, Command, Absent

(* The tree of an installed plugin is a tree.                                *)
LEMMA TreeTyped ==
  ASSUME PluginTypes, NEW n \in Plugin
  PROVE  Tree(n) \in TreeType /\ Tree(n).files = dir[n]
  BY DEF PluginTypes, Tree, TreeType

(* A command that ends leaves its process resting and the others alone.      *)
LEMMA Ends ==
  ASSUME PluginTypes, NEW p \in Process, End(p)
  PROVE  /\ cmd' \in [Process -> Command] /\ cmd'[p] = Resting
         /\ \A q \in Process : q # p => cmd'[q] = cmd[q]
         /\ \A q \in Process : cmd'[q] # Resting => cmd'[q] = cmd[q]
         /\ \A q \in Process : cmd'[q] # Resting =>
              cmd'[q].kind # "none" /\ \E n \in Plugin : cmd'[q].name = {n}
  BY RestingType DEF PluginTypes, End

(* What a command reads of plugins.json: the file, or nothing when it is     *)
(* torn.                                                                     *)
LEMMA RegistryRead ==
  ASSUME PluginTypes
  PROVE  /\ ReadRegistry \in [Plugin -> Entry]
         /\ ~torn => ReadRegistry = pluginsJson
         /\ \A n \in Plugin : ReadRegistry[n].digest \subseteq pluginsJson[n].digest
  <1>1. CASE torn
    BY <1>1, RestingType DEF ReadRegistry, Absent
  <1>2. CASE ~torn
    BY <1>2 DEF ReadRegistry, PluginTypes
  <1>3. QED
    BY <1>1, <1>2

(* The digests are of trees.                                                 *)
LEMMA TreesTyped ==
  ASSUME PluginTypes, NEW n \in Plugin
  PROVE  Trees(n) \subseteq TreeType
  <1>1. \A p \in Process : cmd[p].read[n].digest \subseteq TreeType
    BY DEF PluginTypes, Command, Entry
  <1>2. pluginsJson[n].digest \subseteq TreeType
    BY DEF PluginTypes, Entry
  <1>3. ASSUME NEW u \in Trees(n)
        PROVE  u \in TreeType
    <2>1. u \in pluginsJson[n].digest \/ u = Tree(n) \/ \E q \in Process : u \in cmd[q].read[n].digest
      BY <1>3, Zenon DEF Trees
    <2>2. QED
      BY <2>1, <1>1, <1>2, TreeTyped, Zenon
  <1>4. QED
    BY <1>3

(* A step that adds no digest but of a tree as it was, nor an older edit.    *)
LEMMA StillFresh ==
  ASSUME PluginTypes, PluginTypes', Fresh,
         changes' >= changes,
         \A n \in Plugin, f \in File : dir'[n][f] >= -changes',
         \A n \in Plugin : pluginsJson'[n].digest \subseteq Trees(n),
         \A q \in Process, n \in Plugin : cmd'[q].read[n].digest \subseteq Trees(n)
  PROVE  Fresh'
  <1>1. SUFFICES ASSUME NEW n \in Plugin, NEW t \in Trees(n)', NEW f \in File
                 PROVE  t.files[f] >= -changes'
    BY DEF Fresh
  <1>2. CASE t = Tree(n)'
    BY <1>2 DEF Tree
  <1>3. CASE t # Tree(n)'
    <2>1. t \in Trees(n)
      <3>1. t \in pluginsJson'[n].digest \/ \E q \in Process : t \in cmd'[q].read[n].digest
        BY <1>1, <1>3, Zenon DEF Trees
      <3>2. CASE t \in pluginsJson'[n].digest
        BY <3>2, Zenon
      <3>3. CASE \E q \in Process : t \in cmd'[q].read[n].digest
        BY <3>3, Zenon
      <3>4. QED
        BY <3>1, <3>2, <3>3
    <2>2. Trees(n) \subseteq TreeType
      BY TreesTyped
    <2>3. t.files[f] \in Int
      BY <2>1, <2>2 DEF TreeType
    <2>4. t.files[f] >= -changes
      BY <2>1 DEF Fresh
    <2>5. QED
      BY <2>3, <2>4 DEF PluginTypes
  <1>4. QED
    BY <1>2, <1>3

(* The next content that the user makes is in no tree yet.                   *)
LEMMA FreshFiles ==
  ASSUME Fresh
  PROVE  \A n \in Plugin, f \in File : dir[n][f] >= -changes
  <1>1. \A n \in Plugin : Tree(n) \in Trees(n) /\ Tree(n).files = dir[n]
    BY Zenon DEF Trees, Tree
  <1>2. QED
    BY <1>1 DEF Fresh

(* A step that leaves the edit in place and its plugin's entry on record, if *)
(* only as one of the commands had read it.                                  *)
Entries(n) == {pluginsJson[n]} \cup {cmd[p].read[n] : p \in Process}
(* An edit stays safe when its file, the registry's digests and the commands *)
(* on the plugin do not change against it.                                   *)
LEMMA StillSafe ==
  ASSUME NEW n \in Plugin, NEW f \in File, Safe(n, f), OnRecord(n)',
         dir'[n][f] = dir[n][f], pluginsJson'[n] \in Entries(n),
         \A q \in Process :
            \/ cmd'[q] = cmd[q] \/ cmd'[q] = Resting
            \/ /\ cmd'[q].read[n] \in Entries(n)
               /\ n \in cmd'[q].name => \/ cmd'[q].kind = "remove"
                                        \/ cmd'[q].kind = "add" /\ cmd'[q].force
  PROVE  Safe(n, f)'
  <1>1. \A e \in Entries(n) : \A t \in e.digest : t.files[f] # dir[n][f]
    BY DEF Safe, Entries
  <1>2. \A t \in pluginsJson'[n].digest : t.files[f] # dir'[n][f]
    BY <1>1
  <1>3. ASSUME NEW q \in Process
        PROVE  /\ \A t \in cmd'[q].read[n].digest : t.files[f] # dir'[n][f]
               /\ n \in cmd'[q].name => \/ cmd'[q].kind = "remove"
                                        \/ cmd'[q].kind = "add" /\ cmd'[q].force
    <2>1. CASE cmd'[q] = cmd[q]
      BY <2>1 DEF Safe
    <2>2. CASE cmd'[q] = Resting
      BY <2>2, RestingType
    <2>3. CASE cmd'[q] # cmd[q] /\ cmd'[q] # Resting
      BY <1>1, <2>3
    <2>4. QED
      BY <2>1, <2>2, <2>3
  <1>4. Edited(dir'[n][f])
    BY DEF Safe, Edited
  <1>5. QED
    BY <1>2, <1>3, <1>4 DEF Safe

-----------------------------------------------------------------------------

(* The plugins of a machine on which no command has run.                     *)
LEMMA Initially ==
  ASSUME PluginInit
  PROVE  PluginInv
  <1>1. PluginTypes
    BY RestingType DEF PluginInit, PluginTypes, NoSource, Gone
  <1>2. Fresh
    <2>1. SUFFICES ASSUME NEW n \in Plugin, NEW t \in Trees(n), NEW f \in File
                   PROVE  t.files[f] >= -changes
      BY DEF Fresh
    <2>2. \A q \in Process : cmd[q].read[n].digest = {}
      BY RestingType DEF PluginInit
    <2>3. pluginsJson[n].digest = {}
      BY DEF PluginInit, Absent
    <2>4. t = Tree(n)
      BY <2>1, <2>2, <2>3, Zenon DEF Trees
    <2>5. QED
      BY <2>4 DEF PluginInit, Tree, NoSource, Gone
  <1>3. AllSafe
    BY DEF AllSafe, PluginInit
  <1>4. Alone
    <2>1. \A p \in Process : cmd[p] = Resting
      BY DEF PluginInit
    <2>2. ~torn /\ \A n \in Plugin : pluginsJson[n].listed <=> source[n] # NoSource
      BY DEF PluginInit, Absent
    <2>3. QED
      BY <2>1, <2>2, RestingType DEF Alone
  <1>5. QED
    BY <1>1, <1>2, <1>3, <1>4 DEF PluginInv

(* A command that starts has read plugins.json, and is alone or confuses.    *)
LEMMA CommandStarts ==
  ASSUME PluginInv, NEW p \in Process, NEW n \in Plugin, NEW kind \in {"add", "remove"},
         NEW force \in BOOLEAN, cmd[p] = Resting,
         cmd' = [cmd EXCEPT ![p] = Starts(p, kind, n, force)],
         confused' = (confused \/ InFlight # {}),
         \A f \in File : <<n, f>> \in covered => kind = "remove" \/ force,
         dir' = dir, source' = source, conflict' = conflict, pluginsJson' = pluginsJson,
         torn' = torn, changes' = changes, covered' = covered
  PROVE  PluginInv'
  <1>0. PluginTypes /\ Fresh /\ AllSafe /\ (confused \/ Alone)
    BY DEF PluginInv
  <1>1. /\ cmd'[p] = [kind |-> kind, name |-> {n}, force |-> force, read |-> ReadRegistry]
        /\ \A q \in Process : q # p => cmd'[q] = cmd[q]
    BY <1>0 DEF PluginTypes, Starts
  <1>2. PluginTypes'
    <2>1. cmd'[p] \in Command
      BY <1>0, <1>1, RegistryRead DEF Command
    <2>2. cmd' \in [Process -> Command]
      BY <1>0, <1>1, <2>1 DEF PluginTypes
    <2>3. \A q \in Process : cmd'[q] # Resting =>
             cmd'[q].kind # "none" /\ \E m \in Plugin : cmd'[q].name = {m}
      <3>1. cmd'[p].kind # "none" /\ cmd'[p].name = {n}
        BY <1>1
      <3>2. \A q \in Process : q # p => cmd'[q] = cmd[q]
        BY <1>1
      <3>3. QED
        BY <1>0, <3>1, <3>2 DEF PluginTypes
    <2>4. QED
      BY <1>0, <2>2, <2>3 DEF PluginTypes
  <1>3. Fresh'
    <2>1. \A q \in Process, m \in Plugin : cmd'[q].read[m].digest \subseteq Trees(m)
      <3>1. SUFFICES ASSUME NEW q \in Process, NEW m \in Plugin
                     PROVE  cmd'[q].read[m].digest \subseteq Trees(m)
        OBVIOUS
      <3>2. CASE q = p
        BY <1>0, <1>1, <3>2, RegistryRead DEF Trees
      <3>3. CASE q # p
        BY <1>1, <3>3 DEF Trees
      <3>4. QED
        BY <3>2, <3>3
    <2>2. \A m \in Plugin : pluginsJson'[m].digest \subseteq Trees(m)
      BY DEF Trees
    <2>3. \A m \in Plugin, f \in File : dir'[m][f] >= -changes'
      BY <1>0, FreshFiles
    <2>4. changes' >= changes
      BY <1>0 DEF PluginTypes
    <2>5. QED
      BY <1>0, <1>2, <2>1, <2>2, <2>3, <2>4, StillFresh
  <1>4. AllSafe'
    <2>1. SUFFICES ASSUME NEW m \in Plugin, NEW f \in File, <<m, f>> \in covered
                   PROVE  Safe(m, f)'
      BY DEF AllSafe
    <2>2. Safe(m, f)
      BY <1>0, <2>1 DEF AllSafe
    <2>3. OnRecord(m) /\ OnRecord(m)'
      BY <2>2 DEF Safe, OnRecord
    <2>4. ReadRegistry = pluginsJson
      BY <1>0, <2>3, RegistryRead DEF OnRecord
    <2>5. \A q \in Process :
            \/ cmd'[q] = cmd[q] \/ cmd'[q] = Resting
            \/ /\ cmd'[q].read[m] \in Entries(m)
               /\ m \in cmd'[q].name => \/ cmd'[q].kind = "remove"
                                        \/ cmd'[q].kind = "add" /\ cmd'[q].force
      BY <1>1, <2>1, <2>4 DEF Entries
    <2>6. dir'[m][f] = dir[m][f] /\ pluginsJson'[m] \in Entries(m)
      BY DEF Entries
    <2>7. QED
      BY <2>2, <2>3, <2>5, <2>6, StillSafe
  <1>5. ~confused' => Alone'
    <2>1. SUFFICES ASSUME ~confused' PROVE Alone'
      OBVIOUS
    <2>2. Alone /\ \A q \in Process : cmd[q] = Resting
      BY <1>0, <2>1 DEF InFlight
    <2>3. \A q \in Process : q # p => cmd'[q] = Resting
      BY <1>1, <2>2
    <2>4. cmd'[p].read = pluginsJson' /\ cmd'[p].kind = kind
      BY <1>0, <1>1, <2>2, RegistryRead DEF Alone
    <2>5. QED
      BY <2>2, <2>3, <2>4, RestingType DEF Alone
  <1>6. QED
    BY <1>2, <1>3, <1>4, <1>5 DEF PluginInv

(* One lemma per action: the checks of an add before its lock.               *)
LEMMA AddChecksKeeps ==
  ASSUME PluginInv, NEW p \in Process, NEW n \in Plugin, NEW force \in BOOLEAN,
         AddChecks(p, n, force)
  PROVE  PluginInv'
  <1>0. PluginTypes /\ Fresh /\ AllSafe /\ (confused \/ Alone)
    BY DEF PluginInv
  <1>1. CASE ~(DirExists(n) /\ ModifiedLocally(n) /\ ~force)
    <2>1. \A f \in File : <<n, f>> \in covered => force
      <3>1. SUFFICES ASSUME NEW f \in File, <<n, f>> \in covered PROVE force
        OBVIOUS
      <3>2. Safe(n, f)
        BY <1>0, <3>1 DEF AllSafe
      <3>3. DirExists(n)
        BY <3>2 DEF Safe, OnRecord, DirExists
      <3>4. ReadRegistry[n].digest = pluginsJson[n].digest /\ pluginsJson[n].digest # {}
        BY <3>2 DEF Safe, OnRecord, ReadRegistry
      <3>5. Tree(n) \notin pluginsJson[n].digest
        BY <3>2 DEF Safe, Tree
      <3>6. ModifiedLocally(n)
        BY <3>4, <3>5 DEF ModifiedLocally
      <3>7. QED
        BY <1>1, <3>3, <3>6
    <2>2. QED
      BY <1>1, <2>1, CommandStarts DEF AddChecks
  <1>2. CASE DirExists(n) /\ ModifiedLocally(n) /\ ~force
    <2>1. /\ cmd' = cmd /\ dir' = dir /\ source' = source /\ pluginsJson' = pluginsJson
          /\ torn' = torn /\ changes' = changes /\ covered' = covered /\ confused' = confused
          /\ conflict' = [conflict EXCEPT ![n] = TRUE]
      BY <1>2 DEF AddChecks
    <2>2. PluginTypes'
      BY <1>0, <2>1 DEF PluginTypes
    <2>3. Fresh'
      <3>1. \A m \in Plugin, f \in File : dir'[m][f] >= -changes'
        BY <1>0, <2>1, FreshFiles
      <3>2. /\ \A m \in Plugin : pluginsJson'[m].digest \subseteq Trees(m)
            /\ \A q \in Process, m \in Plugin : cmd'[q].read[m].digest \subseteq Trees(m)
        BY <2>1 DEF Trees
      <3>3. changes' >= changes
        BY <1>0, <2>1 DEF PluginTypes
      <3>4. QED
        BY <1>0, <2>2, <3>1, <3>2, <3>3, StillFresh
    <2>4. AllSafe'
      BY <1>0, <2>1 DEF AllSafe, Safe, OnRecord
    <2>5. confused' \/ Alone'
      BY <1>0, <2>1 DEF Alone
    <2>6. QED
      BY <2>2, <2>3, <2>4, <2>5 DEF PluginInv
  <1>3. QED
    BY <1>1, <1>2

(* The checks of a remove.                                                   *)
LEMMA RemoveChecksKeeps ==
  ASSUME PluginInv, NEW p \in Process, NEW n \in Plugin, RemoveChecks(p, n)
  PROVE  PluginInv'
  BY CommandStarts DEF RemoveChecks


-----------------------------------------------------------------------------

(* A command that ends and leaves the files alone.                           *)
LEMMA EndsKeeps ==
  ASSUME PluginInv, NEW p \in Process, End(p),
         dir' = dir, source' = source, conflict' = conflict, pluginsJson' = pluginsJson,
         changes' = changes, covered' \subseteq covered,
         ~confused' => ~confused /\ torn' = torn,
         \A n \in Plugin, f \in File : <<n, f>> \in covered' => <<n, f>> \in covered /\ OnRecord(n)'
  PROVE  PluginInv'
  <1>0. PluginTypes /\ Fresh /\ AllSafe /\ (confused \/ Alone)
    BY DEF PluginInv
  <1>1. /\ cmd' \in [Process -> Command] /\ cmd'[p] = Resting
        /\ \A q \in Process : cmd'[q] = cmd[q] \/ cmd'[q] = Resting
        /\ \A q \in Process : cmd'[q] # Resting => cmd'[q] = cmd[q]
        /\ \A q \in Process : cmd'[q] # Resting =>
              cmd'[q].kind # "none" /\ \E n \in Plugin : cmd'[q].name = {n}
    BY <1>0, Ends
  <1>2. PluginTypes'
    BY <1>0, <1>1 DEF PluginTypes
  <1>3. Fresh'
    <2>1. \A m \in Plugin, f \in File : dir'[m][f] >= -changes'
      BY <1>0, FreshFiles
    <2>2. \A m \in Plugin : pluginsJson'[m].digest \subseteq Trees(m)
      BY DEF Trees
    <2>3. \A q \in Process, m \in Plugin : cmd'[q].read[m].digest \subseteq Trees(m)
      BY <1>1, RestingType DEF Trees
    <2>4. changes' >= changes
      BY <1>0 DEF PluginTypes
    <2>5. QED
      BY <1>0, <1>2, <2>1, <2>2, <2>3, <2>4, StillFresh
  <1>4. AllSafe'
    <2>1. SUFFICES ASSUME NEW m \in Plugin, NEW f \in File, <<m, f>> \in covered'
                   PROVE  Safe(m, f)'
      BY DEF AllSafe
    <2>2. Safe(m, f) /\ OnRecord(m)'
      BY <1>0, <2>1 DEF AllSafe
    <2>3. dir'[m][f] = dir[m][f] /\ pluginsJson'[m] \in Entries(m)
      BY DEF Entries
    <2>4. QED
      BY <1>1, <2>2, <2>3, StillSafe
  <1>5. ~confused' => Alone'
    <2>1. \A q \in Process : cmd'[q].kind # "none" => cmd'[q] = cmd[q]
      BY <1>1, RestingType
    <2>2. \A q \in Process, n \in Plugin : n \in cmd'[q].name => cmd'[q] = cmd[q]
      BY <1>1, RestingType
    <2>3. QED
      BY <1>0, <1>1, <2>1, <2>2 DEF Alone
  <1>6. QED
    BY <1>2, <1>3, <1>4, <1>5 DEF PluginInv

(* A command takes the lock.                                                 *)
LEMMA LocksKeeps ==
  ASSUME PluginInv, NEW p \in Process, Locks(p)
  PROVE  PluginInv'
  <1>0. PluginTypes /\ Fresh /\ AllSafe /\ (confused \/ Alone)
    BY DEF PluginInv
  <1>1. /\ dir' = dir /\ source' = source /\ conflict' = conflict /\ pluginsJson' = pluginsJson
        /\ torn' = torn /\ changes' = changes /\ covered' = covered /\ confused' = confused
    BY DEF Locks
  <1>2. CASE cmd' = cmd
    <2>1. PluginTypes'
      BY <1>0, <1>1, <1>2 DEF PluginTypes
    <2>2. Fresh'
      BY <1>0, <1>1, <1>2 DEF Fresh, Trees, Tree
    <2>3. AllSafe'
      BY <1>0, <1>1, <1>2 DEF AllSafe, Safe, OnRecord
    <2>4. confused' \/ Alone'
      BY <1>0, <1>1, <1>2 DEF Alone
    <2>5. QED
      BY <2>1, <2>2, <2>3, <2>4 DEF PluginInv
  <1>3. CASE End(p)
    BY <1>0, <1>1, <1>3, EndsKeeps DEF AllSafe, Safe, OnRecord
  <1>4. QED
    BY <1>2, <1>3 DEF Locks

(* An add that fails under its lock.                                         *)
LEMMA InstallFailsKeeps ==
  ASSUME PluginInv, NEW p \in Process, InstallFails(p)
  PROVE  PluginInv'
  BY EndsKeeps DEF InstallFails, PluginInv, AllSafe, Safe, OnRecord

(* A command dies, in its last write or before.                              *)
LEMMA CommandDiesKeeps ==
  ASSUME PluginInv, NEW p \in Process, CommandDies(p)
  PROVE  PluginInv'
  <1>1. \A n \in Plugin, f \in File : <<n, f>> \in covered' => <<n, f>> \in covered /\ OnRecord(n)'
    BY DEF CommandDies, StillCovered
  <1>2. covered' \subseteq covered
    BY DEF CommandDies, StillCovered
  <1>3. ~confused' => ~confused /\ torn' = torn
    BY DEF CommandDies
  <1>4. QED
    BY <1>1, <1>2, <1>3, EndsKeeps DEF CommandDies

(* A command's last write: the registry as it had read it, but for n.        *)
LEMMA WritesKeep ==
  ASSUME PluginInv, NEW p \in Process, NEW n \in Plugin, cmd[p].name = {n}, cmd[p].kind # "none",
         PluginTypes', changes' = changes, confused' = confused, StillCovered, torn' = FALSE,
         \A m \in Plugin \ {n} : /\ dir'[m] = dir[m] /\ source'[m] = source[m]
                                 /\ pluginsJson'[m] = cmd[p].read[m],
         \A f \in File : dir'[n][f] >= -changes,
         pluginsJson'[n].digest \subseteq Trees(n),
         cmd[p].kind = "digest" \/ ~OnRecord(n)',
         \A q \in Process : q # p => cmd'[q] = cmd[q],
         \/ cmd'[p] = Resting
         \/ cmd'[p].kind = "digest" /\ cmd'[p].name = {n} /\ cmd'[p].read = cmd[p].read
  PROVE  Fresh' /\ AllSafe'
  <1>0. PluginTypes /\ Fresh /\ AllSafe
    BY DEF PluginInv
  <1>1. Fresh'
    <2>1. \A m \in Plugin, f \in File : dir'[m][f] >= -changes'
      BY <1>0, FreshFiles
    <2>2. \A m \in Plugin : pluginsJson'[m].digest \subseteq Trees(m)
      <3>1. \A m \in Plugin : cmd[p].read[m].digest \subseteq Trees(m)
        BY DEF Trees
      <3>2. QED
        BY <3>1
    <2>3. \A q \in Process, m \in Plugin : cmd'[q].read[m].digest \subseteq Trees(m)
      <3>1. SUFFICES ASSUME NEW q \in Process, NEW m \in Plugin
                     PROVE  cmd'[q].read[m].digest \subseteq Trees(m)
        OBVIOUS
      <3>2. cmd[q].read[m].digest \subseteq Trees(m)
        BY DEF Trees
      <3>3. cmd'[q].read = cmd[q].read \/ cmd'[q] = Resting
        OBVIOUS
      <3>4. QED
        BY <3>2, <3>3, RestingType
    <2>4. changes' >= changes
      BY <1>0 DEF PluginTypes
    <2>5. QED
      BY <1>0, <2>1, <2>2, <2>3, <2>4, StillFresh
  <1>2. AllSafe'
    <2>1. SUFFICES ASSUME NEW m \in Plugin, NEW f \in File, <<m, f>> \in covered'
                   PROVE  Safe(m, f)'
      BY DEF AllSafe
    <2>2. <<m, f>> \in covered /\ OnRecord(m)'
      BY <2>1 DEF StillCovered
    <2>3. Safe(m, f)
      BY <1>0, <2>2 DEF AllSafe
    <2>4. m # n
      BY <2>2, <2>3 DEF Safe
    <2>5. dir'[m][f] = dir[m][f] /\ pluginsJson'[m] \in Entries(m)
      BY <2>4 DEF Entries
    <2>6. \A q \in Process :
            \/ cmd'[q] = cmd[q] \/ cmd'[q] = Resting
            \/ /\ cmd'[q].read[m] \in Entries(m)
               /\ m \in cmd'[q].name => \/ cmd'[q].kind = "remove"
                                        \/ cmd'[q].kind = "add" /\ cmd'[q].force
      BY <2>4 DEF Entries
    <2>7. QED
      BY <2>2, <2>3, <2>5, <2>6, StillSafe
  <1>3. QED
    BY <1>1, <1>2


(* The digest of an install is recorded.                                     *)
LEMMA RecordsDigestKeeps ==
  ASSUME PluginInv, NEW p \in Process, RecordsDigest(p)
  PROVE  PluginInv'
  <1>0. PluginTypes /\ Fresh /\ AllSafe /\ (confused \/ Alone)
    BY DEF PluginInv
  <1>1. PICK n \in cmd[p].name :
          pluginsJson' = [cmd[p].read EXCEPT ![n] = [listed |-> TRUE, digest |-> {Tree(n)}]]
    BY DEF RecordsDigest
  <1>2. /\ dir' = dir /\ source' = source /\ conflict' = conflict /\ changes' = changes
        /\ confused' = confused /\ torn' = FALSE /\ StillCovered /\ End(p) /\ cmd[p].kind = "digest"
    BY DEF RecordsDigest
  <1>3. n \in Plugin /\ cmd[p].name = {n} /\ cmd[p].read \in [Plugin -> Entry]
    BY <1>0, <1>1, <1>2, RestingType DEF PluginTypes, Command
  <1>4. /\ cmd' \in [Process -> Command] /\ cmd'[p] = Resting
        /\ \A q \in Process : q # p => cmd'[q] = cmd[q]
        /\ \A q \in Process : cmd'[q] # Resting =>
              cmd'[q].kind # "none" /\ \E m \in Plugin : cmd'[q].name = {m}
    BY <1>0, <1>2, Ends
  <1>5. /\ pluginsJson'[n] = [listed |-> TRUE, digest |-> {Tree(n)}]
        /\ \A m \in Plugin \ {n} : pluginsJson'[m] = cmd[p].read[m]
    BY <1>1, <1>3
  <1>6. PluginTypes'
    <2>1. [listed |-> TRUE, digest |-> {Tree(n)}] \in Entry
      BY <1>0, <1>3, TreeTyped DEF Entry
    <2>2. pluginsJson' \in [Plugin -> Entry]
      BY <1>1, <1>3, <2>1
    <2>3. QED
      BY <1>0, <1>2, <1>4, <2>2 DEF PluginTypes, StillCovered
  <1>7. Fresh' /\ AllSafe'
    <2>1. pluginsJson'[n].digest \subseteq Trees(n)
      <3>1. pluginsJson'[n].digest = {Tree(n)}
        BY <1>5
      <3>2. QED
        BY <3>1, Zenon DEF Trees
    <2>2. \A f \in File : dir'[n][f] >= -changes
      BY <1>0, <1>2, <1>3, FreshFiles
    <2>3. QED
      BY <1>2, <1>3, <1>4, <1>5, <1>6, <2>1, <2>2, WritesKeep
  <1>8. ~confused' => Alone'
    <2>1. SUFFICES ASSUME ~confused' PROVE Alone'
      OBVIOUS
    <2>2. Alone
      BY <1>0, <1>2, <2>1
    <2>3. \A q \in Process : cmd'[q] = Resting
      BY <1>2, <1>4, <2>2, RestingType DEF Alone
    <2>4. \A m \in Plugin : pluginsJson'[m].listed <=> source'[m] # NoSource
      <3>1. pluginsJson = [cmd[p].read EXCEPT ![n] = [listed |-> TRUE, digest |-> {}]]
        BY <1>2, <1>3, <2>2 DEF Alone
      <3>2. pluginsJson[n].listed /\ pluginsJson'[n].listed
        BY <1>3, <1>5, <3>1
      <3>3. \A m \in Plugin \ {n} : pluginsJson[m] = pluginsJson'[m]
        BY <1>3, <1>5, <3>1
      <3>4. QED
        BY <1>2, <2>2, <3>2, <3>3 DEF Alone
    <2>5. QED
      BY <1>2, <2>3, <2>4, RestingType DEF Alone
  <1>9. QED
    BY <1>6, <1>7, <1>8 DEF PluginInv

(* A remove deletes what it installed.                                       *)
LEMMA CleansKeeps ==
  ASSUME PluginInv, NEW p \in Process, Cleans(p)
  PROVE  PluginInv'
  <1>0. PluginTypes /\ Fresh /\ AllSafe /\ (confused \/ Alone)
    BY DEF PluginInv
  <1>1. PICK n \in cmd[p].name :
          /\ dir' = [dir EXCEPT ![n] = [f \in File |-> IF Deletes(n, f) THEN Gone ELSE dir[n][f]]]
          /\ source' = [source EXCEPT ![n] = NoSource]
          /\ pluginsJson' = [cmd[p].read EXCEPT ![n] = Absent]
    BY DEF Cleans, SourceLeft
  <1>2. /\ conflict' = conflict /\ changes' = changes /\ confused' = confused
        /\ torn' = FALSE /\ StillCovered /\ End(p) /\ cmd[p].kind = "remove"
    BY DEF Cleans
  <1>3. n \in Plugin /\ cmd[p].name = {n} /\ cmd[p].read \in [Plugin -> Entry]
    BY <1>0, <1>1, <1>2, RestingType DEF PluginTypes, Command
  <1>4. /\ cmd' \in [Process -> Command] /\ cmd'[p] = Resting
        /\ \A q \in Process : q # p => cmd'[q] = cmd[q]
        /\ \A q \in Process : cmd'[q] # Resting =>
              cmd'[q].kind # "none" /\ \E m \in Plugin : cmd'[q].name = {m}
    BY <1>0, <1>2, Ends
  <1>5. /\ pluginsJson'[n] = Absent /\ source'[n] = NoSource
        /\ \A m \in Plugin \ {n} : /\ pluginsJson'[m] = cmd[p].read[m]
                                   /\ dir'[m] = dir[m] /\ source'[m] = source[m]
        /\ \A f \in File : dir'[n][f] \in {Gone, dir[n][f]}
    BY <1>0, <1>1, <1>3 DEF PluginTypes
  <1>6. PluginTypes'
    <2>1. [f \in File |-> IF Deletes(n, f) THEN Gone ELSE dir[n][f]] \in [File -> Int]
      BY <1>0, <1>3 DEF PluginTypes, Gone
    <2>2. dir' \in [Plugin -> [File -> Int]]
      BY <1>0, <1>1, <2>1 DEF PluginTypes
    <2>3. source' \in [Plugin -> [File -> Nat]]
      BY <1>0, <1>1 DEF PluginTypes, NoSource, Gone
    <2>4. pluginsJson' \in [Plugin -> Entry]
      BY <1>1, <1>3, RestingType
    <2>5. QED
      BY <1>0, <1>2, <1>4, <2>2, <2>3, <2>4 DEF PluginTypes, StillCovered
  <1>7. Fresh' /\ AllSafe'
    <2>1. pluginsJson'[n].digest \subseteq Trees(n)
      BY <1>5 DEF Absent
    <2>2. \A f \in File : dir'[n][f] >= -changes
      <3>1. \A f \in File : dir[n][f] >= -changes
        BY <1>0, <1>3, FreshFiles
      <3>2. QED
        BY <1>0, <1>5, <3>1 DEF PluginTypes, Gone
    <2>3. ~OnRecord(n)'
      BY <1>5 DEF OnRecord
    <2>4. QED
      BY <1>2, <1>3, <1>4, <1>5, <1>6, <2>1, <2>2, <2>3, WritesKeep
  <1>8. ~confused' => Alone'
    <2>1. SUFFICES ASSUME ~confused' PROVE Alone'
      OBVIOUS
    <2>2. Alone
      BY <1>0, <1>2, <2>1
    <2>3. \A q \in Process : cmd'[q] = Resting
      BY <1>2, <1>4, <2>2, RestingType DEF Alone
    <2>4. \A m \in Plugin : pluginsJson'[m].listed <=> source'[m] # NoSource
      <3>1. pluginsJson = cmd[p].read
        BY <1>2, <2>2 DEF Alone
      <3>2. ~pluginsJson'[n].listed
        BY <1>5 DEF Absent
      <3>3. \A m \in Plugin \ {n} : pluginsJson'[m] = pluginsJson[m]
        BY <1>5, <3>1
      <3>4. QED
        BY <1>5, <2>2, <3>2, <3>3 DEF Alone
    <2>5. QED
      BY <1>2, <2>3, <2>4, RestingType DEF Alone
  <1>9. QED
    BY <1>6, <1>7, <1>8 DEF PluginInv

(* An add writes the release and its entry.                                  *)
LEMMA InstallsKeeps ==
  ASSUME PluginInv, NEW p \in Process, Installs(p)
  PROVE  PluginInv'
  <1>0. PluginTypes /\ Fresh /\ AllSafe /\ (confused \/ Alone)
    BY DEF PluginInv
  <1>1. PICK n \in cmd[p].name, v \in Published, fetched \in {File, {"SKILL.md"}} :
          /\ dir' = [dir EXCEPT ![n] = [f \in File |-> IF f \in fetched THEN v ELSE dir[n][f]]]
          /\ source' = [source EXCEPT ![n] = [f \in File |-> IF f \in fetched THEN v ELSE Gone]]
          /\ pluginsJson' = [cmd[p].read EXCEPT ![n] = [listed |-> TRUE, digest |-> {}]]
          /\ torn' = FALSE
    BY Zenon DEF Installs
  <1>2. /\ conflict' = conflict /\ changes' = changes /\ confused' = confused
        /\ StillCovered /\ cmd' = [cmd EXCEPT ![p].kind = "digest"]
        /\ cmd[p].kind = "add"
    BY DEF Installs
  <1>3. n \in Plugin /\ cmd[p].name = {n} /\ cmd[p].read \in [Plugin -> Entry] /\ v \in Nat \ {0}
    <2>1. n \in Plugin /\ cmd[p].name = {n} /\ cmd[p].read \in [Plugin -> Entry]
      BY <1>0, <1>1, <1>2, RestingType DEF PluginTypes, Command
    <2>2. QED
      BY <2>1, PluginAssumption
  <1>4. /\ cmd' \in [Process -> Command]
        /\ cmd'[p].kind = "digest" /\ cmd'[p].name = {n} /\ cmd'[p].read = cmd[p].read
        /\ \A q \in Process : q # p => cmd'[q] = cmd[q]
    <2>1. cmd[p].kind = "add" /\ cmd \in [Process -> Command]
      BY <1>0, <1>2 DEF PluginTypes
    <2>2. [cmd[p] EXCEPT !.kind = "digest"] \in Command
      BY <1>3, <2>1 DEF Command
    <2>3. cmd' = [cmd EXCEPT ![p] = [cmd[p] EXCEPT !.kind = "digest"]]
      BY <1>2
    <2>4. /\ [cmd[p] EXCEPT !.kind = "digest"].kind = "digest"
          /\ [cmd[p] EXCEPT !.kind = "digest"].name = cmd[p].name
          /\ [cmd[p] EXCEPT !.kind = "digest"].read = cmd[p].read
      BY <2>1 DEF Command
    <2>5. QED
      BY <1>3, <2>1, <2>2, <2>3, <2>4
  <1>5. /\ pluginsJson'[n] = [listed |-> TRUE, digest |-> {}]
        /\ source'[n]["SKILL.md"] = v
        /\ \A m \in Plugin \ {n} : /\ pluginsJson'[m] = cmd[p].read[m]
                                   /\ dir'[m] = dir[m] /\ source'[m] = source[m]
        /\ \A f \in File : dir'[n][f] \in {v, dir[n][f]}
    BY <1>0, <1>1, <1>3 DEF PluginTypes, File
  <1>6. PluginTypes'
    <2>1. dir' \in [Plugin -> [File -> Int]]
      BY <1>0, <1>1, <1>3 DEF PluginTypes
    <2>2. source' \in [Plugin -> [File -> Nat]]
      BY <1>0, <1>1, <1>3 DEF PluginTypes, Gone
    <2>3. pluginsJson' \in [Plugin -> Entry]
      BY <1>1, <1>3 DEF Entry
    <2>4. \A q \in Process : cmd'[q] # Resting =>
             cmd'[q].kind # "none" /\ \E m \in Plugin : cmd'[q].name = {m}
      <3> SUFFICES ASSUME NEW q \in Process, cmd'[q] # Resting
                   PROVE  cmd'[q].kind # "none" /\ \E m \in Plugin : cmd'[q].name = {m}
        OBVIOUS
      <3>1. CASE q = p
        <4>1. cmd'[q].kind # "none" /\ cmd'[q].name = {n}
          BY <1>4, <3>1
        <4>2. QED
          BY <1>3, <4>1
      <3>2. CASE q # p
        BY <1>0, <1>4, <3>2 DEF PluginTypes
      <3>3. QED
        BY <3>1, <3>2
    <2>5. conflict' \in [Plugin -> BOOLEAN] /\ changes' \in Nat
      BY <1>0, <1>2 DEF PluginTypes
    <2>6. covered' \subseteq Plugin \X File
      BY <1>0, <1>2 DEF PluginTypes, StillCovered
    <2>7. QED
      BY <1>4, <2>1, <2>2, <2>3, <2>4, <2>5, <2>6, Zenon DEF PluginTypes
  <1>7. Fresh' /\ AllSafe'
    <2>1. pluginsJson'[n].digest = {}
      BY <1>5
    <2>2. \A f \in File : dir'[n][f] >= -changes
      <3>1. \A f \in File : dir[n][f] >= -changes
        BY <1>0, <1>3, FreshFiles
      <3>2. changes \in Nat /\ v >= -changes
        BY <1>0, <1>3 DEF PluginTypes
      <3>3. \A f \in File : dir'[n][f] = v \/ dir'[n][f] = dir[n][f]
        BY <1>5
      <3> HIDE DEF File
      <3>4. QED
        BY <3>1, <3>2, <3>3
    <2>3. ~OnRecord(n)'
      BY <2>1 DEF OnRecord
    <2>4. cmd[p].kind # "none" /\ changes' = changes /\ confused' = confused /\ StillCovered
      BY <1>2
    <2>5. pluginsJson'[n].digest \subseteq Trees(n) /\ torn' = FALSE
      BY <1>1, <2>1
    <2>6. QED
      BY <1>3, <1>4, <1>5, <1>6, <2>2, <2>3, <2>4, <2>5, WritesKeep
  <1>8. ~confused' => Alone'
    <2>1. SUFFICES ASSUME ~confused' PROVE Alone'
      OBVIOUS
    <2>2. Alone
      BY <1>0, <1>2, <2>1
    <2>3. \A q \in Process : q # p => cmd'[q] = Resting
      BY <1>2, <1>4, <2>2, RestingType DEF Alone
    <2>4. \A m \in Plugin : pluginsJson'[m].listed <=> source'[m] # NoSource
      <3>1. pluginsJson = cmd[p].read
        BY <1>2, <2>2 DEF Alone
      <3>2. pluginsJson'[n].listed /\ source'[n] # NoSource
        BY <1>3, <1>5 DEF NoSource, Gone, File
      <3>3. \A m \in Plugin \ {n} : pluginsJson'[m] = pluginsJson[m]
        BY <1>5, <3>1
      <3>4. QED
        BY <1>5, <2>2, <3>2, <3>3 DEF Alone
    <2>5. QED
      <3>1. pluginsJson' = [cmd'[p].read EXCEPT ![n] = [listed |-> TRUE, digest |-> {}]]
        BY <1>1, <1>4, Zenon
      <3>2. \A q \in Process, m \in Plugin : cmd'[q].kind = "digest" /\ m \in cmd'[q].name => q = p /\ m = n
        BY <1>4, <2>3, RestingType
      <3>3. \A q \in Process : cmd'[q].kind \notin {"add", "remove"}
        BY <1>4, <2>3, RestingType
      <3>4. ~torn'
        BY <1>1
      <3>5. QED
        BY <2>3, <2>4, <3>1, <3>2, <3>3, <3>4 DEF Alone
  <1>9. QED
    BY <1>6, <1>7, <1>8 DEF PluginInv


(* The user edits a file.                                                    *)
LEMMA UserEditsKeeps ==
  ASSUME PluginInv, NEW n \in Plugin, NEW f \in File, UserEdits(n, f)
  PROVE  PluginInv'
  <1>0. PluginTypes /\ Fresh /\ AllSafe /\ (confused \/ Alone)
    BY DEF PluginInv
  <1>1. /\ source' = source /\ conflict' = conflict /\ pluginsJson' = pluginsJson /\ torn' = torn
        /\ cmd' = cmd /\ confused' = confused /\ changes' = changes + 1
        /\ dir' = [dir EXCEPT ![n][f] = -changes']
        /\ covered' = IF InFlight = {} /\ OnRecord(n) THEN covered \cup {<<n, f>>} ELSE covered
    BY DEF UserEdits
  <1>2. /\ dir'[n][f] = -(changes + 1)
        /\ \A m \in Plugin, g \in File : <<m, g>> # <<n, f>> => dir'[m][g] = dir[m][g]
    BY <1>0, <1>1 DEF PluginTypes
  <1>3. PluginTypes'
    <2>1. dir' \in [Plugin -> [File -> Int]] /\ changes' \in Nat
      BY <1>0, <1>1 DEF PluginTypes
    <2>2. covered' \subseteq Plugin \X File
      BY <1>0, <1>1 DEF PluginTypes
    <2>3. QED
      BY <1>0, <1>1, <2>1, <2>2 DEF PluginTypes
  <1>4. Fresh'
    <2>1. \A m \in Plugin, g \in File : dir'[m][g] >= -changes'
      <3>1. SUFFICES ASSUME NEW m \in Plugin, NEW g \in File PROVE dir'[m][g] >= -changes'
        OBVIOUS
      <3>2. dir[m][g] >= -changes /\ dir[m][g] \in Int /\ changes \in Nat
        BY <1>0, FreshFiles DEF PluginTypes
      <3>3. dir'[m][g] = -(changes + 1) \/ dir'[m][g] = dir[m][g]
        BY <1>2
      <3>4. QED
        BY <1>1, <3>2, <3>3
    <2>2. /\ \A m \in Plugin : pluginsJson'[m].digest \subseteq Trees(m)
          /\ \A q \in Process, m \in Plugin : cmd'[q].read[m].digest \subseteq Trees(m)
      BY <1>1 DEF Trees
    <2>3. changes' >= changes
      BY <1>0, <1>1 DEF PluginTypes
    <2>4. QED
      BY <1>0, <1>3, <2>1, <2>2, <2>3, StillFresh
  <1>5. AllSafe'
    <2>1. SUFFICES ASSUME NEW m \in Plugin, NEW g \in File, <<m, g>> \in covered'
                   PROVE  Safe(m, g)'
      BY DEF AllSafe
    <2>2. CASE <<m, g>> # <<n, f>>
      <3>1. <<m, g>> \in covered
        BY <1>1, <2>1, <2>2
      <3>2. Safe(m, g)
        BY <1>0, <3>1 DEF AllSafe
      <3>3. QED
        BY <1>1, <1>2, <2>2, <3>2 DEF Safe, OnRecord, Edited
    <2>3. CASE m = n /\ g = f
      <3>1. OnRecord(n) /\ \A q \in Process :
               n \in cmd[q].name => \/ cmd[q].kind = "remove"
                                    \/ cmd[q].kind = "add" /\ cmd[q].force
        <4>1. CASE <<n, f>> \in covered
          BY <1>0, <4>1 DEF AllSafe, Safe
        <4>2. CASE <<n, f>> \notin covered
          <5>1. InFlight = {} /\ OnRecord(n)
            BY <1>1, <2>1, <2>3, <4>2
          <5>2. QED
            BY <5>1, RestingType DEF InFlight
        <4>3. QED
          BY <4>1, <4>2
      <3>2. \A t \in Trees(n) : t.files[f] # dir'[n][f]
        <4>1. SUFFICES ASSUME NEW t \in Trees(n) PROVE t.files[f] # -(changes + 1)
          BY <1>2
        <4>2. t.files[f] >= -changes
          BY <1>0 DEF Fresh
        <4>3. t.files[f] \in Int /\ changes \in Nat
          BY <1>0, TreesTyped DEF TreeType, PluginTypes
        <4>4. QED
          BY <4>2, <4>3
      <3>3. /\ \A t \in pluginsJson[n].digest : t.files[f] # dir'[n][f]
            /\ \A q \in Process : \A t \in cmd[q].read[n].digest : t.files[f] # dir'[n][f]
        <4>1. \A t \in pluginsJson[n].digest : t \in Trees(n)
          BY DEF Trees
        <4>2. \A q \in Process : \A t \in cmd[q].read[n].digest : t \in Trees(n)
          BY DEF Trees
        <4>3. QED
          BY <3>2, <4>1, <4>2
      <3>4. Edited(dir'[n][f])
        BY <1>0, <1>2 DEF Edited, PluginTypes
      <3>5. OnRecord(n)'
        BY <1>1, <3>1 DEF OnRecord
      <3>6. QED
        BY <1>1, <2>3, <3>1, <3>3, <3>4, <3>5 DEF Safe
    <2>4. QED
      BY <2>2, <2>3
  <1>6. ~confused' => Alone'
    BY <1>0, <1>1 DEF Alone
  <1>7. QED
    BY <1>3, <1>4, <1>5, <1>6 DEF PluginInv

(* Every step keeps the invariant.                                           *)
LEMMA Inductive ==
  ASSUME PluginInv, [PluginNext]_pluginVars
  PROVE  PluginInv'
  <1>1. CASE UNCHANGED pluginVars
    <2>1. /\ dir' = dir /\ source' = source /\ conflict' = conflict /\ pluginsJson' = pluginsJson
          /\ torn' = torn /\ cmd' = cmd /\ changes' = changes /\ covered' = covered
          /\ confused' = confused
      BY <1>1 DEF pluginVars
    <2>2. PluginTypes'
      BY <2>1 DEF PluginInv, PluginTypes
    <2>3. Fresh'
      BY <2>1 DEF PluginInv, Fresh, Trees, Tree
    <2>4. AllSafe'
      BY <2>1 DEF PluginInv, AllSafe, Safe, OnRecord
    <2>5. confused' \/ Alone'
      BY <2>1 DEF PluginInv, Alone
    <2>6. QED
      BY <2>2, <2>3, <2>4, <2>5 DEF PluginInv
  <1>2. CASE \E p \in Process, n \in Plugin :
                (\E force \in BOOLEAN : AddChecks(p, n, force)) \/ RemoveChecks(p, n)
    BY <1>2, AddChecksKeeps, RemoveChecksKeeps
  <1>3. CASE \E p \in Process : \/ Locks(p) \/ Installs(p) \/ RecordsDigest(p) \/ Cleans(p)
                                \/ InstallFails(p) \/ CommandDies(p)
    BY <1>3, LocksKeeps, InstallsKeeps, RecordsDigestKeeps, CleansKeeps, InstallFailsKeeps,
       CommandDiesKeeps
  <1>4. CASE \E n \in Plugin, f \in File : UserEdits(n, f)
    BY <1>4, UserEditsKeeps
  <1>5. QED
    BY <1>1, <1>2, <1>3, <1>4 DEF PluginNext

(* Types, freshness of the user's contents, safety of the covered edits and, *)
(* until commands overlap or one dies in its last write, one command at a    *)
(* time that works on the registry it has read (plugins.js:632, 646, 724).   *)
THEOREM PluginInvariance == PluginSpec => []PluginInv
  <1>1. PluginInit => PluginInv
    BY Initially
  <1>2. PluginInv /\ [PluginNext]_pluginVars => PluginInv'
    BY Inductive
  <1>3. QED
    BY <1>1, <1>2, PTL DEF PluginSpec

(* An edited file that is on record with its marker is replaced by a forced  *)
(* installation only.                                                        *)
LEMMA EditKept ==
  ASSUME PluginInv, [PluginNext]_pluginVars, NEW n \in Plugin, NEW f \in File,
         <<n, f>> \in covered, ~Edited(dir'[n][f])
  PROVE  \E p \in Process : cmd[p].kind = "add" /\ cmd[p].force /\ cmd'[p].kind = "digest"
  <1>1. PluginTypes /\ Safe(n, f)
    BY DEF PluginInv, AllSafe
  <1>2. Edited(dir[n][f]) /\ dir[n][f] \in Int /\ source[n][f] \in Nat /\ changes \in Nat
    BY <1>1 DEF Safe, PluginTypes
  <1>3. dir'[n][f] # dir[n][f]
    BY <1>2
  <1>4. PICK p \in Process : Installs(p) \/ Cleans(p)
    <2>1. dir' # dir
      BY <1>3
    <2>2. \A m \in Plugin, g \in File : ~UserEdits(m, g)
      <3>1. SUFFICES ASSUME NEW m \in Plugin, NEW g \in File, UserEdits(m, g) PROVE FALSE
        OBVIOUS
      <3>2. changes' = changes + 1 /\ dir' = [dir EXCEPT ![m][g] = -changes']
        BY <3>1 DEF UserEdits
      <3>3. dir'[n][f] = -(changes + 1) \/ dir'[n][f] = dir[n][f]
        BY <1>1, <3>2 DEF PluginTypes
      <3>4. QED
        BY <1>2, <3>3 DEF Edited
    <2>3. QED
      BY <2>1, <2>2 DEF PluginNext, pluginVars, AddChecks, RemoveChecks, Locks, RecordsDigest,
                        InstallFails, CommandDies
  <1>5. CASE Installs(p)
    <2>1. PICK m \in cmd[p].name, v \in Published, fetched \in {File, {"SKILL.md"}} :
          /\ dir' = [dir EXCEPT ![m] = [g \in File |-> IF g \in fetched THEN v ELSE dir[m][g]]]
          /\ source' = [source EXCEPT ![m] = [g \in File |-> IF g \in fetched THEN v ELSE Gone]]
          /\ pluginsJson' = [cmd[p].read EXCEPT ![m] = [listed |-> TRUE, digest |-> {}]]
          /\ torn' = FALSE
      BY <1>5, Zenon DEF Installs
    <2>2. m = n
      BY <1>1, <1>3, <2>1 DEF PluginTypes
    <2>3. cmd[p].kind = "add" /\ cmd' = [cmd EXCEPT ![p].kind = "digest"]
      BY <1>5 DEF Installs
    <2>4. cmd[p].force
      BY <1>1, <2>1, <2>2, <2>3 DEF Safe
    <2>5. cmd'[p].kind = "digest"
      BY <1>1, <2>3 DEF PluginTypes, Command
    <2>6. QED
      BY <2>3, <2>4, <2>5
  <1>6. CASE Cleans(p)
    <2>1. PICK m \in cmd[p].name :
            dir' = [dir EXCEPT ![m] = [g \in File |-> IF Deletes(m, g) THEN Gone ELSE dir[m][g]]]
      BY <1>6 DEF Cleans
    <2>2. m = n
      BY <1>1, <1>3, <2>1 DEF PluginTypes
    <2>3. ~Deletes(n, f)
      BY <1>1, <1>2 DEF Deletes, Safe, OnRecord, Edited
    <2>4. dir'[n][f] = dir[n][f]
      BY <1>1, <2>1, <2>2, <2>3 DEF PluginTypes
    <2>5. QED
      BY <1>3, <2>4
  <1>7. QED
    BY <1>4, <1>5, <1>6

(* For any number of plugins, commands and edits: a plugin is listed in      *)
(* plugins.json exactly when its source marker is on disk, until commands    *)
(* overlap or one dies in its last write (plugins.js:646, 770).              *)
THEOREM RegistryMatchesDisk == PluginSpec => []ListedIffInstalled
  <1>1. PluginInv => ListedIffInstalled
    BY DEF PluginInv, Alone, ListedIffInstalled
  <1>2. QED
    BY <1>1, PluginInvariance, PTL

(* For any number of plugins, commands and edits: an edit that the recorded  *)
(* digest covers is replaced or deleted only by a forced add                 *)
(* (plugins.js:552, 752).                                                    *)
THEOREM EditsKept == PluginSpec => UpdatesKeepEdits
  <1>1. PluginInv /\ [PluginNext]_pluginVars =>
          [\A x \in covered : ~Edited(dir'[x[1]][x[2]]) =>
             \E p \in Process : cmd[p].kind = "add" /\ cmd[p].force /\ cmd'[p].kind = "digest"]_pluginVars
    <2>1. SUFFICES ASSUME PluginInv, [PluginNext]_pluginVars, NEW x \in covered,
                          ~Edited(dir'[x[1]][x[2]])
                   PROVE  \E p \in Process : cmd[p].kind = "add" /\ cmd[p].force /\ cmd'[p].kind = "digest"
      OBVIOUS
    <2>2. x[1] \in Plugin /\ x[2] \in File /\ x = <<x[1], x[2]>>
      BY <2>1 DEF PluginInv, PluginTypes
    <2>3. QED
      BY <2>1, <2>2, EditKept
  <1>2. QED
    BY <1>1, PluginInvariance, PTL DEF PluginSpec, UpdatesKeepEdits

-----------------------------------------------------------------------------
(* Every set of natural numbers that is not empty has a least element: the   *)
(* form of induction that these proofs use.                                  *)
LEMMA LeastOf ==
  ASSUME NEW S \in SUBSET Nat, S # {}
  PROVE  \E m \in S : \A k \in S : m <= k
  <1>1. PICK m \in S : \A y \in S : ~(<<y, m>> \in OpToRel(<, Nat))
    BY NatLessThanWellFounded, WFMin
  <1>2. \A y \in S : ~(y < m)
    BY <1>1 DEF OpToRel
  <1>3. QED
    BY <1>2

(* g is the fold of AddSegment over the first n segments of path: the        *)
(* function that NormalPath chooses.                                         *)
Normalizes(g, path, n) ==
    g = [k \in 0 .. n |-> IF k = 0 THEN <<>> ELSE AddSegment(g[k - 1], path[k])]

(* It can be extended by a segment, ...                                      *)
LEMMA NormalizesFurther ==
  ASSUME NEW path, NEW n \in Nat, NEW g, Normalizes(g, path, n)
  PROVE  \E h : Normalizes(h, path, n + 1)
  <1> DEFINE h == [k \in 0 .. n + 1 |-> IF k <= n THEN g[k] ELSE AddSegment(g[n], path[n + 1])]
  <1>1. \A k \in 0 .. n : g[k] = IF k = 0 THEN <<>> ELSE AddSegment(g[k - 1], path[k])
    BY DEF Normalizes
  <1>2. ASSUME NEW k \in 0 .. n + 1
        PROVE  h[k] = IF k = 0 THEN <<>> ELSE AddSegment(h[k - 1], path[k])
    <2>1. CASE k = n + 1
      <3>1. h[k - 1] = g[n] /\ h[k] = AddSegment(g[n], path[n + 1])
        BY <2>1
      <3>2. QED
        BY <2>1, <3>1
    <2>2. CASE k # n + 1 /\ k # 0
      <3>1. k - 1 \in 0 .. n /\ k \in 0 .. n
        BY <2>2
      <3>2. h[k - 1] = g[k - 1] /\ h[k] = g[k]
        BY <3>1
      <3>3. QED
        BY <1>1, <2>2, <3>1, <3>2
    <2>3. CASE k = 0
      BY <1>1, <2>3
    <2>4. QED
      BY <2>1, <2>2, <2>3
  <1>3. Normalizes(h, path, n + 1)
    BY <1>2 DEF Normalizes
  <1>4. QED
    BY <1>3

(* ... so it exists for every length, by a least length for which it does    *)
(* not, ...                                                                  *)
LEMMA NormalizesUpTo ==
  ASSUME NEW path, NEW n \in Nat
  PROVE  \E g : Normalizes(g, path, n)
  <1> DEFINE Bad == {k \in Nat : ~\E g : Normalizes(g, path, k)}
  <1>1. SUFFICES ASSUME Bad # {} PROVE FALSE
    OBVIOUS
  <1>2. PICK k \in Bad : \A q \in Bad : k <= q
    <2>1. Bad \in SUBSET Nat
      OBVIOUS
    <2> HIDE DEF Bad
    <2>2. QED
      BY <1>1, <2>1, LeastOf
  <1>3. k # 0
    <2>1. Normalizes([i \in 0 .. 0 |-> <<>>], path, 0)
      BY DEF Normalizes
    <2>2. QED
      BY <2>1
  <1>4. k - 1 \in Nat /\ k - 1 \notin Bad /\ (k - 1) + 1 = k
    BY <1>2, <1>3
  <1>5. PICK g : Normalizes(g, path, k - 1)
    BY <1>4
  <1>6. QED
    BY <1>4, <1>5, NormalizesFurther

(* ... and NormalPath is its last value.                                     *)
LEMMA NormalPathUnfolds ==
  ASSUME NEW path \in Seq(Segment)
  PROVE  \E g : Normalizes(g, path, Len(path)) /\ NormalPath(path) = g[Len(path)]
  <1> DEFINE normal == CHOOSE g : g = [k \in 0 .. Len(path) |->
                          IF k = 0 THEN <<>> ELSE AddSegment(g[k - 1], path[k])]
  <1>1. \E g : g = [k \in 0 .. Len(path) |-> IF k = 0 THEN <<>> ELSE AddSegment(g[k - 1], path[k])]
    BY NormalizesUpTo DEF Normalizes
  <1>2. normal = [k \in 0 .. Len(path) |-> IF k = 0 THEN <<>> ELSE AddSegment(normal[k - 1], path[k])]
    BY <1>1, Zenon
  <1>3. NormalPath(path) = normal[Len(path)]
    BY Zenon DEF NormalPath
  <1> HIDE DEF normal
  <1>4. QED
    BY <1>2, <1>3 DEF Normalizes

(* After k segments the normal path is the names that are left, or begins    *)
(* with "..".                                                                *)
Above(path, k) == \E j \in 1 .. k : Depth(path, j) < 0
Follows(n, path, k) ==
    /\ n \in Seq(Segment)
    /\ ~Above(path, k) => /\ \A i \in 1 .. Len(n) : n[i] = "a"
                          /\ Len(n) = Depth(path, k)
    /\ Above(path, k) => n # <<>> /\ n[1] = ".."

(* The places of a segment among the first k.                                *)
At(path, s, k) == {i \in 1 .. k : path[i] = s}

(* They are finitely many, ...                                               *)
LEMMA AtFinite ==
  ASSUME NEW path, NEW s, NEW k \in Nat
  PROVE  IsFiniteSet(At(path, s, k)) /\ Cardinality(At(path, s, k)) \in Nat
  <1>1. At(path, s, k) \in SUBSET (1 .. k)
    BY DEF At
  <1>2. IsFiniteSet(1 .. k)
    BY FS_Interval
  <1>3. IsFiniteSet(At(path, s, k))
    BY <1>1, <1>2, FS_Subset
  <1>4. QED
    BY <1>3, FS_CardinalityType

(* ... and one more or the same with the next segment.                       *)
LEMMA NextAt ==
  ASSUME NEW path, NEW s, NEW k \in Nat, k # 0
  PROVE  Cardinality(At(path, s, k)) =
            IF path[k] = s THEN Cardinality(At(path, s, k - 1)) + 1 ELSE Cardinality(At(path, s, k - 1))
  <1>1. IsFiniteSet(At(path, s, k - 1))
    BY AtFinite
  <1>2. CASE path[k] = s
    <2>1. At(path, s, k) = At(path, s, k - 1) \cup {k} /\ k \notin At(path, s, k - 1)
      BY <1>2 DEF At
    <2>2. QED
      <3>1. Cardinality(At(path, s, k - 1) \cup {k}) = Cardinality(At(path, s, k - 1)) + 1
        BY <1>1, <2>1, FS_AddElement
      <3>2. QED
        BY <1>2, <2>1, <3>1
  <1>3. CASE path[k] # s
    <2>1. At(path, s, k) = At(path, s, k - 1)
      BY <1>3 DEF At
    <2>2. QED
      BY <1>3, <2>1
  <1>4. QED
    BY <1>2, <1>3

(* The depth before the first segment, ...                                   *)
LEMMA NoDepth ==
  ASSUME NEW path
  PROVE  Depth(path, 0) = 0
  <1>1. At(path, "a", 0) = {} /\ At(path, "..", 0) = {}
    BY DEF At
  <1>2. Cardinality(At(path, "a", 0)) = 0 /\ Cardinality(At(path, "..", 0)) = 0
    BY <1>1, FS_EmptySet
  <1>3. Depth(path, 0) = Cardinality(At(path, "a", 0)) - Cardinality(At(path, "..", 0))
    BY Zenon DEF Depth, At
  <1>4. QED
    BY <1>2, <1>3

(* ... and how the next one changes it.                                      *)
LEMMA NextDepth ==
  ASSUME NEW path, NEW k \in Nat, k # 0
  PROVE  /\ Depth(path, k) \in Int /\ Depth(path, k - 1) \in Int
         /\ path[k] = "a" => Depth(path, k) = Depth(path, k - 1) + 1
         /\ path[k] = "." => Depth(path, k) = Depth(path, k - 1)
         /\ path[k] = ".." => Depth(path, k) = Depth(path, k - 1) - 1
  <1> DEFINE names(n) == Cardinality(At(path, "a", n))
             ups(n) == Cardinality(At(path, "..", n))
  <1>1. \A n : Depth(path, n) = names(n) - ups(n)
    BY Zenon DEF Depth, At
  <1>2. \A n \in Nat : names(n) \in Nat /\ ups(n) \in Nat
    BY AtFinite
  <1>3. /\ path[k] = "a" => names(k) = names(k - 1) + 1 /\ ups(k) = ups(k - 1)
        /\ path[k] = "." => names(k) = names(k - 1) /\ ups(k) = ups(k - 1)
        /\ path[k] = ".." => names(k) = names(k - 1) /\ ups(k) = ups(k - 1) + 1
    BY NextAt
  <1> HIDE DEF names, ups
  <1>4. names(k) \in Nat /\ ups(k) \in Nat /\ names(k - 1) \in Nat /\ ups(k - 1) \in Nat
    BY <1>2
  <1>5. Depth(path, k) = names(k) - ups(k) /\ Depth(path, k - 1) = names(k - 1) - ups(k - 1)
    BY <1>1
  <1>6. /\ names(k) = names(k - 1) + 1 /\ ups(k) = ups(k - 1) => Depth(path, k) = Depth(path, k - 1) + 1
        /\ names(k) = names(k - 1) /\ ups(k) = ups(k - 1) => Depth(path, k) = Depth(path, k - 1)
        /\ names(k) = names(k - 1) /\ ups(k) = ups(k - 1) + 1 => Depth(path, k) = Depth(path, k - 1) - 1
        /\ Depth(path, k) \in Int /\ Depth(path, k - 1) \in Int
    BY <1>4, <1>5
  <1>7. QED
    BY <1>3, <1>6, Zenon

(* The front of a sequence.                                                  *)
LEMMA FrontIs ==
  ASSUME NEW S, NEW n \in Seq(S), n # <<>>
  PROVE  /\ SubSeq(n, 1, Len(n) - 1) \in Seq(S)
         /\ Len(SubSeq(n, 1, Len(n) - 1)) = Len(n) - 1
         /\ \A i \in 1 .. Len(n) - 1 : SubSeq(n, 1, Len(n) - 1)[i] = n[i]
  <1>1. Len(n) \in Nat /\ Len(n) # 0
    OBVIOUS
  <1>2. \A i \in 1 .. Len(n) - 1 : n[i] \in S
    BY <1>1
  <1>3. PICK k \in Nat : k = Len(n) - 1
    BY <1>1
  <1>4. /\ SubSeq(n, 1, k) \in Seq(S)
        /\ Len(SubSeq(n, 1, k)) = IF 1 <= k THEN k - 1 + 1 ELSE 0
        /\ \A i \in 1 .. k - 1 + 1 : SubSeq(n, 1, k)[i] = n[1 + i - 1]
    BY <1>2, <1>3, SubSeqProperties
  <1>5. k - 1 + 1 = k /\ (\A i \in 1 .. k : 1 + i - 1 = i) /\ (~(1 <= k) => k = 0)
    OBVIOUS
  <1>6. QED
    BY <1>3, <1>4, <1>5

(* One more segment: the normal path goes on as the depth does.              *)
LEMMA FollowsOn ==
  ASSUME NEW path \in Seq(Segment), NEW k \in 1 .. Len(path), NEW n, Follows(n, path, k - 1)
  PROVE  Follows(AddSegment(n, path[k]), path, k)
  <1>1. n \in Seq(Segment) /\ path[k] \in Segment /\ k \in Nat /\ k # 0
    BY DEF Follows
  <1>2. Above(path, k) <=> Above(path, k - 1) \/ Depth(path, k) < 0
    <2>1. \A j : j \in 1 .. k <=> j \in 1 .. k - 1 \/ j = k
      OBVIOUS
    <2>2. QED
      BY <2>1 DEF Above
  <1>3. CASE path[k] = "."
    <2>1. AddSegment(n, path[k]) = n
      BY <1>3 DEF AddSegment
    <2>2. Depth(path, k) = Depth(path, k - 1)
      BY <1>1, <1>3, NextDepth
    <2>3. ~Above(path, k - 1) => ~(Depth(path, k) < 0)
      BY <1>1, <2>2 DEF Follows
    <2>4. QED
      BY <1>2, <2>1, <2>2, <2>3 DEF Follows
  <1>4. CASE path[k] = "a"
    <2>1. AddSegment(n, path[k]) = Append(n, "a")
      BY <1>4 DEF AddSegment
    <2>2. Depth(path, k) = Depth(path, k - 1) + 1
      BY <1>1, <1>4, NextDepth
    <2>3. ~Above(path, k - 1) => ~(Depth(path, k) < 0)
      BY <1>1, <2>2 DEF Follows
    <2>4. /\ Append(n, "a") \in Seq(Segment) /\ Len(Append(n, "a")) = Len(n) + 1
          /\ Append(n, "a")[Len(n) + 1] = "a"
          /\ \A i \in 1 .. Len(n) : Append(n, "a")[i] = n[i]
      BY <1>1 DEF Segment
    <2>5. QED
      <3>1. CASE Above(path, k - 1)
        BY <1>1, <1>2, <2>1, <2>4, <3>1 DEF Follows
      <3>2. CASE ~Above(path, k - 1)
        <4>1. /\ ~Above(path, k) /\ Len(n) = Depth(path, k - 1)
              /\ \A i \in 1 .. Len(n) : n[i] = "a"
          BY <1>2, <2>3, <3>2 DEF Follows
        <4>2. Len(n) \in Nat
          BY <1>1
        <4>3. \A i \in 1 .. Len(n) + 1 : i \in 1 .. Len(n) \/ i = Len(n) + 1
          BY <4>2
        <4>4. \A i \in 1 .. Len(Append(n, "a")) : Append(n, "a")[i] = "a"
          BY <2>4, <4>1, <4>3
        <4>5. QED
          BY <2>1, <2>2, <2>4, <4>1, <4>4 DEF Follows
      <3>3. QED
        BY <3>1, <3>2
  <1>5. CASE path[k] = ".."
    <2>1. Depth(path, k) = Depth(path, k - 1) - 1 /\ Depth(path, k - 1) \in Int
      BY <1>1, <1>5, NextDepth
    <2>2. CASE n # <<>> /\ n[Len(n)] # ".."
      <3>1. AddSegment(n, path[k]) = SubSeq(n, 1, Len(n) - 1)
        BY <1>5, <2>2 DEF AddSegment, Last, Front
      <3>0. Len(n) \in Nat /\ Len(n) # 0
        BY <1>1, <2>2
      <3>2. /\ SubSeq(n, 1, Len(n) - 1) \in Seq(Segment) /\ Len(SubSeq(n, 1, Len(n) - 1)) = Len(n) - 1
            /\ \A i \in 1 .. Len(n) - 1 : SubSeq(n, 1, Len(n) - 1)[i] = n[i]
        BY <1>1, <2>2, FrontIs
      <3>3. CASE Above(path, k - 1)
        <4>1. n[1] = ".." /\ Len(n) # 1
          BY <2>2, <3>3 DEF Follows
        <4>2. 1 \in 1 .. Len(n) - 1
          BY <1>1, <2>2, <4>1
        <4>3. SubSeq(n, 1, Len(n) - 1) # <<>> /\ SubSeq(n, 1, Len(n) - 1)[1] = ".."
          <5>1. SubSeq(n, 1, Len(n) - 1)[1] = ".."
            BY <3>2, <4>1, <4>2
          <5>2. Len(SubSeq(n, 1, Len(n) - 1)) # 0
            BY <3>2, <4>2
          <5>3. Len(<<>>) = 0
            OBVIOUS
          <5>4. QED
            BY <5>1, <5>2, <5>3, Zenon
        <4>4. QED
          BY <1>2, <3>1, <3>2, <3>3, <4>3 DEF Follows
      <3>4. CASE ~Above(path, k - 1)
        <4>1. Len(n) = Depth(path, k - 1) /\ Len(n) > 0
          BY <1>1, <2>2, <3>4 DEF Follows
        <4>2. ~Above(path, k)
          BY <1>2, <2>1, <3>4, <4>1
        <4>3. QED
          BY <1>1, <2>1, <3>1, <3>2, <3>4, <4>1, <4>2 DEF Follows
      <3>5. QED
        BY <3>3, <3>4
    <2>3. CASE n = <<>> \/ n[Len(n)] = ".."
      <3>1. AddSegment(n, path[k]) = Append(n, "..")
        BY <1>5, <2>3 DEF AddSegment, Last
      <3>2. Append(n, "..") \in Seq(Segment) /\ Append(n, "..") # <<>>
        BY <1>1 DEF Segment
      <3>3. CASE Above(path, k - 1)
        <4>1. n # <<>> /\ n[1] = ".."
          BY <3>3 DEF Follows
        <4>2. Append(n, "..")[1] = ".."
          BY <1>1, <4>1
        <4>3. QED
          BY <1>2, <3>1, <3>2, <3>3, <4>2 DEF Follows
      <3>4. CASE ~Above(path, k - 1)
        <4>1. n = <<>>
          <5>1. SUFFICES ASSUME n # <<>> PROVE FALSE
            OBVIOUS
          <5>2. n[Len(n)] = "a"
            BY <1>1, <3>4, <5>1 DEF Follows
          <5>3. QED
            BY <2>3, <5>1, <5>2
        <4>2. Depth(path, k) < 0
          BY <2>1, <3>4, <4>1 DEF Follows
        <4>3. QED
          BY <1>2, <3>1, <3>2, <4>1, <4>2 DEF Follows
      <3>5. QED
        BY <3>3, <3>4
    <2>4. QED
      BY <2>2, <2>3
  <1>6. QED
    BY <1>1, <1>3, <1>4, <1>5 DEF Segment

(* The normal path begins with ".." iff the path leads out, at any length.   *)
THEOREM NormalPathIsRight ==
  ASSUME NEW path \in Seq(Segment)
  PROVE  (NormalPath(path) # <<>> /\ Head(NormalPath(path)) = "..") <=> Escapes(path)
  <1>1. PICK g : Normalizes(g, path, Len(path)) /\ NormalPath(path) = g[Len(path)]
    BY NormalPathUnfolds
  <1>2. \A k \in 0 .. Len(path) : g[k] = IF k = 0 THEN <<>> ELSE AddSegment(g[k - 1], path[k])
    BY <1>1 DEF Normalizes
  <1>3. \A k \in 0 .. Len(path) : Follows(g[k], path, k)
    <2> DEFINE Bad == {k \in 0 .. Len(path) : ~Follows(g[k], path, k)}
    <2>1. SUFFICES ASSUME Bad # {} PROVE FALSE
      OBVIOUS
    <2>2. PICK k \in Bad : \A q \in Bad : k <= q
      <3>1. Bad \in SUBSET Nat
        OBVIOUS
      <3> HIDE DEF Bad
      <3>2. QED
        BY <2>1, <3>1, LeastOf
    <2>3. k # 0
      <3>1. Follows(<<>>, path, 0)
        <4>1. Depth(path, 0) = 0
          BY NoDepth
        <4>2. ~Above(path, 0)
          BY DEF Above
        <4>3. QED
          BY <4>1, <4>2 DEF Follows
      <3>2. QED
        BY <1>2, <3>1
    <2>4. k \in 1 .. Len(path) /\ k - 1 \in 0 .. Len(path) /\ k - 1 \notin Bad
      BY <2>2, <2>3
    <2>5. QED
      BY <1>2, <2>3, <2>4, FollowsOn
  <1>4. Follows(NormalPath(path), path, Len(path))
    BY <1>1, <1>3
  <1>5. Above(path, Len(path)) <=> Escapes(path)
    BY DEF Above, Escapes
  <1>6. NormalPath(path) # <<>> => Head(NormalPath(path)) = NormalPath(path)[1]
    BY <1>4 DEF Follows
  <1>7. NormalPath(path) # <<>> /\ ~Above(path, Len(path)) => NormalPath(path)[1] = "a"
    BY <1>4 DEF Follows
  <1>8. QED
    BY <1>4, <1>5, <1>6, <1>7 DEF Follows

(* A path without .. never leaves its directory.                             *)
LEMMA NamesStayInside ==
  ASSUME NEW path \in Seq(Segment), ".." \notin ToSet(path)
  PROVE  ~Escapes(path)
  <1>1. SUFFICES ASSUME NEW k \in 1 .. Len(path) PROVE ~(Depth(path, k) < 0)
    BY DEF Escapes
  <1>2. k \in Nat
    OBVIOUS
  <1>3. \A i \in 1 .. k : path[i] # ".."
    BY DEF ToSet
  <1>4. At(path, "..", k) = {}
    BY <1>3 DEF At
  <1>5. Cardinality(At(path, "..", k)) = 0
    BY <1>4, FS_EmptySet
  <1>6. Cardinality(At(path, "a", k)) \in Nat
    BY <1>2, AtFinite
  <1>7. Depth(path, k) = Cardinality(At(path, "a", k)) - Cardinality(At(path, "..", k))
    BY Zenon DEF Depth, At
  <1>8. QED
    BY <1>5, <1>6, <1>7

(* An archive entry has a path and, if it is a link, a target.               *)
EntryTypes ==
    /\ entry.path \in Seq(Segment) /\ entry.path # <<>>
    /\ entry.link \in Seq(Segment)

(* validateArchiveEntry is right for paths and links of any length.          *)
LEMMA EntryIsRight ==
  ASSUME EntryTypes
  PROVE  ValidStaysInside
  <1>1. ".." \notin ToSet(entry.path) => ~Escapes(entry.path)
    BY NamesStayInside DEF EntryTypes
  <1>2. Front(entry.path) \in Seq(Segment)
    BY FrontIs DEF EntryTypes, Front
  <1>3. Front(entry.path) \o entry.link \in Seq(Segment)
    BY <1>2 DEF EntryTypes
  <1>4. (LinkTarget(entry) # <<>> => Head(LinkTarget(entry)) # "..") <=>
           ~Escapes(Front(entry.path) \o entry.link)
    BY <1>3, NormalPathIsRight, Zenon DEF LinkTarget
  <1>5. QED
    BY <1>1, <1>4, Zenon DEF ValidStaysInside, ValidEntry

-----------------------------------------------------------------------------

(* The parts of the inductive invariant: the grants of the managers, ...     *)
GrantTypes ==
    /\ grants \in [Manager -> [Key -> SUBSET Int]]
    /\ grantsFile \in [Key -> SUBSET Int]
    /\ script \in Int /\ refused \subseteq Manager
(* ... none of which a manager that was refused still has, ...               *)
Dropped == \A m \in refused, k \in Key : grants[m][k] = {}

(* ... and the trees of an update.                                           *)
UpdateTypes ==
    /\ original \in {NoTree, "old", "edited"}
    /\ target \in {NoTree, "old", "edited", "new"}
    /\ backup \in {NoTree, "old", "edited"}
    /\ staged \in {NoTree, "new"}
    /\ updateStep \in {"begin", "refused", "aside", "in", "delete", "restore", "done", "failed"}

(* Where the tree that was installed is, at every step of the update.        *)
Kept ==
    /\ updateStep \in {"begin", "refused", "aside"} =>
          target = original /\ staged = "new" /\ backup = NoTree
    /\ updateStep \in {"in", "restore"} =>
          target = NoTree /\ staged = "new" /\ backup = original
    /\ updateStep \in {"delete", "done"} => target = "new"
    /\ updateStep = "failed" /\ original # NoTree => target = "new" \/ original \in {target, backup}

(* The inductive invariant.                                                  *)
BundleInv == GrantTypes /\ Dropped /\ UpdateTypes /\ Kept /\ EntryTypes

(* A grant, a change of the script and a check of the grants.                *)
LEMMA GrantsKeep ==
  ASSUME GrantTypes, Dropped, GrantNext
  PROVE  GrantTypes' /\ Dropped'
  <1>1. ASSUME NEW m \in Manager, NEW withPlugin \in BOOLEAN, Grant(m, withPlugin)
        PROVE  GrantTypes' /\ Dropped'
    <2> DEFINE g == [k \in Key |-> IF k \in KeysOf(withPlugin) THEN {script} ELSE grants[m][k]]
    <2>1. g \in [Key -> SUBSET Int]
      BY DEF GrantTypes
    <2>2. grants' = [grants EXCEPT ![m] = g] /\ grantsFile' = g /\ refused' = refused \ {m} /\ script' = script
      BY <1>1 DEF Grant, Save
    <2> HIDE DEF g
    <2>3. GrantTypes'
      BY <2>1, <2>2 DEF GrantTypes
    <2>4. \A q \in refused' : q \in refused /\ grants'[q] = grants[q]
      BY <2>2 DEF GrantTypes
    <2>5. QED
      BY <2>3, <2>4 DEF Dropped
  <1>2. ASSUME NEW m \in Manager, NEW withPlugin \in BOOLEAN, CheckFails(m, withPlugin)
        PROVE  GrantTypes' /\ Dropped'
    <2> DEFINE g == [k \in Key |-> IF k \in Revoked(withPlugin) THEN {} ELSE grants[m][k]]
    <2>1. /\ g \in [Key -> SUBSET Int]
          /\ \A k \in Key : g[k] \in {{}, grants[m][k]}
          /\ withPlugin => \A k \in Key : g[k] = {}
      BY DEF GrantTypes, Revoked, KeysOf
    <2>2. /\ grants' = [grants EXCEPT ![m] = g] /\ grantsFile' = g /\ script' = script
          /\ refused' = IF withPlugin THEN refused \cup {m} ELSE refused
      BY <1>2 DEF CheckFails, Save
    <2> HIDE DEF g
    <2>3. GrantTypes'
      BY <2>1, <2>2 DEF GrantTypes
    <2>4. \A q \in Manager : q # m => grants'[q] = grants[q]
      BY <2>2 DEF GrantTypes
    <2>5. grants'[m] = g
      BY <2>2 DEF GrantTypes
    <2>6. ASSUME NEW q \in refused', NEW k \in Key PROVE grants'[q][k] = {}
      <3>1. CASE q = m /\ m \notin refused
        BY <2>1, <2>2, <2>5, <3>1
      <3>2. CASE q = m /\ m \in refused
        BY <2>1, <2>5, <3>2 DEF Dropped
      <3>3. CASE q # m
        BY <2>2, <2>4, <3>3 DEF Dropped, GrantTypes
      <3>4. QED
        BY <3>1, <3>2, <3>3
    <2>7. QED
      BY <2>3, <2>6 DEF Dropped
  <1>3. ASSUME NEW m \in Manager, Load(m)
        PROVE  GrantTypes' /\ Dropped'
    BY <1>3 DEF Load, GrantTypes, Dropped
  <1>4. ASSUME Alter PROVE GrantTypes' /\ Dropped'
    BY <1>4, BundleAssumption DEF Alter, GrantTypes, Dropped
  <1>5. QED
    BY <1>1, <1>2, <1>3, <1>4 DEF GrantNext

(* The steps of an update, each of which can fail.                           *)
LEMMA UpdatesKeep ==
  ASSUME UpdateTypes, Kept, UpdateNext
  PROVE  UpdateTypes' /\ Kept'
  <1>1. ASSUME NEW force \in BOOLEAN, Begin(force)
        PROVE  UpdateTypes' /\ Kept'
    BY <1>1 DEF Begin, UpdateTypes, Kept
  <1>2. ASSUME MoveAside PROVE UpdateTypes' /\ Kept'
    <2>1. target = original /\ original' = original /\ staged' = staged /\ staged = "new" /\ backup = NoTree
      BY <1>2 DEF MoveAside, Kept
    <2>2. CASE target # NoTree /\ backup' = target /\ target' = NoTree /\ updateStep' = "in"
      BY <2>1, <2>2 DEF UpdateTypes, Kept, NoTree
    <2>3. CASE target = NoTree /\ updateStep' = "in" /\ target' = target /\ backup' = backup
      BY <1>2, <2>1, <2>3 DEF UpdateTypes, Kept, NoTree
    <2>4. CASE target # NoTree /\ updateStep' = "failed" /\ target' = target /\ backup' = backup
      BY <2>1, <2>4 DEF UpdateTypes, Kept, NoTree
    <2>5. QED
      BY <1>2, <2>2, <2>3, <2>4 DEF MoveAside
  <1>3. ASSUME MoveIn PROVE UpdateTypes' /\ Kept'
    BY <1>3 DEF MoveIn, UpdateTypes, Kept, NoTree
  <1>4. ASSUME DeleteBackup PROVE UpdateTypes' /\ Kept'
    BY <1>4 DEF DeleteBackup, UpdateTypes, Kept, NoTree
  <1>5. ASSUME Restore PROVE UpdateTypes' /\ Kept'
    BY <1>5 DEF Restore, UpdateTypes, Kept, NoTree
  <1>6. QED
    BY <1>1, <1>2, <1>3, <1>4, <1>5 DEF UpdateNext

(* Grants, the update of a plugin and the entries of an archive keep their   *)
(* parts of the invariant.                                                   *)
THEOREM BundleInvariance == BundleSpec => []BundleInv
  <1>1. BundleInit => BundleInv
    <2>1. ASSUME BundleInit PROVE GrantTypes /\ Dropped
      BY <2>1 DEF BundleInit, GrantInit, GrantTypes, Dropped, NoGrants
    <2>2. ASSUME BundleInit PROVE UpdateTypes /\ Kept
      BY <2>2 DEF BundleInit, UpdateInit, UpdateTypes, Kept, NoTree
    <2>3. ASSUME BundleInit PROVE EntryTypes
      <3>1. EntryPaths(3) \subseteq Seq(Segment)
        <4>1. \A k \in 0 .. 3 : [1 .. k -> Segment] \subseteq Seq(Segment)
          BY SeqDef
        <4>2. QED
          BY <4>1, Zenon DEF EntryPaths
      <3>2. entry.path \in EntryPaths(3) \ {<<>>} /\ entry.link \in EntryPaths(3)
        BY <2>3 DEF BundleInit, EntryInit
      <3>3. QED
        BY <3>1, <3>2 DEF EntryTypes
    <2>4. QED
      BY <2>1, <2>2, <2>3 DEF BundleInv
  <1>2. BundleInv /\ [BundleNext]_bundleVars => BundleInv'
    <2>1. SUFFICES ASSUME BundleInv, [BundleNext]_bundleVars PROVE BundleInv'
      OBVIOUS
    <2>2. EntryTypes'
      BY <2>1 DEF BundleInv, BundleNext, bundleVars, EntryTypes
    <2>3. GrantTypes' /\ Dropped'
      <3>1. CASE GrantNext
        BY <2>1, <3>1, GrantsKeep DEF BundleInv
      <3>2. CASE UNCHANGED grantVars
        BY <2>1, <3>2 DEF BundleInv, grantVars, GrantTypes, Dropped
      <3>3. QED
        BY <2>1, <3>1, <3>2 DEF BundleNext, bundleVars
    <2>4. UpdateTypes' /\ Kept'
      <3>1. CASE UpdateNext
        BY <2>1, <3>1, UpdatesKeep DEF BundleInv
      <3>2. CASE UNCHANGED updateVars
        BY <2>1, <3>2 DEF BundleInv, updateVars, UpdateTypes, Kept
      <3>3. QED
        BY <2>1, <3>1, <3>2 DEF BundleNext, bundleVars
    <2>5. QED
      BY <2>2, <2>3, <2>4 DEF BundleInv
  <1>3. QED
    BY <1>1, <1>2, PTL DEF BundleSpec

(* For any number of managers and contents, and archive paths of any length: *)
(* no grant outlives its refusal, an update that fails leaves the installed  *)
(* tree or a backup of it, and no valid entry leads outside (plugin-supply-  *)
(* chain-bundle.js:76, 286, 415).                                            *)
THEOREM BundleSound == BundleSpec => []BundleIsSound
  <1>1. BundleInv => BundleIsSound
    <2>1. ASSUME BundleInv PROVE AlteredStaysRefused
      <3>1. \A m \in refused, k \in Key : m \in Manager /\ grants[m][k] = {}
        BY <2>1 DEF BundleInv, Dropped, GrantTypes
      <3>2. QED
        BY <3>1 DEF AlteredStaysRefused, Authorized, GrantRecord, Key
    <2>2. ASSUME BundleInv PROVE UpdateLosesNoTree
      BY <2>2 DEF BundleInv, UpdateTypes, Kept, UpdateLosesNoTree, NoTree
    <2>3. ASSUME BundleInv PROVE ValidStaysInside
      BY <2>3, EntryIsRight DEF BundleInv
    <2>4. QED
      BY <2>1, <2>2, <2>3 DEF BundleIsSound
  <1>2. QED
    BY <1>1, BundleInvariance, PTL

-----------------------------------------------------------------------------
(* What a replay starts from or ends with: events in the order of their      *)
(* appends, before each event that comes after its revision; without damage  *)
(* the appends up to that revision.                                          *)
EventId == 1 .. MaxEvents
EventFile == [revision : Nat \ {0}, id : EventId]
AckedBefore(a, b) == \E k, l \in DOMAIN acked : k < l /\ acked[k] = a /\ acked[l] = b
InOrder(ids) ==
    /\ \A i \in DOMAIN ids : \E k \in DOMAIN acked : acked[k] = ids[i]
    /\ \A i, j \in DOMAIN ids : i < j => AckedBefore(ids[i], ids[j])
Sound(ids, rev) ==
    /\ InOrder(ids) /\ rev <= Len(acked)
    /\ \A e \in events : e.revision > rev => \A i \in DOMAIN ids : AckedBefore(ids[i], e.id)
    /\ damaged.event = {} => ids = SubSeq(acked, 1, rev)

(* The files of the stream are in the same order by revision and by append.  *)
Sequential ==
    /\ \A e \in events : e.revision <= Len(acked) /\ \E k \in DOMAIN acked : acked[k] = e.id
    /\ \A e, f \in events : e # f => e.revision # f.revision
    /\ \A e, f \in events : e.revision < f.revision => AckedBefore(e.id, f.id)
    /\ damaged.event = {} => events = {[revision |-> k, id |-> acked[k]] : k \in DOMAIN acked}

(* The inductive invariant. Appends that overlap may share a revision: of    *)
(* such a stream it says nothing.                                            *)
EventTypes ==
    /\ events \subseteq EventFile /\ snapshots \subseteq [state : Seq(EventId), revision : Nat]
    /\ next \in [Writer -> Nat] /\ acked \in Seq(EventId)
    /\ damaged \in [event : SUBSET EventId, snapshot : SUBSET Nat]
    /\ replayed \in [state : Seq(EventId), revision : Nat, quarantined : Nat]
EventInv ==
    overlapped \/ /\ EventTypes /\ Sequential
                  /\ Sound(replayed.state, replayed.revision)
                  /\ \A s \in snapshots : Sound(s.state, s.revision)

(* The files up to a revision, in a sequence.                                *)
ListedUpTo(m) ==
    \E n \in Nat : \E f \in [1 .. n -> {e \in events : e.revision <= m}] :
        /\ \A i, j \in 1 .. n : i < j => f[i].revision < f[j].revision
        /\ \A e \in events : e.revision <= m => \E i \in 1 .. n : f[i] = e

(* They can be listed, by induction on the revision.                         *)
LEMMA ListingExists ==
  ASSUME EventTypes, \A e, f \in events : e # f => e.revision # f.revision, NEW m \in Nat
  PROVE  ListedUpTo(m)
  <1>0. \A e \in events : e.revision \in Nat /\ e.revision > 0
    BY DEF EventTypes, EventFile
  <1>1. ListedUpTo(0)
    <2> DEFINE none == [i \in 1 .. 0 |-> 0]
    <2>1. none \in [1 .. 0 -> {e \in events : e.revision <= 0}]
      OBVIOUS
    <2>2. \A e \in events : ~(e.revision <= 0)
      BY <1>0
    <2>3. \A i, j \in 1 .. 0 : i < j => none[i].revision < none[j].revision
      OBVIOUS
    <2> HIDE DEF none
    <2>4. QED
      BY <2>1, <2>2, <2>3 DEF ListedUpTo
  <1>2. ASSUME NEW k \in Nat, ListedUpTo(k) PROVE ListedUpTo(k + 1)
    <2>1. PICK n \in Nat : \E f \in [1 .. n -> {e \in events : e.revision <= k}] :
              /\ \A i, j \in 1 .. n : i < j => f[i].revision < f[j].revision
              /\ \A e \in events : e.revision <= k => \E i \in 1 .. n : f[i] = e
      BY <1>2 DEF ListedUpTo
    <2>2. PICK f \in [1 .. n -> {e \in events : e.revision <= k}] :
              /\ \A i, j \in 1 .. n : i < j => f[i].revision < f[j].revision
              /\ \A e \in events : e.revision <= k => \E i \in 1 .. n : f[i] = e
      BY <2>1
    <2>3. \A i \in 1 .. n : f[i] \in events /\ f[i].revision <= k
      BY <2>2
    <2>4. CASE \E e \in events : e.revision = k + 1
      <3>1. PICK e \in events : e.revision = k + 1
        BY <2>4
      <3> DEFINE g == [i \in 1 .. n + 1 |-> IF i = n + 1 THEN e ELSE f[i]]
      <3>2. /\ \A i \in 1 .. n : i \in 1 .. n + 1 /\ i # n + 1 /\ i < n + 1
            /\ \A i \in 1 .. n + 1 : i = n + 1 \/ i \in 1 .. n
            /\ n + 1 \in 1 .. n + 1 /\ n + 1 \in Nat
        OBVIOUS
      <3>3. g[n + 1] = e /\ \A i \in 1 .. n : g[i] = f[i]
        BY <3>2
      <3>4. g \in [1 .. n + 1 -> {x \in events : x.revision <= k + 1}]
        <4>1. \A i \in 1 .. n + 1 : g[i] \in events /\ g[i].revision <= k + 1
          BY <1>0, <2>3, <3>1, <3>2, <3>3
        <4>2. QED
          BY <4>1
      <3>5. \A i, j \in 1 .. n + 1 : i < j => g[i].revision < g[j].revision
        <4>1. TAKE i, j \in 1 .. n + 1
        <4>2. HAVE i < j
        <4>3. i \in 1 .. n
          BY <4>2
        <4>4. g[i].revision <= k /\ g[i].revision \in Nat
          BY <1>0, <2>3, <3>3, <4>3
        <4>5. CASE j = n + 1
          BY <3>1, <3>3, <4>4, <4>5
        <4>6. CASE j \in 1 .. n
          BY <2>2, <3>3, <4>2, <4>3, <4>6
        <4>7. QED
          BY <3>2, <4>5, <4>6
      <3>6. \A x \in events : x.revision <= k + 1 => \E i \in 1 .. n + 1 : g[i] = x
        <4>1. TAKE x \in events
        <4>2. HAVE x.revision <= k + 1
        <4>3. CASE x.revision = k + 1
          BY <3>1, <3>2, <3>3, <4>3
        <4>4. CASE x.revision <= k
          BY <2>2, <3>2, <3>3, <4>4
        <4>5. QED
          BY <1>0, <4>2, <4>3, <4>4
      <3> HIDE DEF g
      <3>7. QED
        BY <3>2, <3>4, <3>5, <3>6 DEF ListedUpTo
    <2>5. CASE ~\E e \in events : e.revision = k + 1
      <3>1. \A e \in events : e.revision <= k + 1 <=> e.revision <= k
        BY <1>0, <2>5
      <3>2. {e \in events : e.revision <= k + 1} = {e \in events : e.revision <= k}
        BY <3>1
      <3>3. QED
        BY <2>2, <3>1, <3>2 DEF ListedUpTo
    <2>6. QED
      BY <2>4, <2>5
  <1>3. ASSUME ~ListedUpTo(m) PROVE FALSE
    <2> DEFINE missing == {k \in Nat : ~ListedUpTo(k)}
    <2>1. missing \in SUBSET Nat /\ missing # {}
      BY <1>3
    <2>2. PICK least \in missing : \A k \in missing : least <= k
      BY <2>1, LeastOf
    <2>3. least \in Nat /\ least # 0 /\ ~ListedUpTo(least)
      BY <1>1, <2>2
    <2>4. least - 1 \in Nat /\ (least - 1) + 1 = least /\ ~(least <= least - 1)
      BY <2>3
    <2>5. ListedUpTo(least - 1)
      BY <2>2, <2>4
    <2>6. QED
      BY <1>2, <2>3, <2>4, <2>5
  <1>4. QED
    BY <1>3

(* _listEventFiles gives every file once, by its revision.                   *)
LEMMA ListedIs ==
  ASSUME EventTypes, Sequential
  PROVE  /\ Cardinality(events) \in Nat /\ Listed \in [1 .. Cardinality(events) -> events]
         /\ \A i, j \in 1 .. Cardinality(events) : i < j => Listed[i].revision < Listed[j].revision
         /\ \A e \in events : \E i \in 1 .. Cardinality(events) : Listed[i] = e
  <1>0. /\ \A e \in events : e.revision \in Nat /\ e.id \in Nat /\ e.revision <= Len(acked)
        /\ \A e, f \in events : e # f => e.revision # f.revision
        /\ Len(acked) \in Nat
    BY DEF EventTypes, EventFile, EventId, Sequential
  <1>1. ListedUpTo(Len(acked))
    BY <1>0, ListingExists
  <1>2. {e \in events : e.revision <= Len(acked)} = events
    BY <1>0
  <1>3. PICK n \in Nat : \E f \in [1 .. n -> events] :
            /\ \A i, j \in 1 .. n : i < j => f[i].revision < f[j].revision
            /\ \A e \in events : \E i \in 1 .. n : f[i] = e
    BY <1>0, <1>1, <1>2 DEF ListedUpTo
  <1>4. PICK f \in [1 .. n -> events] :
            /\ \A i, j \in 1 .. n : i < j => f[i].revision < f[j].revision
            /\ \A e \in events : \E i \in 1 .. n : f[i] = e
    BY <1>3
  <1>5. \A i, j \in 1 .. n : i # j => f[i] # f[j]
    <2>1. TAKE i, j \in 1 .. n
    <2>2. HAVE i # j
    <2>3. f[i].revision \in Nat /\ f[j].revision \in Nat /\ (i < j \/ j < i)
      BY <1>0, <2>2
    <2>4. f[i].revision # f[j].revision
      BY <1>4, <2>3
    <2>5. QED
      BY <2>4
  <1>6. Cardinality(events) = n /\ IsFiniteSet(events)
    <2>1. f \in Bijection(1 .. n, events)
      BY <1>4, <1>5 DEF Bijection, Injection, Surjection, IsInjective
    <2>2. ExistsBijection(1 .. n, events)
      BY <2>1 DEF ExistsBijection
    <2>3. QED
      BY <2>2, FS_CountingElements, FS_NatBijection
  <1>7. f \in SetToSeqs(events) /\ DOMAIN f = 1 .. n
    BY <1>5, <1>6 DEF SetToSeqs
  <1>8. \A i, j \in DOMAIN f : i < j => ListedBefore(f[i], f[j])
    BY <1>4, <1>7 DEF ListedBefore
  <1>9. PICK files : files = Listed
    OBVIOUS
  <1>10. /\ files \in SetToSeqs(events)
         /\ \A i, j \in DOMAIN files : i < j => ListedBefore(files[i], files[j])
    BY <1>7, <1>8, <1>9 DEF Listed
  <1>11. files \in [1 .. n -> events] /\ \A i, j \in 1 .. n : i # j => files[i] # files[j]
    BY <1>6, <1>10 DEF SetToSeqs
  <1>12. \A i, j \in 1 .. n : i < j => files[i].revision < files[j].revision
    <2>1. TAKE i, j \in 1 .. n
    <2>2. HAVE i < j
    <2>3. files[i] \in events /\ files[j] \in events /\ i # j /\ DOMAIN files = 1 .. n
      BY <1>11, <2>2
    <2>4. files[i].revision # files[j].revision
      BY <1>0, <1>11, <2>3
    <2>5. ListedBefore(files[i], files[j])
      BY <1>10, <2>2, <2>3
    <2>6. QED
      BY <1>0, <2>3, <2>4, <2>5 DEF ListedBefore
  <1>13. \A e \in events : \E i \in 1 .. n : files[i] = e
    <2>1. files \in Injection(1 .. n, events)
      BY <1>11 DEF Injection, IsInjective
    <2>2. Cardinality(1 .. n) = n
      BY FS_Interval
    <2>3. files \in Surjection(1 .. n, events)
      BY <1>6, <2>1, <2>2, FS_Injection
    <2>4. QED
      BY <2>3 DEF Surjection
  <1>14. QED
    BY <1>6, <1>9, <1>11, <1>12, <1>13

(* Nothing, applied, is sound.                                               *)
LEMMA NothingIsSound ==
  ASSUME EventTypes
  PROVE  <<>> \in Seq(EventId) /\ Sound(<<>>, 0)
  <1>1. <<>> \in Seq(EventId) /\ DOMAIN <<>> = {} /\ Len(<<>>) = 0
    OBVIOUS
  <1>2. Len(acked) \in Nat /\ 0 <= Len(acked)
    BY DEF EventTypes
  <1>3. SubSeq(acked, 1, 0) = <<>>
    OBVIOUS
  <1>4. InOrder(<<>>)
    BY <1>1 DEF InOrder
  <1>5. QED
    BY <1>1, <1>2, <1>3, <1>4 DEF Sound

(* getLatestSnapshot gives something sound, if anything.                     *)
LEMMA StartIs ==
  ASSUME EventInv, ~overlapped
  PROVE  /\ Start \in [state : Seq(EventId), revision : Nat]
         /\ Sound(Start.state, Start.revision)
  <1>0. /\ EventTypes /\ Len(acked) \in Nat
        /\ \A s \in snapshots : /\ Sound(s.state, s.revision) /\ s.revision \in Nat /\ s.state \in Seq(EventId)
                                /\ s.revision <= Len(acked)
    BY DEF EventInv, EventTypes, Sound
  <1>1. ASSUME snapshots # {} PROVE Newest \in snapshots
    <2> DEFINE bounds == {b \in Nat : \A s \in snapshots : s.revision <= b}
    <2>1. bounds \in SUBSET Nat /\ bounds # {}
      BY <1>0
    <2>2. PICK b \in bounds : \A c \in bounds : b <= c
      BY <2>1, LeastOf
    <2>3. \E s \in snapshots : s.revision = b
      <3>1. SUFFICES ASSUME \A s \in snapshots : s.revision # b PROVE FALSE
        OBVIOUS
      <3>2. b \in Nat /\ \A s \in snapshots : s.revision <= b
        BY <2>2
      <3>3. b - 1 \in Nat /\ \A s \in snapshots : s.revision <= b - 1
        BY <1>0, <1>1, <3>1, <3>2
      <3>4. b <= b - 1
        BY <2>2, <3>3
      <3>5. QED
        BY <3>2, <3>4
    <2>4. \E s \in snapshots : \A t \in snapshots : t.revision <= s.revision
      BY <2>2, <2>3
    <2>5. QED
      BY <2>4 DEF Newest
  <1>2. CASE snapshots = {} \/ NewestIsBad
    <2>1. Start = [state |-> <<>>, revision |-> 0]
      BY <1>2 DEF Start
    <2>2. <<>> \in Seq(EventId) /\ Sound(<<>>, 0)
      BY <1>0, NothingIsSound
    <2>3. QED
      BY <2>1, <2>2
  <1>3. CASE ~(snapshots = {} \/ NewestIsBad)
    <2>1. Start = [state |-> Newest.state, revision |-> Newest.revision]
      BY <1>3 DEF Start
    <2>2. Sound(Newest.state, Newest.revision) /\ Newest.revision \in Nat /\ Newest.state \in Seq(EventId)
      BY <1>0, <1>1, <1>3
    <2>3. QED
      BY <2>1, <2>2
  <1>4. QED
    BY <1>2, <1>3

(* The loop of replay, after n files.                                        *)
Loop(g, n) ==
    g = [k \in 0 .. n |-> IF k = 0 THEN [state |-> Start.state, revision |-> Start.revision, bad |-> {}]
                          ELSE Apply(g[k - 1], Listed[k])]

(* It exists, by a least number of files for which it does not.              *)
LEMMA LoopExists ==
  ASSUME NEW n \in Nat
  PROVE  \E g : Loop(g, n)
  <1> DEFINE begin == [state |-> Start.state, revision |-> Start.revision, bad |-> {}]
             Bad == {k \in Nat : ~\E g : Loop(g, k)}
  <1>1. SUFFICES ASSUME Bad # {} PROVE FALSE
    OBVIOUS
  <1>2. PICK k \in Bad : \A q \in Bad : k <= q
    <2>1. Bad \in SUBSET Nat
      OBVIOUS
    <2> HIDE DEF Bad
    <2>2. QED
      BY <1>1, <2>1, LeastOf
  <1>3. k # 0
    <2>1. Loop([i \in 0 .. 0 |-> begin], 0)
      BY DEF Loop
    <2>2. QED
      BY <2>1
  <1>4. k - 1 \in Nat /\ k - 1 \notin Bad /\ (k - 1) + 1 = k
    BY <1>2, <1>3
  <1>5. PICK m \in Nat : m = k - 1 /\ k = m + 1
    BY <1>4
  <1>6. PICK g : Loop(g, m)
    BY <1>4, <1>5
  <1> DEFINE h == [i \in 0 .. m + 1 |-> IF i <= m THEN g[i] ELSE Apply(g[m], Listed[m + 1])]
  <1> HIDE DEF begin
  <1>7. \A i \in 0 .. m : g[i] = IF i = 0 THEN begin ELSE Apply(g[i - 1], Listed[i])
    BY <1>6 DEF Loop, begin
  <1>8. ASSUME NEW i \in 0 .. m + 1
        PROVE  h[i] = IF i = 0 THEN begin ELSE Apply(h[i - 1], Listed[i])
    <2>1. CASE i = m + 1
      <3>1. h[i - 1] = g[m] /\ h[i] = Apply(g[m], Listed[m + 1])
        BY <2>1
      <3>2. QED
        BY <2>1, <3>1
    <2>2. CASE i # m + 1 /\ i # 0
      <3>1. i - 1 \in 0 .. m /\ i \in 0 .. m
        BY <2>2
      <3>2. h[i - 1] = g[i - 1] /\ h[i] = g[i]
        BY <3>1
      <3>3. QED
        BY <1>7, <2>2, <3>1, <3>2
    <2>3. CASE i = 0
      BY <1>7, <2>3
    <2>4. QED
      BY <2>1, <2>2, <2>3
  <1>9. Loop(h, m + 1)
    BY <1>8 DEF Loop, begin
  <1>10. QED
    BY <1>2, <1>5, <1>9

(* What replay has after n files: sound, and of every file it applied, unless*)
(* one did not verify.                                                       *)
Replays(acc, n) ==
    /\ acc \in [state : Seq(EventId), revision : Nat, bad : SUBSET events]
    /\ Sound(acc.state, acc.revision)
    /\ acc.bad = {} => \A i \in 1 .. n : Listed[i].revision <= acc.revision
    /\ acc.bad = {} \/ (damaged.event # {} /\ \E e \in events : acc.bad = {e})

(* The next file of an undamaged stream is that of the next append.          *)
LEMMA NextFile ==
  ASSUME EventInv, ~overlapped, NEW n \in Nat, n + 1 <= Cardinality(events), NEW rev \in Nat,
         \A i \in 1 .. n : Listed[i].revision <= rev, Listed[n + 1].revision > rev, damaged.event = {}
  PROVE  rev + 1 <= Len(acked) /\ Listed[n + 1] = [revision |-> rev + 1, id |-> acked[rev + 1]]
  <1>1. /\ EventTypes /\ Sequential /\ Len(acked) \in Nat
        /\ DOMAIN acked = 1 .. Len(acked)
    BY DEF EventInv, EventTypes
  <1>2. PICK N \in Nat : N = Cardinality(events)
    BY <1>1, ListedIs
  <1>3. /\ \A i \in 1 .. N : Listed[i] \in events
        /\ \A i, j \in 1 .. N : i < j => Listed[i].revision < Listed[j].revision
        /\ \A e \in events : \E i \in 1 .. N : Listed[i] = e
    BY <1>1, <1>2, ListedIs
  <1>4. \A e \in events : e.revision \in Nat /\ e.revision <= Len(acked)
    BY <1>1 DEF EventTypes, EventFile, Sequential
  <1>5. n + 1 \in 1 .. N /\ Listed[n + 1] \in events
    BY <1>2, <1>3
  <1>6. rev + 1 <= Len(acked) /\ rev + 1 \in DOMAIN acked
    BY <1>1, <1>4, <1>5
  <1>7. [revision |-> rev + 1, id |-> acked[rev + 1]] \in events
    BY <1>1, <1>6 DEF Sequential
  <1>8. PICK i \in 1 .. N : Listed[i] = [revision |-> rev + 1, id |-> acked[rev + 1]]
    BY <1>3, <1>7
  <1>9. Listed[i].revision = rev + 1
    BY <1>8
  <1>10. i \notin 1 .. n
    BY <1>9
  <1>11. ~(n + 1 < i)
    <2>1. ASSUME n + 1 < i PROVE FALSE
      <3>1. Listed[n + 1].revision < rev + 1 /\ Listed[n + 1].revision \in Nat
        BY <1>3, <1>4, <1>5, <1>9, <2>1
      <3>2. QED
        BY <3>1
    <2>2. QED
      BY <2>1
  <1>12. i = n + 1
    BY <1>10, <1>11
  <1>13. QED
    BY <1>6, <1>8, <1>12

(* An event that is applied comes after those that were.                     *)
LEMMA AppliedIsSound ==
  ASSUME EventInv, ~overlapped, NEW ids \in Seq(EventId), NEW rev \in Nat, Sound(ids, rev),
         NEW e \in events, e.revision > rev,
         damaged.event = {} => e = [revision |-> rev + 1, id |-> acked[rev + 1]] /\ rev + 1 <= Len(acked)
  PROVE  Append(ids, e.id) \in Seq(EventId) /\ Sound(Append(ids, e.id), e.revision)
  <1>0. /\ EventTypes /\ Sequential /\ Len(acked) \in Nat /\ DOMAIN acked = 1 .. Len(acked)
        /\ e.id \in EventId /\ e.revision \in Nat /\ acked \in Seq(EventId)
        /\ \A k \in 1 .. Len(acked) : acked[k] \in EventId
    BY DEF EventInv, EventTypes, EventFile
  <1>1. PICK n \in Nat : n = Len(ids)
    OBVIOUS
  <1>2. PICK more : more = Append(ids, e.id)
    OBVIOUS
  <1>3. /\ more \in Seq(EventId) /\ DOMAIN more = 1 .. n + 1 /\ more[n + 1] = e.id
        /\ \A i \in 1 .. n : more[i] = ids[i]
        /\ DOMAIN ids = 1 .. n
    BY <1>0, <1>1, <1>2, AppendProperties
  <1>a. /\ \A i \in 1 .. n + 1 : i = n + 1 \/ i \in 1 .. n
        /\ \A i, j \in 1 .. n + 1 : i < j => i \in 1 .. n
        /\ \A f \in events : f.revision > e.revision => f.revision > rev
    BY <1>0 DEF EventTypes, EventFile
  <1>4. /\ \A i \in 1 .. n : \E k \in DOMAIN acked : acked[k] = ids[i]
        /\ \A i, j \in 1 .. n : i < j => AckedBefore(ids[i], ids[j])
        /\ \A f \in events : f.revision > rev => \A i \in 1 .. n : AckedBefore(ids[i], f.id)
    BY <1>3 DEF Sound, InOrder
  <1>5. /\ \E k \in DOMAIN acked : acked[k] = e.id
        /\ e.revision <= Len(acked)
        /\ \A f \in events : f.revision > e.revision => AckedBefore(e.id, f.id)
    BY <1>0 DEF Sequential, EventTypes, EventFile
  <1>6. \A i \in 1 .. n + 1 : \E k \in DOMAIN acked : acked[k] = more[i]
    BY <1>3, <1>4, <1>5, <1>a, Zenon
  <1>7. \A i, j \in 1 .. n + 1 : i < j => AckedBefore(more[i], more[j])
    <2>1. TAKE i, j \in 1 .. n + 1
    <2>2. HAVE i < j
    <2>3. i \in 1 .. n /\ more[i] = ids[i]
      BY <1>3, <1>a, <2>2, Zenon
    <2>4. CASE j = n + 1
      BY <1>3, <1>4, <2>3, <2>4, Zenon
    <2>5. CASE j \in 1 .. n
      BY <1>3, <1>4, <2>2, <2>3, <2>5, Zenon
    <2>6. QED
      BY <1>a, <2>4, <2>5
  <1>8. InOrder(more)
    BY <1>3, <1>6, <1>7, Zenon DEF InOrder
  <1>9. \A f \in events : f.revision > e.revision => \A i \in 1 .. n + 1 : AckedBefore(more[i], f.id)
    <2>1. TAKE f \in events
    <2>2. HAVE f.revision > e.revision
    <2>3. TAKE i \in 1 .. n + 1
    <2>4. CASE i = n + 1
      BY <1>3, <1>5, <2>2, <2>4, Zenon
    <2>5. CASE i \in 1 .. n
      BY <1>3, <1>4, <1>a, <2>2, <2>5, Zenon
    <2>6. QED
      BY <1>a, <2>4, <2>5, Zenon
  <1>10. ASSUME damaged.event = {} PROVE more = SubSeq(acked, 1, e.revision)
    <2>1. ids = SubSeq(acked, 1, rev) /\ rev + 1 <= Len(acked) /\ e.revision = rev + 1 /\ e.id = acked[rev + 1]
      BY <1>10 DEF Sound
    <2>2. /\ SubSeq(acked, 1, rev) \in Seq(EventId) /\ Len(SubSeq(acked, 1, rev)) = rev
          /\ \A k \in 1 .. rev : SubSeq(acked, 1, rev)[k] = acked[k]
      <3>1. \A k \in 1 .. rev : acked[k] \in EventId
        BY <1>0, <2>1
      <3>2. rev - 1 + 1 = rev /\ (1 <= rev \/ rev = 0) /\ \A k \in 1 .. rev : 1 + k - 1 = k
        OBVIOUS
      <3>3. QED
        BY <1>0, <3>1, <3>2, SubSeqProperties
    <2>3. n = rev /\ \A k \in 1 .. rev : ids[k] = acked[k]
      BY <1>1, <2>1, <2>2, Zenon
    <2>4. PICK rest : rest = SubSeq(acked, 1, rev + 1)
      OBVIOUS
    <2>5. /\ rest \in Seq(EventId) /\ Len(rest) = rev + 1
          /\ \A k \in 1 .. rev + 1 : rest[k] = acked[k]
      <3>1. \A k \in 1 .. rev + 1 : acked[k] \in EventId
        BY <1>0, <2>1
      <3>2. (rev + 1) - 1 + 1 = rev + 1 /\ 1 <= rev + 1 /\ \A k \in 1 .. rev + 1 : 1 + k - 1 = k
        OBVIOUS
      <3>3. QED
        BY <1>0, <2>4, <3>1, <3>2, SubSeqProperties
    <2>6. Len(more) = n + 1
      BY <1>3
    <2>7. \A k \in 1 .. n + 1 : more[k] = rest[k]
      <3>1. TAKE k \in 1 .. n + 1
      <3>2. CASE k = n + 1
        BY <1>3, <2>1, <2>3, <2>5, <3>2
      <3>3. CASE k \in 1 .. n
        BY <1>3, <2>3, <2>5, <3>3
      <3>4. QED
        BY <1>a, <3>2, <3>3
    <2>8. more = rest
      BY <1>3, <2>3, <2>5, <2>6, <2>7, SeqEqual
    <2>9. QED
      BY <2>1, <2>4, <2>8
  <1>11. QED
    BY <1>2, <1>3, <1>5, <1>8, <1>9, <1>10 DEF Sound

(* One file more.                                                            *)
LEMMA ApplyKeeps ==
  ASSUME EventInv, ~overlapped, NEW n \in Nat, n + 1 <= Cardinality(events), NEW acc, Replays(acc, n)
  PROVE  Replays(Apply(acc, Listed[n + 1]), n + 1)
  <1>1. /\ EventTypes /\ Sequential
        /\ \A e \in events : e.revision \in Nat
    BY DEF EventInv, EventTypes, EventFile
  <1>2. PICK N \in Nat : N = Cardinality(events)
    BY <1>1, ListedIs
  <1>3. PICK e : e = Listed[n + 1]
    OBVIOUS
  <1>4. /\ e \in events
        /\ \A i \in 1 .. n : Listed[i] \in events /\ Listed[i].revision < e.revision
    <2>1. /\ \A i \in 1 .. N : Listed[i] \in events
          /\ \A i, j \in 1 .. N : i < j => Listed[i].revision < Listed[j].revision
      BY <1>1, <1>2, ListedIs
    <2>2. n + 1 \in 1 .. N /\ \A i \in 1 .. n : i \in 1 .. N /\ i < n + 1
      BY <1>2
    <2>3. QED
      BY <1>3, <2>1, <2>2
  <1>5. /\ acc \in [state : Seq(EventId), revision : Nat, bad : SUBSET events]
        /\ Sound(acc.state, acc.revision)
        /\ acc.bad = {} => \A i \in 1 .. n : Listed[i].revision <= acc.revision
        /\ acc.bad = {} \/ (damaged.event # {} /\ \E f \in events : acc.bad = {f})
    BY DEF Replays
  <1>a. \A i \in 1 .. n + 1 : i = n + 1 \/ i \in 1 .. n
    OBVIOUS
  <1>6. CASE acc.bad # {} \/ e.revision <= acc.revision
    <2>1. Apply(acc, e) = acc
      BY <1>6 DEF Apply
    <2>2. acc.bad = {} => \A i \in 1 .. n + 1 : Listed[i].revision <= acc.revision
      BY <1>3, <1>5, <1>6, <1>a
    <2>3. QED
      BY <1>3, <1>5, <2>1, <2>2 DEF Replays
  <1>7. CASE ~(acc.bad # {} \/ e.revision <= acc.revision) /\ e.id \in damaged.event
    <2>1. Apply(acc, e) = [acc EXCEPT !.bad = {e}]
      BY <1>7 DEF Apply
    <2>2. PICK new : new = [acc EXCEPT !.bad = {e}]
      OBVIOUS
    <2>3. /\ new \in [state : Seq(EventId), revision : Nat, bad : SUBSET events]
          /\ new.state = acc.state /\ new.revision = acc.revision /\ new.bad = {e}
      BY <1>4, <1>5, <2>2
    <2>4. Replays(new, n + 1)
      BY <1>4, <1>5, <1>7, <2>3 DEF Replays
    <2>5. QED
      BY <1>3, <2>1, <2>2, <2>4
  <1>8. CASE ~(acc.bad # {} \/ e.revision <= acc.revision) /\ e.id \notin damaged.event
    <2>1. Apply(acc, e) = [acc EXCEPT !.state = Append(@, e.id), !.revision = e.revision]
      BY <1>8 DEF Apply
    <2>2. acc.bad = {} /\ e.revision > acc.revision /\ acc.revision \in Nat /\ acc.state \in Seq(EventId)
      BY <1>1, <1>4, <1>5, <1>8
    <2>3. damaged.event = {} => /\ e = [revision |-> acc.revision + 1, id |-> acked[acc.revision + 1]]
                                /\ acc.revision + 1 <= Len(acked)
      BY <1>3, <1>5, <2>2, NextFile
    <2>4. Append(acc.state, e.id) \in Seq(EventId) /\ Sound(Append(acc.state, e.id), e.revision)
      BY <1>4, <1>5, <2>2, <2>3, AppliedIsSound
    <2>5. PICK new : new = [acc EXCEPT !.state = Append(@, e.id), !.revision = e.revision]
      OBVIOUS
    <2>6. /\ new \in [state : Seq(EventId), revision : Nat, bad : SUBSET events]
          /\ new.state = Append(acc.state, e.id) /\ new.revision = e.revision /\ new.bad = {}
      BY <1>1, <1>4, <1>5, <2>2, <2>4, <2>5
    <2>7. \A i \in 1 .. n + 1 : Listed[i].revision <= e.revision
      BY <1>1, <1>3, <1>4, <1>a
    <2>8. Replays(new, n + 1)
      BY <2>4, <2>6, <2>7 DEF Replays
    <2>9. QED
      BY <1>3, <2>1, <2>5, <2>8
  <1>9. QED
    BY <1>6, <1>7, <1>8

(* What replay gives back.                                                   *)
LEMMA ReplayIs ==
  ASSUME EventInv, ~overlapped
  PROVE  Replays(ReplayResult, Cardinality(events))
  <1>1. EventTypes /\ Sequential
    BY DEF EventInv
  <1>2. PICK N \in Nat : N = Cardinality(events)
    BY <1>1, ListedIs
  <1>3. Len(Listed) = N
    <2>1. Listed \in [1 .. N -> events]
      BY <1>1, <1>2, ListedIs
    <2>2. Listed \in Seq(events)
      BY <2>1, SeqDef
    <2>3. QED
      BY <2>1, <2>2
  <1> DEFINE after == CHOOSE g : g = [n \in 0 .. Len(Listed) |->
                          IF n = 0 THEN [state |-> Start.state, revision |-> Start.revision, bad |-> {}]
                          ELSE Apply(g[n - 1], Listed[n])]
  <1>4. \E g : g = [n \in 0 .. Len(Listed) |->
                       IF n = 0 THEN [state |-> Start.state, revision |-> Start.revision, bad |-> {}]
                       ELSE Apply(g[n - 1], Listed[n])]
    BY <1>3, LoopExists DEF Loop
  <1>5. after = [n \in 0 .. Len(Listed) |->
                    IF n = 0 THEN [state |-> Start.state, revision |-> Start.revision, bad |-> {}]
                    ELSE Apply(after[n - 1], Listed[n])]
    BY <1>4, Zenon
  <1>6. ReplayResult = after[Len(Listed)]
    BY Zenon DEF ReplayResult
  <1> HIDE DEF after
  <1>7. PICK g : g = after
    OBVIOUS
  <1>8. /\ ReplayResult = g[N]
        /\ \A n \in 0 .. N : g[n] = IF n = 0 THEN [state |-> Start.state, revision |-> Start.revision, bad |-> {}]
                                    ELSE Apply(g[n - 1], Listed[n])
    BY <1>3, <1>5, <1>6, <1>7
  <1>9. Replays(g[0], 0)
    <2>1. g[0] = [state |-> Start.state, revision |-> Start.revision, bad |-> {}]
      BY <1>8
    <2>2. /\ Start.state \in Seq(EventId) /\ Start.revision \in Nat
          /\ Sound(Start.state, Start.revision)
      BY StartIs
    <2>3. g[0] \in [state : Seq(EventId), revision : Nat, bad : SUBSET events]
      BY <2>1, <2>2
    <2>4. g[0].state = Start.state /\ g[0].revision = Start.revision /\ g[0].bad = {}
      BY <2>1
    <2>5. \A i \in 1 .. 0 : Listed[i].revision <= g[0].revision
      OBVIOUS
    <2>6. QED
      BY <2>2, <2>3, <2>4, <2>5 DEF Replays
  <1>10. ASSUME NEW n \in Nat, n + 1 <= N, Replays(g[n], n) PROVE Replays(g[n + 1], n + 1)
    <2>1. g[n + 1] = Apply(g[n], Listed[n + 1])
      <3>1. n + 1 \in 0 .. N /\ n + 1 # 0 /\ n + 1 - 1 = n
        BY <1>10
      <3>2. QED
        BY <1>8, <3>1
    <2>2. n + 1 <= Cardinality(events)
      BY <1>2, <1>10
    <2>3. QED
      BY <1>10, <2>1, <2>2, ApplyKeeps
  <1>11. ASSUME ~Replays(g[N], N) PROVE FALSE
    <2> DEFINE wrong == {n \in 0 .. N : ~Replays(g[n], n)}
    <2>1. wrong \in SUBSET Nat /\ wrong # {}
      BY <1>11
    <2>2. PICK n \in wrong : \A k \in wrong : n <= k
      BY <2>1, LeastOf
    <2>3. n # 0 /\ n \in 0 .. N
      BY <1>9, <2>2
    <2>4. PICK m \in Nat : n = m + 1
      <3>1. n - 1 \in Nat /\ n = (n - 1) + 1
        BY <2>3
      <3>2. QED
        BY <3>1
    <2>5. m \in 0 .. N /\ m + 1 <= N /\ ~(n <= m)
      BY <2>3, <2>4
    <2>6. Replays(g[m], m)
      BY <2>2, <2>5
    <2>7. QED
      BY <1>10, <2>2, <2>4, <2>5, <2>6
  <1>12. QED
    BY <1>2, <1>8, <1>11

(* What holds of the files still holds of fewer of them, and when one more is*)
(* damaged.                                                                  *)
LEMMA FewerFiles ==
  ASSUME Sequential, events' \subseteq events, acked' = acked,
         damaged'.event = {} => damaged.event = {} /\ events' = events
  PROVE  /\ Sequential'
         /\ \A ids, rev : Sound(ids, rev) => Sound(ids, rev)'
  <1>1. \A a, b : AckedBefore(a, b) => AckedBefore(a, b)'
    BY DEF AckedBefore
  <1>2. Sequential'
    BY <1>1, Zenon DEF Sequential
  <1>3. ASSUME NEW ids, NEW rev, Sound(ids, rev) PROVE Sound(ids, rev)'
    <2>1. InOrder(ids)'
      BY <1>1, <1>3, Zenon DEF Sound, InOrder
    <2>2. QED
      BY <1>1, <1>3, <2>1, Zenon DEF Sound
  <1>4. QED
    BY <1>2, <1>3

(* A stream starts empty.                                                    *)
LEMMA EventStarts == EventInit => EventInv
  <1>1. SUFFICES ASSUME EventInit PROVE EventInv
    OBVIOUS
  <1>2. EventTypes
    <2>1. 0 \in Nat /\ <<>> \in Seq(EventId)
      OBVIOUS
    <2>2. QED
      BY <1>1, <2>1 DEF EventInit, EventTypes
  <1>3. Sequential
    <2>1. DOMAIN acked = {} /\ events = {}
      BY <1>1 DEF EventInit
    <2>2. {[revision |-> k, id |-> acked[k]] : k \in DOMAIN acked} = {}
      BY <2>1
    <2>3. QED
      BY <2>1, <2>2 DEF Sequential
  <1>4. Sound(replayed.state, replayed.revision)
    BY <1>1, <1>2, NothingIsSound DEF EventInit
  <1>5. snapshots = {}
    BY <1>1 DEF EventInit
  <1>6. QED
    BY <1>2, <1>3, <1>4, <1>5 DEF EventInv

(* The last revision, without damage, is the number of appends.              *)
LEMMA LastIs ==
  ASSUME EventTypes, Sequential
  PROVE  /\ LastRevision \in Nat /\ LastRevision <= Len(acked)
         /\ \A e \in events : e.revision <= LastRevision
         /\ damaged.event = {} => LastRevision = Len(acked)
  <1>0. /\ Len(acked) \in Nat /\ DOMAIN acked = 1 .. Len(acked)
        /\ \A e \in events : e.revision \in Nat /\ e.revision > 0 /\ e.revision <= Len(acked)
    BY DEF EventTypes, EventFile, Sequential
  <1>1. PICK N \in Nat : N = Cardinality(events)
    BY ListedIs
  <1>2. /\ Listed \in [1 .. N -> events]
        /\ \A i, j \in 1 .. N : i < j => Listed[i].revision < Listed[j].revision
        /\ \A e \in events : \E i \in 1 .. N : Listed[i] = e
    BY <1>1, ListedIs
  <1>3. ASSUME damaged.event = {}, 0 < Len(acked)
        PROVE  \E e \in events : e.revision = Len(acked)
    <2>1. Len(acked) \in DOMAIN acked
      BY <1>0, <1>3
    <2>2. [revision |-> Len(acked), id |-> acked[Len(acked)]] \in events
      BY <1>3, <2>1, Zenon DEF Sequential
    <2>3. QED
      BY <2>2
  <1>4. CASE events = {}
    <2>1. LastRevision = 0
      BY <1>4 DEF LastRevision
    <2>2. QED
      BY <1>0, <1>3, <1>4, <2>1
  <1>5. CASE events # {}
    <2>1. N \in 1 .. N
      BY <1>2, <1>5
    <2>2. Len(Listed) = N
      <3>1. Listed \in Seq(events)
        BY <1>2, SeqDef
      <3>2. QED
        BY <1>2, <3>1
    <2>3. LastRevision = Listed[N].revision
      BY <1>5, <2>2 DEF LastRevision, Last
    <2>4. Listed[N] \in events
      BY <1>2, <2>1
    <2>5. ASSUME NEW e \in events PROVE e.revision <= Listed[N].revision
      <3>1. PICK i \in 1 .. N : Listed[i] = e
        BY <1>2
      <3>2. CASE i = N
        BY <1>0, <2>4, <3>1, <3>2
      <3>3. CASE i < N
        BY <1>0, <1>2, <2>1, <2>4, <3>1, <3>3
      <3>4. QED
        BY <3>2, <3>3
    <2>6. QED
      BY <1>0, <1>3, <2>3, <2>4, <2>5
  <1>6. QED
    BY <1>4, <1>5

(* An append that did not overlap is after all others.                       *)
LEMMA PutKeeps ==
  ASSUME EventInv, NEW w \in Writer, Put(w)
  PROVE  EventInv'
  <1>1. PICK id \in EventId :
            /\ \A e \in events : e.id # id
            /\ events' = events \cup {[revision |-> next[w], id |-> id]}
            /\ acked' = Append(acked, id)
            /\ next[w] # 0 /\ overlapped' = (overlapped \/ next[w] # LastRevision + 1)
            /\ next' = [next EXCEPT ![w] = 0]
            /\ snapshots' = snapshots /\ damaged' = damaged /\ replayed' = replayed
    BY DEF Put, EventId
  <1>2. SUFFICES ASSUME ~overlapped, next[w] = LastRevision + 1
                 PROVE  /\ EventTypes' /\ Sequential'
                        /\ Sound(replayed.state, replayed.revision)'
                        /\ \A s \in snapshots' : Sound(s.state, s.revision)'
    BY <1>1 DEF EventInv
  <1>3. /\ EventTypes /\ Sequential
        /\ Sound(replayed.state, replayed.revision)
        /\ \A s \in snapshots : Sound(s.state, s.revision)
    BY <1>2 DEF EventInv
  <1>4. PICK n \in Nat : n = Len(acked)
    BY <1>3 DEF EventTypes
  <1>5. PICK rev \in Nat : rev = LastRevision
    BY <1>3, LastIs
  <1>6. /\ rev <= n /\ \A e \in events : e.revision <= rev /\ e.revision \in Nat
        /\ damaged.event = {} => rev = n
    BY <1>3, <1>4, <1>5, LastIs DEF EventTypes, EventFile
  <1>7. /\ acked' \in Seq(EventId) /\ Len(acked') = n + 1 /\ DOMAIN acked' = 1 .. n + 1
        /\ \A k \in 1 .. n : acked'[k] = acked[k] /\ acked[k] \in EventId
        /\ acked'[n + 1] = id
        /\ DOMAIN acked = 1 .. n
    <2>1. acked \in Seq(EventId)
      BY <1>3 DEF EventTypes
    <2>2. QED
      BY <1>1, <1>4, <2>1, AppendProperties
  <1>a. /\ \A k \in 1 .. n : k \in 1 .. n + 1 /\ k < n + 1
        /\ \A k \in 1 .. n + 1 : k = n + 1 \/ k \in 1 .. n
        /\ n + 1 \in 1 .. n + 1
    OBVIOUS
  <1>8. \A a, b : AckedBefore(a, b) => AckedBefore(a, b)'
    BY <1>7, <1>a DEF AckedBefore
  <1>9. \A a : (\E k \in DOMAIN acked : acked[k] = a) => AckedBefore(a, id)'
    BY <1>7, <1>a DEF AckedBefore
  <1>10. \A a : (\E k \in DOMAIN acked : acked[k] = a) => \E k \in DOMAIN acked' : acked'[k] = a
    BY <1>7, <1>a
  <1>11. PICK new : new = [revision |-> rev + 1, id |-> id]
    OBVIOUS
  <1>12. /\ new.revision = rev + 1 /\ new.id = id /\ new \in EventFile
         /\ events' = events \cup {new}
    <2>1. new = [revision |-> next[w], id |-> id]
      BY <1>2, <1>5, <1>11
    <2>2. QED
      BY <1>1, <1>11, <2>1 DEF EventFile
  <1>13. EventTypes'
    BY <1>1, <1>3, <1>7, <1>12 DEF EventTypes
  <1>14. Sequential'
    <2>1. \A e \in events' : e.revision <= Len(acked') /\ \E k \in DOMAIN acked' : acked'[k] = e.id
      <3>1. TAKE e \in events'
      <3>2. CASE e \in events
        <4>1. \E k \in DOMAIN acked : acked[k] = e.id
          BY <1>3, <3>2 DEF Sequential
        <4>2. QED
          BY <1>6, <1>7, <1>10, <3>2, <4>1
      <3>3. CASE e = new
        BY <1>6, <1>7, <1>12, <1>a, <3>3
      <3>4. QED
        BY <1>12, <3>2, <3>3
    <2>2. \A e, f \in events' : e # f => e.revision # f.revision
      BY <1>3, <1>6, <1>12 DEF Sequential
    <2>3. \A e, f \in events' : e.revision < f.revision => AckedBefore(e.id, f.id)'
      <3>1. TAKE e, f \in events'
      <3>2. HAVE e.revision < f.revision
      <3>3. e \in events
        BY <1>6, <1>12, <3>2
      <3>4. CASE f \in events
        BY <1>3, <1>8, <3>2, <3>3, <3>4 DEF Sequential
      <3>5. CASE f = new
        BY <1>3, <1>9, <1>12, <3>3, <3>5 DEF Sequential
      <3>6. QED
        BY <1>12, <3>4, <3>5
    <2>4. ASSUME damaged'.event = {}
          PROVE  events' = {[revision |-> k, id |-> acked'[k]] : k \in DOMAIN acked'}
      <3>1. events = {[revision |-> k, id |-> acked[k]] : k \in 1 .. n} /\ rev = n
        BY <1>1, <1>3, <1>6, <1>7, <2>4 DEF Sequential
      <3>2. {[revision |-> k, id |-> acked[k]] : k \in 1 .. n}
                = {[revision |-> k, id |-> acked'[k]] : k \in 1 .. n}
        BY <1>7
      <3>3. [revision |-> n + 1, id |-> acked'[n + 1]] = new
        BY <1>7, <1>11, <3>1
      <3>4. {[revision |-> k, id |-> acked'[k]] : k \in 1 .. n + 1}
                = {[revision |-> k, id |-> acked'[k]] : k \in 1 .. n} \cup {new}
        BY <1>a, <3>3, Zenon
      <3>5. QED
        BY <1>7, <1>12, <3>1, <3>2, <3>4
    <2>5. QED
      BY <2>1, <2>2, <2>3, <2>4 DEF Sequential
  <1>15. ASSUME NEW ids \in Seq(EventId), NEW r \in Nat, Sound(ids, r) PROVE Sound(ids, r)'
    <2>1. /\ InOrder(ids) /\ r <= n
          /\ \A e \in events : e.revision > r => \A i \in DOMAIN ids : AckedBefore(ids[i], e.id)
          /\ damaged.event = {} => ids = SubSeq(acked, 1, r)
      BY <1>4, <1>15 DEF Sound
    <2>2. InOrder(ids)'
      BY <1>8, <1>10, <2>1, Zenon DEF InOrder
    <2>3. r <= Len(acked')
      BY <1>7, <2>1
    <2>4. \A e \in events' : e.revision > r => \A i \in DOMAIN ids : AckedBefore(ids[i], e.id)'
      <3>1. TAKE e \in events'
      <3>2. HAVE e.revision > r
      <3>3. TAKE i \in DOMAIN ids
      <3>4. CASE e \in events
        BY <1>8, <2>1, <3>2, <3>4, Zenon
      <3>5. CASE e = new
        BY <1>9, <1>12, <2>1, <3>5, Zenon DEF InOrder
      <3>6. QED
        BY <1>12, <3>4, <3>5, Zenon
    <2>5. SubSeq(acked', 1, r) = SubSeq(acked, 1, r)
      <3>1. \A k \in 1 .. r : k \in 1 .. n /\ 1 + k - 1 = k
        BY <2>1
      <3>2. /\ \A k \in 1 .. r : acked[k] \in EventId /\ acked'[k] = acked[k]
            /\ acked \in Seq(EventId)
        BY <1>3, <1>7, <3>1 DEF EventTypes
      <3>3. PICK s : s = SubSeq(acked, 1, r)
        OBVIOUS
      <3>4. PICK t : t = SubSeq(acked', 1, r)
        OBVIOUS
      <3>5. /\ s \in Seq(EventId) /\ Len(s) = r /\ \A k \in 1 .. r : s[k] = acked[k]
        BY <1>4, <2>1, <3>1, <3>2, <3>3, SubSeqProperties
      <3>6. /\ t \in Seq(EventId) /\ Len(t) = r /\ \A k \in 1 .. r : t[k] = acked'[k]
        BY <1>7, <2>3, <3>1, <3>2, <3>4, SubSeqProperties
      <3>7. s = t
        BY <3>2, <3>5, <3>6, SeqEqual
      <3>8. QED
        BY <3>3, <3>4, <3>7
    <2>6. damaged'.event = {} => ids = SubSeq(acked', 1, r)
      BY <1>1, <2>1, <2>5
    <2>7. QED
      BY <2>2, <2>3, <2>4, <2>6 DEF Sound
  <1>16. Sound(replayed.state, replayed.revision)'
    <2>1. replayed.state \in Seq(EventId) /\ replayed.revision \in Nat
      BY <1>3 DEF EventTypes
    <2>2. PICK ids \in Seq(EventId) : ids = replayed.state
      BY <2>1
    <2>3. PICK r \in Nat : r = replayed.revision
      BY <2>1
    <2>4. Sound(ids, r)'
      BY <1>3, <1>15, <2>2, <2>3
    <2>5. QED
      BY <1>1, <2>2, <2>3, <2>4
  <1>17. \A s \in snapshots' : Sound(s.state, s.revision)'
    <2>1. \A s \in snapshots : s.state \in Seq(EventId) /\ s.revision \in Nat
      BY <1>3 DEF EventTypes
    <2>2. QED
      BY <1>1, <1>3, <1>15, <2>1
  <1>18. QED
    BY <1>13, <1>14, <1>16, <1>17

(* replay takes away the file that did not verify, and a bad snapshot.       *)
LEMMA ReplayKeeps ==
  ASSUME EventInv, Replay
  PROVE  EventInv'
  <1>1. PICK r : r = ReplayResult
    OBVIOUS
  <1>2. /\ replayed' = [state |-> r.state, revision |-> r.revision, quarantined |-> Cardinality(r.bad)]
        /\ events' = events \ r.bad
        /\ snapshots' \subseteq snapshots
        /\ damaged' = damaged /\ next' = next /\ acked' = acked /\ overlapped' = overlapped
    BY <1>1 DEF Replay
  <1>3. SUFFICES ASSUME ~overlapped
                 PROVE  /\ EventTypes' /\ Sequential'
                        /\ Sound(replayed.state, replayed.revision)'
                        /\ \A s \in snapshots' : Sound(s.state, s.revision)'
    BY <1>2 DEF EventInv
  <1>4. /\ EventTypes /\ Sequential
        /\ \A s \in snapshots : Sound(s.state, s.revision)
    BY <1>3 DEF EventInv
  <1>5. /\ r \in [state : Seq(EventId), revision : Nat, bad : SUBSET events]
        /\ Sound(r.state, r.revision)
        /\ r.bad = {} \/ (damaged.event # {} /\ \E e \in events : r.bad = {e})
    BY <1>1, <1>3, ReplayIs DEF Replays
  <1>6. /\ Sequential'
        /\ \A ids, rev : Sound(ids, rev) => Sound(ids, rev)'
    <2>1. events' \subseteq events
      BY <1>2
    <2>2. damaged'.event = {} => damaged.event = {} /\ events' = events
      BY <1>2, <1>5
    <2>3. QED
      BY <1>2, <1>4, <2>1, <2>2, FewerFiles
  <1>7. Cardinality(r.bad) \in Nat
    <2>1. CASE r.bad = {}
      BY <2>1, FS_EmptySet
    <2>2. CASE \E e \in events : r.bad = {e}
      <3>1. PICK e \in events : r.bad = {e}
        BY <2>2
      <3>2. Cardinality({e}) = 1
        BY FS_Singleton
      <3>3. QED
        BY <3>1, <3>2
    <2>3. QED
      BY <1>5, <2>1, <2>2
  <1>8. EventTypes'
    BY <1>2, <1>4, <1>5, <1>7 DEF EventTypes
  <1>9. Sound(replayed.state, replayed.revision)'
    <2>1. Sound(r.state, r.revision)'
      <3>1. PICK ids : ids = r.state
        OBVIOUS
      <3>2. PICK rev : rev = r.revision
        OBVIOUS
      <3>3. Sound(ids, rev)'
        BY <1>5, <1>6, <3>1, <3>2, Zenon
      <3>4. QED
        BY <3>1, <3>2, <3>3
    <2>2. replayed'.state = r.state /\ replayed'.revision = r.revision
      BY <1>2
    <2>3. QED
      BY <2>1, <2>2
  <1>10. \A s \in snapshots' : Sound(s.state, s.revision)'
    BY <1>2, <1>4, <1>6, Zenon
  <1>11. QED
    BY <1>6, <1>8, <1>9, <1>10

(* The listing of an append, a snapshot of what was replayed, and damage,    *)
(* leave the files as they are.                                              *)
LEMMA FilesStay ==
  ASSUME EventInv, \/ \E w \in Writer : List(w)
                   \/ CreateSnapshot \/ Damage \/ UNCHANGED eventVars
  PROVE  EventInv'
  <1>1. /\ events' = events /\ acked' = acked /\ overlapped' = overlapped /\ replayed' = replayed
        /\ damaged'.event = {} => damaged.event = {}
    <2>1. ASSUME NEW w \in Writer, List(w)
          PROVE  /\ events' = events /\ acked' = acked /\ overlapped' = overlapped /\ replayed' = replayed
                 /\ damaged' = damaged
      BY <2>1 DEF List
    <2>2. CASE UNCHANGED eventVars
      BY <2>2 DEF eventVars
    <2>3. CASE CreateSnapshot
      <3>1. damaged' = [damaged EXCEPT !.snapshot = @ \ {replayed.revision}]
        BY <2>3 DEF CreateSnapshot
      <3>2. damaged'.event = damaged.event \/ damaged' = damaged
        BY <3>1
      <3>3. QED
        BY <2>3, <3>2 DEF CreateSnapshot
    <2>4. CASE Damage
      <3>1. CASE \E e \in events : damaged' = [damaged EXCEPT !.event = @ \cup {e.id}]
        <4>1. PICK e \in events : damaged' = [damaged EXCEPT !.event = @ \cup {e.id}]
          BY <3>1
        <4>2. damaged' = damaged \/ damaged'.event = damaged.event \cup {e.id}
          BY <4>1
        <4>3. QED
          BY <2>4, <4>2 DEF Damage
      <3>2. CASE \E s \in snapshots : damaged' = [damaged EXCEPT !.snapshot = @ \cup {s.revision}]
        <4>1. damaged' = damaged \/ damaged'.event = damaged.event
          BY <3>2
        <4>2. QED
          BY <2>4, <4>1 DEF Damage
      <3>3. QED
        BY <2>4, <3>1, <3>2 DEF Damage
    <2>5. QED
      BY <2>1, <2>2, <2>3, <2>4
  <1>2. SUFFICES ASSUME ~overlapped
                 PROVE  /\ EventTypes' /\ Sequential'
                        /\ Sound(replayed.state, replayed.revision)'
                        /\ \A s \in snapshots' : Sound(s.state, s.revision)'
    BY <1>1 DEF EventInv
  <1>3. /\ EventTypes /\ Sequential
        /\ Sound(replayed.state, replayed.revision)
        /\ \A s \in snapshots : Sound(s.state, s.revision)
    BY <1>2 DEF EventInv
  <1>4. /\ Sequential'
        /\ \A ids, rev : Sound(ids, rev) => Sound(ids, rev)'
    BY <1>1, <1>3, FewerFiles
  <1>5. PICK made : made = [state |-> replayed.state, revision |-> replayed.revision]
    OBVIOUS
  <1>6. snapshots' \subseteq snapshots \cup {made}
    BY <1>5 DEF List, CreateSnapshot, Damage, eventVars
  <1>7. EventTypes'
    <2>1. made \in [state : Seq(EventId), revision : Nat]
      BY <1>3, <1>5 DEF EventTypes
    <2>2. snapshots' \subseteq [state : Seq(EventId), revision : Nat]
      BY <1>3, <1>6, <2>1 DEF EventTypes
    <2>3. next' \in [Writer -> Nat]
      <3>1. ASSUME NEW w \in Writer, List(w) PROVE next' \in [Writer -> Nat]
        BY <1>3, <3>1, LastIs DEF List, EventTypes
      <3>2. QED
        BY <1>3, <3>1 DEF EventTypes, CreateSnapshot, Damage, eventVars
    <2>4. damaged' \in [event : SUBSET EventId, snapshot : SUBSET Nat]
      <3>1. /\ damaged \in [event : SUBSET EventId, snapshot : SUBSET Nat]
            /\ \A e \in events : e.id \in EventId
            /\ \A s \in snapshots : s.revision \in Nat
        BY <1>3 DEF EventTypes, EventFile
      <3>2. CASE CreateSnapshot
        BY <3>1, <3>2 DEF CreateSnapshot
      <3>3. CASE Damage
        BY <3>1, <3>3 DEF Damage
      <3>4. QED
        BY <3>1, <3>2, <3>3 DEF List, eventVars
    <2>5. QED
      BY <1>1, <1>3, <2>2, <2>3, <2>4 DEF EventTypes
  <1>8. Sound(made.state, made.revision)
    BY <1>3, <1>5
  <1>9. \A s \in snapshots' : Sound(s.state, s.revision)'
    <2>1. TAKE s \in snapshots'
    <2>2. Sound(s.state, s.revision)
      BY <1>3, <1>6, <1>8
    <2>3. QED
      BY <1>4, <2>2, Zenon
  <1>10. Sound(replayed.state, replayed.revision)'
    <2>1. PICK ids : ids = replayed.state
      OBVIOUS
    <2>2. PICK rev : rev = replayed.revision
      OBVIOUS
    <2>3. Sound(ids, rev)'
      BY <1>3, <1>4, <2>1, <2>2, Zenon
    <2>4. QED
      BY <1>1, <2>1, <2>2, <2>3
  <1>11. QED
    BY <1>4, <1>7, <1>9, <1>10

(* For any number of appends, snapshots and damaged files, in any order: what*)
(* a snapshot holds is sound, as is what the last replay returned            *)
(* (event-store.js:49, 101).                                                 *)
THEOREM EventInvariance == EventSpec => []EventInv
  <1>1. EventInv /\ [EventNext]_eventVars => EventInv'
    BY PutKeeps, ReplayKeeps, FilesStay DEF EventNext
  <1>2. QED
    BY <1>1, EventStarts, PTL DEF EventSpec

(* For any number of appends, snapshots and damaged files, unless two appends*)
(* overlapped: replay applies events in the order of their appends, each     *)
(* once, and all of them when none is damaged (event-store.js:199).          *)
THEOREM ReplayRestored == EventSpec => []ReplayRestores
  <1>1. ASSUME EventInv PROVE ReplayRestores
    <2>1. CASE overlapped
      BY <2>1 DEF ReplayRestores, ReplayIsComplete, ReplayAppliesOnce
    <2>2. CASE ~overlapped
      <3>1. EventTypes /\ Sequential
        BY <1>1, <2>2 DEF EventInv
      <3>2. PICK N \in Nat : N = Cardinality(events)
        BY <3>1, ListedIs
      <3>3. PICK r : r = ReplayResult
        OBVIOUS
      <3>4. /\ r \in [state : Seq(EventId), revision : Nat, bad : SUBSET events]
            /\ Sound(r.state, r.revision)
            /\ r.bad = {} => \A i \in 1 .. N : Listed[i].revision <= r.revision
            /\ r.bad = {} \/ (damaged.event # {} /\ \E e \in events : r.bad = {e})
        BY <1>1, <2>2, <3>2, <3>3, ReplayIs DEF Replays
      <3>5. ReplayAppliesOnce
        BY <3>3, <3>4 DEF Sound, InOrder, AckedBefore, ReplayAppliesOnce
      <3>6. ASSUME damaged.event = {} PROVE r.state = acked
        <4>1. PICK n \in Nat : n = Len(acked)
          BY <3>1 DEF EventTypes
        <4>2. \A e \in events : e.revision <= r.revision
          <5>1. \A e \in events : \E i \in 1 .. N : Listed[i] = e
            BY <3>1, <3>2, ListedIs
          <5>2. QED
            BY <3>4, <3>6, <5>1
        <4>3. r.revision \in Nat /\ r.revision <= n /\ r.state = SubSeq(acked, 1, r.revision)
          BY <3>4, <3>6, <4>1 DEF Sound
        <4>4. n # 0 => n <= r.revision
          <5>1. HAVE n # 0
          <5>2. n \in DOMAIN acked
            BY <3>1, <4>1, <5>1 DEF EventTypes
          <5>3. [revision |-> n, id |-> acked[n]] \in events
            BY <3>1, <3>6, <5>2, Zenon DEF Sequential
          <5>4. QED
            BY <4>2, <5>3
        <4>5. r.revision = n
          BY <4>3, <4>4
        <4>6. PICK s : s = SubSeq(acked, 1, n)
          OBVIOUS
        <4>7. \A k \in 1 .. n : acked[k] \in EventId /\ 1 + k - 1 = k
          BY <3>1, <4>1 DEF EventTypes
        <4>8. acked \in Seq(EventId)
          BY <3>1 DEF EventTypes
        <4>9. s \in Seq(EventId) /\ Len(s) = n /\ \A k \in 1 .. n : s[k] = acked[k]
          BY <4>1, <4>6, <4>7, <4>8, SubSeqProperties
        <4>10. s = acked
          BY <4>1, <4>8, <4>9, SeqEqual
        <4>11. QED
          BY <4>3, <4>5, <4>6, <4>10
      <3>7. QED
        BY <3>3, <3>5, <3>6 DEF ReplayRestores, ReplayIsComplete
    <2>3. QED
      BY <2>1, <2>2
  <1>2. QED
    BY <1>1, EventInvariance, PTL
=============================================================================
