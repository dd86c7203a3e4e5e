------------------------------ MODULE Plugins ------------------------------
(* Third-party skills: `skill add` and `skill remove` of .agents/plugins.js. *)
(* The commands run in processes of their own, read plugins.json and the     *)
(* plugin's directory before they take the project lock, and may die; users  *)
(* edit the installed files. A journaled transaction is one step here (see   *)
(* JournaledTransaction), the project lock is held by one process at a time  *)
(* and is reaped when that process ends (see ProjectLock). An npm reference  *)
(* never gets past the pinning check, so only the GitHub installer is here.  *)
EXTENDS Integers, FiniteSets

CONSTANTS Process,      \* the processes that run the command line
          Plugin,       \* the names of the skills
          Published,    \* what a GitHub repository contains, at one commit
          MaxCommands,  \* bound on the commands run
          MaxChanges      \* bound on the edits of the user

ASSUME PluginAssumption ==
    /\ Published \subseteq Nat \ {0}
    /\ MaxCommands \in Nat /\ MaxChanges \in Nat

VARIABLES dir,          \* the files of a plugin's directory, by their contents
          source,       \* the manifest in its .source file
          conflict,     \* whether CONFLICT_LOCAL_MODIFICATIONS.md is in it
          pluginsJson,  \* plugins.json: the entry of every plugin
          torn,         \* plugins.json does not parse
          pluginLock,   \* the processes that hold the project lock
          cmd,          \* what each process is doing
          ran, changes, \* counters of the bounds
          covered,      \* history: files edited while the tree digest was on record
          confused      \* history: commands overlapped, or one died while it
                        \* rewrote plugins.json in place

pluginVars == <<dir, source, conflict, pluginsJson, torn, pluginLock, cmd, ran,
                changes, covered, confused>>

File == {"SKILL.md", "EXAMPLES.md"}     \* skill.yaml goes with SKILL.md
Gone == 0
Edited(content) == content < 0          \* the k-th edit of the user is -k
NoSource == [f \in File |-> Gone]
Absent == [listed |-> FALSE, digest |-> {}]

(* calculateTreeDigest: everything in the directory, .source included.       *)
Tree(n) == [files |-> dir[n], source |-> source[n], conflict |-> conflict[n]]
DirExists(n) == \/ \E f \in File : dir[n][f] # Gone
                \/ source[n] # NoSource \/ conflict[n]

(* readLock(): a file that does not parse has no plugins.                    *)
ReadRegistry == IF torn THEN [n \in Plugin |-> Absent] ELSE pluginsJson

Resting == [kind |-> "none", name |-> {}, force |-> FALSE, read |-> [n \in Plugin |-> Absent]]
InFlight == {p \in Process : cmd[p] # Resting}
Starts(p, kind, n, force) ==
    [kind |-> kind, name |-> {n}, force |-> force, read |-> ReadRegistry]
End(p) == cmd' = [cmd EXCEPT ![p] = Resting] /\ pluginLock' = pluginLock \ {p}

(* isModifiedLocally of an entry that has a digest.                          *)
ModifiedLocally(n) == ReadRegistry[n].digest \notin {{}, {Tree(n)}}

OnRecord(n) == /\ ~torn /\ pluginsJson[n].listed /\ pluginsJson[n].digest # {}
               /\ source[n] # NoSource

PluginInit ==
    /\ dir = [n \in Plugin |-> NoSource]
    /\ source = [n \in Plugin |-> NoSource]
    /\ conflict = [n \in Plugin |-> FALSE]
    /\ pluginsJson = [n \in Plugin |-> Absent]
    /\ torn = FALSE /\ pluginLock = {}
    /\ cmd = [p \in Process |-> Resting]
    /\ ran = 0 /\ changes = 0
    /\ covered = {} /\ confused = FALSE

(* parseRef: a repository at a commit, at a branch or tag, or an npm package,*)
(* whose version and integrity are never filled in.                          *)
Reference == {"commit", "branch", "npm"}

(* validatePluginPinning: npm wants a version and an integrity.              *)
Pinned(ref, allowFloating) == ref = "commit" \/ (ref = "branch" /\ allowFloating)

(* add() up to the lock: an installed plugin with local changes is left      *)
(* alone, and a note is left beside them.                                    *)
AddChecks(p, n, force) ==
    /\ cmd[p] = Resting /\ ran < MaxCommands
    /\ \E ref \in Reference, allowFloating \in BOOLEAN : Pinned(ref, allowFloating)
    /\ ran' = ran + 1
    /\ IF DirExists(n) /\ ModifiedLocally(n) /\ ~force
       THEN /\ conflict' = [conflict EXCEPT ![n] = TRUE]
            /\ UNCHANGED <<cmd, confused>>
       ELSE /\ cmd' = [cmd EXCEPT ![p] = Starts(p, "add", n, force)]
            /\ confused' = (confused \/ InFlight # {})
            /\ UNCHANGED conflict
    /\ UNCHANGED <<dir, source, pluginsJson, torn, pluginLock, changes, covered>>

(* remove() up to the lock: neither an entry nor a directory ends it.        *)
RemoveChecks(p, n) ==
    /\ cmd[p] = Resting /\ ran < MaxCommands
    /\ ReadRegistry[n].listed \/ DirExists(n)
    /\ ran' = ran + 1
    /\ cmd' = [cmd EXCEPT ![p] = Starts(p, "remove", n, FALSE)]
    /\ confused' = (confused \/ InFlight # {})
    /\ UNCHANGED <<dir, source, conflict, pluginsJson, torn, pluginLock, changes, covered>>

(* The lock is taken at once or the command fails.                           *)
Locks(p) ==
    /\ cmd[p].kind \in {"add", "remove"} /\ p \notin pluginLock
    /\ IF pluginLock = {} THEN pluginLock' = {p} /\ UNCHANGED cmd ELSE End(p)
    /\ UNCHANGED <<dir, source, conflict, pluginsJson, torn, ran, changes, covered, confused>>

StillCovered == covered' = {x \in covered : OnRecord(x[1])'}

(* add() under the lock, after the fetches: the files of the release, the    *)
(* source marker and plugins.json as it was read, with the new entry, in one *)
(* transaction. The optional file is missing, unreadable or unsafe, or not.  *)
Installs(p) ==
    /\ cmd[p].kind = "add" /\ p \in pluginLock
    /\ \E n \in cmd[p].name, v \in Published, fetched \in {File, {"SKILL.md"}} :
          /\ dir' = [dir EXCEPT ![n] = [f \in File |-> IF f \in fetched THEN v ELSE dir[n][f]]]
          /\ source' = [source EXCEPT ![n] = [f \in File |-> IF f \in fetched THEN v ELSE Gone]]
          /\ pluginsJson' = [cmd[p].read EXCEPT ![n] = [listed |-> TRUE, digest |-> {}]]
          /\ torn' = FALSE
    /\ cmd' = [cmd EXCEPT ![p].kind = "digest"]
    /\ StillCovered
    /\ UNCHANGED <<conflict, pluginLock, ran, changes, confused>>

(* The digest of the tree as it is on disk by now goes into plugins.json, in *)
(* place and outside the transaction; then the lock is released.             *)
RecordsDigest(p) ==
    /\ cmd[p].kind = "digest"
    /\ \E n \in cmd[p].name :
          pluginsJson' = [cmd[p].read EXCEPT ![n] = [listed |-> TRUE, digest |-> {Tree(n)}]]
    /\ torn' = FALSE
    /\ End(p)
    /\ UNCHANGED <<dir, source, conflict, ran, changes, confused>>
    /\ StillCovered

(* Mutant: a file of the manifest is deleted whatever it holds.              *)
DeletesManaged(n, f) ==
    \/ source[n] # NoSource /\ source[n][f] # Gone
    \/ source[n] = NoSource /\ f = "SKILL.md"

(* stageRecursiveDeletes: by the manifest when there is one, otherwise by    *)
(* the file's name.                                                          *)
Deletes(n, f) ==
    \/ source[n] # NoSource /\ source[n][f] # Gone /\ dir[n][f] = source[n][f]
    \/ source[n] = NoSource /\ f = "SKILL.md"

(* Mutant: .source is kept with the files that are.                          *)
SourceKept(n) ==
    IF \E f \in File : dir[n][f] # Gone /\ ~Deletes(n, f) THEN source[n] ELSE NoSource

(* .source is deleted in any case.                                           *)
SourceLeft(n) == NoSource

(* remove() under the lock.                                                  *)
Cleans(p) ==
    /\ cmd[p].kind = "remove" /\ p \in pluginLock
    /\ \E n \in cmd[p].name :
          LET kept == [f \in File |-> IF Deletes(n, f) THEN Gone ELSE dir[n][f]]
          IN /\ dir' = [dir EXCEPT ![n] = kept]
             /\ source' = [source EXCEPT ![n] = SourceLeft(n)]
             /\ pluginsJson' = [cmd[p].read EXCEPT ![n] = Absent]
    /\ torn' = FALSE
    /\ End(p)
    /\ StillCovered
    /\ UNCHANGED <<conflict, ran, changes, confused>>

(* The fetch of SKILL.md fails, its checksum differs or the scan of the      *)
(* fetched files refuses them: the process exits.                            *)
InstallFails(p) ==
    /\ cmd[p].kind = "add" /\ p \in pluginLock
    /\ End(p)
    /\ UNCHANGED <<dir, source, conflict, pluginsJson, torn, ran, changes, covered, confused>>

(* A process dies; during its last write plugins.json may be cut short.      *)
CommandDies(p) ==
    /\ cmd[p] # Resting
    /\ End(p)
    /\ \/ UNCHANGED <<torn, confused>>
       \/ cmd[p].kind = "digest" /\ torn' = TRUE /\ confused' = TRUE
    /\ UNCHANGED <<dir, source, conflict, pluginsJson, ran, changes>>
    /\ StillCovered

UserEdits(n, f) ==
    /\ changes < MaxChanges /\ DirExists(n)
    /\ changes' = changes + 1
    /\ dir' = [dir EXCEPT ![n][f] = -changes']
    /\ covered' = IF InFlight = {} /\ OnRecord(n) THEN covered \cup {<<n, f>>} ELSE covered
    /\ UNCHANGED <<source, conflict, pluginsJson, torn, pluginLock, cmd, ran, confused>>

PluginNext ==
    \/ \E p \in Process, n \in Plugin :
          (\E force \in BOOLEAN : AddChecks(p, n, force)) \/ RemoveChecks(p, n)
    \/ \E p \in Process : \/ Locks(p) \/ Installs(p) \/ RecordsDigest(p) \/ Cleans(p)
                          \/ InstallFails(p) \/ CommandDies(p)
    \/ \E n \in Plugin, f \in File : UserEdits(n, f)

PluginSpec == PluginInit /\ [][PluginNext]_pluginVars

-----------------------------------------------------------------------------

(* An edit that was made while plugins.json held the digest of the tree, the *)
(* tree its source marker, and no command was running, survives every update *)
(* and every removal; only an add --force replaces it. It takes the digest   *)
(* of the last install to be recorded, compared as a whole and dropped with  *)
(* every change by others. (Where overlapping commands have put back the     *)
(* entry of a plugin that was removed, there is no marker, and the next      *)
(* removal deletes SKILL.md by its name, edited or not.)                     *)
UpdatesKeepEdits ==
    [][\A x \in covered : ~Edited(dir'[x[1]][x[2]]) =>
          \E p \in Process : cmd[p].kind = "add" /\ cmd[p].force /\ cmd'[p].kind = "digest"]_pluginVars

(* plugins.json lists exactly the plugins whose directory has a source       *)
(* marker, through failed fetches, deaths and edits: the two change together.*)
(* Overlapping commands, and a death during the rewrite in place, break it.  *)
ListedIffInstalled ==
    confused \/ \A n \in Plugin : pluginsJson[n].listed <=> source[n] # NoSource

=============================================================================
