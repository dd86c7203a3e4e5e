---------------------------- MODULE PluginBundle ----------------------------
(* The classes of .agents/transaction-core/plugin-supply-chain-bundle.js:    *)
(* script grants, the swap of a plugin's directory and the check of an       *)
(* archive's entries. They share no state; plugins.js calls none of the      *)
(* three but isModifiedLocally, which is in Plugins.                         *)
EXTENDS Integers, Sequences, FiniteSets, SequencesExt

CONSTANTS Manager,      \* ScriptGrantManager objects of one grants file
          MaxContent    \* the contents a script takes

ASSUME BundleAssumption == MaxContent \in Nat

VARIABLES grants,       \* the grants a manager has in memory, by key
          grantsFile,   \* the grants file
          script,       \* the content of the script
          refused,      \* history: managers that found the script altered
          original,                 \* history: the tree that was installed
          target, backup, staged,   \* the directories of an update, NoTree for none
          updateStep,   \* where applyUpdate is
          entry         \* an entry of an archive: the segments of its path,
                        \* and of the link it is

grantVars == <<grants, grantsFile, script, refused>>
updateVars == <<original, target, backup, staged, updateStep>>
bundleVars == <<grantVars, updateVars, entry>>

-----------------------------------------------------------------------------
(* ScriptGrantManager: a grant is kept under the script's path and, given a  *)
(* plugin, under the plugin's name; it holds the hash of the content.        *)

Key == {"path", "plugin"}
NoGrants == [k \in Key |-> {}]
KeysOf(withPlugin) == IF withPlugin THEN Key ELSE {"path"}

GrantInit ==
    /\ grants = [m \in Manager |-> NoGrants]
    /\ grantsFile = NoGrants
    /\ script = 1
    /\ refused = {}

Save(m, g) == grants' = [grants EXCEPT ![m] = g] /\ grantsFile' = g

Load(m) ==
    /\ grants' = [grants EXCEPT ![m] = grantsFile]
    /\ refused' = refused \ {m}
    /\ UNCHANGED <<grantsFile, script>>

Grant(m, withPlugin) ==
    /\ Save(m, [k \in Key |-> IF k \in KeysOf(withPlugin) THEN {script} ELSE grants[m][k]])
    /\ refused' = refused \ {m}
    /\ UNCHANGED script

(* The record under the plugin's name goes before the one under the path.    *)
GrantRecord(m, withPlugin) ==
    IF withPlugin /\ grants[m]["plugin"] # {} THEN grants[m]["plugin"] ELSE grants[m]["path"]
Authorized(m, withPlugin) == GrantRecord(m, withPlugin) = {script}

(* checkAuthorization drops the records it could have used.                  *)
Revoked(withPlugin) == KeysOf(withPlugin)

CheckFails(m, withPlugin) ==
    /\ GrantRecord(m, withPlugin) \notin {{}, {script}}
    /\ Save(m, [k \in Key |-> IF k \in Revoked(withPlugin) THEN {} ELSE grants[m][k]])
    /\ refused' = IF withPlugin THEN refused \cup {m} ELSE refused
    /\ UNCHANGED script

Alter == /\ script' \in (1 .. MaxContent) \ {script}
         /\ UNCHANGED <<grants, grantsFile, refused>>

GrantNext ==
    \/ \E m \in Manager, withPlugin \in BOOLEAN : Grant(m, withPlugin) \/ CheckFails(m, withPlugin)
    \/ \E m \in Manager : Load(m)
    \/ Alter

-----------------------------------------------------------------------------
(* applyUpdate(): the directory is moved aside, the staged one is moved in,  *)
(* the old one is deleted; a failure moves it back. Each is a call that may  *)
(* fail or be the last one of a process that dies.                           *)

NoTree == "none"
UpdateInit ==
    /\ target \in {NoTree, "old", "edited"}
    /\ original = target
    /\ backup = NoTree /\ staged = "new"
    /\ updateStep = "begin"

(* The digest of the old tree is compared unless the update is forced.       *)
Begin(force) ==
    /\ updateStep = "begin"
    /\ updateStep' = IF target = "edited" /\ ~force THEN "refused" ELSE "aside"
    /\ UNCHANGED <<original, target, backup, staged>>

MoveAside ==
    /\ updateStep = "aside"
    /\ \/ target # NoTree /\ backup' = target /\ target' = NoTree /\ updateStep' = "in"
       \/ target = NoTree /\ updateStep' = "in" /\ UNCHANGED <<target, backup>>
       \/ target # NoTree /\ updateStep' = "failed" /\ UNCHANGED <<target, backup>>
    /\ UNCHANGED <<original, staged>>

MoveIn ==
    /\ updateStep = "in"
    /\ \/ target' = staged /\ staged' = NoTree /\ updateStep' = "delete"
       \/ updateStep' = "restore" /\ UNCHANGED <<target, staged>>
    /\ UNCHANGED <<original, backup>>

(* Also when the digest of the new tree cannot be computed, or the old tree  *)
(* not deleted: then the update throws although the new tree is in place.    *)
DeleteBackup ==
    /\ updateStep = "delete"
    /\ \/ backup' = NoTree /\ updateStep' = "done"
       \/ updateStep' = "failed" /\ UNCHANGED backup
    /\ UNCHANGED <<original, target, staged>>

(* The catch block; a failure of its rename is swallowed.                    *)
Restore ==
    /\ updateStep = "restore"
    /\ \/ backup # NoTree /\ target' = backup /\ backup' = NoTree
       \/ UNCHANGED <<target, backup>>
    /\ updateStep' = "failed"
    /\ UNCHANGED <<original, staged>>

UpdateNext ==
    \/ \E force \in BOOLEAN : Begin(force)
    \/ MoveAside \/ MoveIn \/ DeleteBackup \/ Restore

-----------------------------------------------------------------------------
(* validateArchiveEntry(): a path is a sequence of segments, an absolute one *)
(* begins with an empty segment; "a" is any ordinary name.                   *)

Segment == {"a", ".", ".."}
EntryPaths(n) == UNION {[1 .. k -> Segment] : k \in 0 .. n}

EntryInit == entry \in [path : EntryPaths(3) \ {<<>>}, absolute : BOOLEAN,
                        link : EntryPaths(3), linkAbsolute : BOOLEAN]

(* posix.normalize: a segment at a time, ".." takes one away if there is one.*)
AddSegment(path, s) ==
    IF s = "." THEN path
    ELSE IF s = ".." /\ path # <<>> /\ Last(path) # ".." THEN Front(path)
    ELSE Append(path, s)
NormalPath(path) ==
    LET normal[k \in 0 .. Len(path)] ==
            IF k = 0 THEN <<>> ELSE AddSegment(normal[k - 1], path[k])
    IN normal[Len(path)]

(* Mutant: the link is joined to the entry and not to its directory.         *)
LinkTargetOfEntry(e) == NormalPath(e.path \o e.link)
LinkTarget(e) == NormalPath(Front(e.path) \o e.link)

ValidEntry(e) ==
    /\ ~e.absolute /\ ".." \notin ToSet(e.path)
    /\ e.link # <<>> => ~e.linkAbsolute /\ (LinkTarget(e) # <<>> => Head(LinkTarget(e)) # "..")

BundleInit == GrantInit /\ UpdateInit /\ EntryInit
BundleNext == \/ GrantNext /\ UNCHANGED <<updateVars, entry>>
              \/ UpdateNext /\ UNCHANGED <<grantVars, entry>>
BundleSpec == BundleInit /\ [][BundleNext]_bundleVars

-----------------------------------------------------------------------------

(* A manager that refused a script of a plugin because it was altered does   *)
(* not authorize it again, whatever the script is changed back to and        *)
(* whatever key is asked for, until there is a new grant or it is re-loaded. *)
AlteredStaysRefused ==
    \A m \in refused : \A withPlugin \in BOOLEAN : ~Authorized(m, withPlugin)

(* At every point where the process may die or a call may fail, the tree     *)
(* that was installed is still on disk, in place or as the backup, or the    *)
(* new one is in place.                                                      *)
UpdateLosesNoTree ==
    original # NoTree => target = "new" \/ original \in {target, backup}

(* Whether a walk along the segments is ever above where it started: the     *)
(* reference for what a path leads to.                                       *)
Depth(path, k) == Cardinality({i \in 1 .. k : path[i] = "a"}) - Cardinality({i \in 1 .. k : path[i] = ".."})
Escapes(path) == \E k \in 1 .. Len(path) : Depth(path, k) < 0

(* What a valid entry names, and what a link in it resolves to, lies below   *)
(* the directory the archive is unpacked in; and nothing else is refused but *)
(* absolute paths and a ".." in the entry's own path.                        *)
ValidStaysInside ==
    ValidEntry(entry) <=>
        /\ ~entry.absolute /\ ".." \notin ToSet(entry.path) /\ ~Escapes(entry.path)
        /\ entry.link # <<>> => ~entry.linkAbsolute /\ ~Escapes(Front(entry.path) \o entry.link)

(* The three together.                                                       *)
BundleIsSound == AlteredStaysRefused /\ UpdateLosesNoTree /\ ValidStaysInside
=============================================================================
