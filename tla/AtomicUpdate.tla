---------------------------- MODULE AtomicUpdate ----------------------------
(***************************************************************************)
(* What the header of .agents/filesystem/journaled-transaction.js promises *)
(* of a transaction over several files ("atomicity or complete rollback"), *)
(* without its journal, backups and steps: the declared outcome is true of *)
(* the files.  The promise is void once a user edits the files during the  *)
(* apply or an operator runs `ctx.js recover`.                             *)
(***************************************************************************)
EXTENDS Naturals, Sequences

CONSTANTS
  Files,
  Values,   \* what a path can hold: a content, or nothing
  Ops       \* what can be staged: records with a file and its new content

VARIABLES
  files,    \* [Files -> Values]
  plan,     \* Seq(Ops)
  outcome   \* "open" | "committed" | "aborted" | "void"

vars == <<files, plan, outcome>>

On(p, f) == {i \in DOMAIN p : p[i].file = f}

\* `new` is `old` with the plan carried out: a file is what the last operation
\* on it says, and a file without operations is left alone.
Achieves(new, old, p) ==
  \A f \in Files : \/ On(p, f) = {} /\ new[f] = old[f]
                   \/ \E i \in On(p, f) : /\ \A j \in On(p, f) : j <= i
                                          /\ new[f] = p[i].content

Init == /\ files \in [Files -> Values]
        /\ plan = <<>>
        /\ outcome = "open"

Stage == /\ outcome = "open"
         /\ \E op \in Ops : plan' = Append(plan, op)
         /\ UNCHANGED <<files, outcome>>

Edit == /\ outcome = "open"
        /\ \E f \in Files, v \in Values : files' = [files EXCEPT ![f] = v]
        /\ UNCHANGED <<plan, outcome>>

Commit == /\ outcome = "open"
          /\ outcome' = "committed"
          /\ files' \in [Files -> Values]
          /\ Achieves(files', files, plan)
          /\ UNCHANGED plan

Abort == /\ outcome = "open"
         /\ outcome' = "aborted"
         /\ UNCHANGED <<files, plan>>

\* From here on nothing is promised.
Disturb == outcome' = "void"

Next == Stage \/ Edit \/ Commit \/ Abort \/ Disturb

Spec == Init /\ [][Next]_vars
=============================================================================
