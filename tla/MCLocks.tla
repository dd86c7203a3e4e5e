------------------------------ MODULE MCLocks ------------------------------
(* The two locks of ContextOS: the project lock with the commands and the    *)
(* daemon that meet at it, and the lease of the transaction core. They share *)
(* no file: one behaviour is about one of them, chosen in the initial state. *)
EXTENDS LockCallers, LeaseLock

CONSTANTS c1, c2, s1, s2

VARIABLE part

vars == <<part, callersVars, leaseVars>>

(* Two commands and the daemon, the pairs that meet: overrides  *)
(* of one scope or of two, a removal of the other's override or of the whole *)
(* profile, another profile for the project; two exports.                    *)
Work(k, s) == [kind |-> k, scope |-> s]
MCPlans ==
    {[c \in {c1, c2} |-> IF c = c1 THEN Work("override", s1) ELSE other] :
        other \in {Work("override", s2), Work("unset", s1), Work("clear", s1), Work("apply", s1)}}
    \cup {[c \in {c1, c2} |-> Work("export", s1)]}

Init ==
    /\ part \in {"project", "lease"}
    /\ IF part = "project" THEN CallersInit(MCPlans, {NoFile, Initially})
                           ELSE CallersInit({CHOOSE p \in Plans : TRUE}, {NoFile})
    /\ LeaseInit

Next ==
    /\ UNCHANGED part
    /\ \/ part = "project" /\ CallersNext /\ UNCHANGED leaseVars
       \/ part = "lease" /\ LeaseNext /\ UNCHANGED callersVars

(* In a behaviour about one lock no action the other's fairness is about is  *)
(* enabled.                                                                  *)
Spec == Init /\ [][Next]_vars /\ CallersFairness /\ LeaseFairness
=============================================================================
