------------------------------ MODULE MCForecast ------------------------------
(***************************************************************************)
(* Instances of Forecast for TLC: a work of one or two chapters of a scene *)
(* each is imported; three calls of the importer and the updater meet each *)
(* other, and any one of them meets a forecast and a search.               *)
(***************************************************************************)
EXTENDS Forecast, TLC, FiniteSets

CONSTANTS short, long, empty, forecast, search, e1, e2, e3

Count == [t \in Texts \cup {NoText} |->
            CASE t = long -> 2 [] t = short -> 1 [] OTHER -> 0]
Work(a, b) == 1 :> a @@ 2 :> b
BothShort == {Work(short, short)}
TwoWorks == {Work(short, short), Work(short, NoText)}
Boundaries == {[by |-> "chapter", n |-> 1], [by |-> "latest", n |-> 0]}
EditorSymmetry == Permutations(Editors)

\* The bound of this instance: next to a request there is one edit at most.
OneEditNextToRequests ==
  \/ \A r \in Readers : reader[r].stage = "new"
  \/ Cardinality({e \in Editors : editor[e].pc # "new"}) <= 1

MCSpec == Init /\ [][Next /\ OneEditNextToRequests']_vars
===============================================================================
