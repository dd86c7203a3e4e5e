------------------------ MODULE MCJournaledTransaction ------------------------
(***************************************************************************)
(* Instances of JournaledTransaction for TLC.                              *)
(***************************************************************************)
EXTENDS JournaledTransaction, TLC

ContentSymmetry == Permutations(Contents)

=============================================================================
