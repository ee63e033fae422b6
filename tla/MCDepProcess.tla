---------------------------- MODULE MCDepProcess ----------------------------
(***************************************************************************)
(* Small instances of DepProcess: two ids, so that the map is shared, and  *)
(* three Runs, so that one id is run again after its child ended.          *)
(***************************************************************************)
EXTENDS DepProcessProofs, TLC

\* Instances and ids are interchangeable: no definition singles one out.
Symmetry == Permutations(Ids) \cup Permutations(Instances)
=============================================================================
