------------------------------ MODULE MCSession ------------------------------
(***************************************************************************)
(* Instances of Session for TLC.                                           *)
(***************************************************************************)
EXTENDS Session, TLC

Symmetry == Permutations(Scripts) \cup Permutations(Clients)
=============================================================================
