------------------------------ MODULE MCFaults ------------------------------
(***************************************************************************)
(* An instance of QuestFaults for TLC: every puzzle lasts one tick.        *)
(***************************************************************************)
EXTENDS QuestFaults

MCDuration == [p \in 1..N |-> 1]
=============================================================================
