----------------------------- MODULE MCScenario -----------------------------
(***************************************************************************)
(* The script body of examples/scenario.py, one puzzle of each kind in the *)
(* order of the script.                                                    *)
(***************************************************************************)
EXTENDS Scenario

ScriptBody == <<"intro", "box", "desk", "wait", "door", "shelf", "bust", "aqua", "exit">>
MCKind == [p \in 1..N |-> ScriptBody[p]]
=============================================================================
