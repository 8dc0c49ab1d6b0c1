----------------------------- MODULE PuzzleBase -----------------------------
(***************************************************************************)
(* class PuzzleBase of questomatic/main.cpp: one puzzle of a quest.  The   *)
(* quest engine reads and writes two of its flags, _solved and _running.   *)
(* _test only carries the result of onTest() from one statement of loop()  *)
(* to the next, so it is the parameter of LoopPuzzle here, and _durationMs *)
(* never changes after the script has set it, so it is a constant of the   *)
(* engine.                                                                 *)
(***************************************************************************)

PuzzleFlags == [solved : BOOLEAN, running : BOOLEAN]

\* What stop() leaves behind, and what every puzzle is after addPuzzle().
StoppedPuzzle == [solved |-> TRUE, running |-> FALSE]

(***************************************************************************)
(* The four operations.  solve() does nothing to a puzzle that is solved   *)
(* already: it does not even clear _running.  run() does not clear _solved.*)
(***************************************************************************)
SolveKeepsRunning(z) == [z EXCEPT !.solved = TRUE]

SolvePuzzle(z) == IF z.solved THEN z ELSE StoppedPuzzle

StopKeepsRunning(z) == [z EXCEPT !.solved = TRUE]

StopPuzzle(z) == StoppedPuzzle

RunForgetsSolved(z) == [solved |-> FALSE, running |-> TRUE]

RunPuzzle(z) == [z EXCEPT !.running = TRUE]

ArmPuzzle(z) == [solved |-> FALSE, running |-> FALSE]

\* loop(true) of a puzzle whose onTest() returned `test'.
LoopPuzzle(z, test) == IF test THEN SolvePuzzle(z) ELSE z
=============================================================================
