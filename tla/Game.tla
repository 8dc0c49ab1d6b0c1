-------------------------------- MODULE Game --------------------------------
(***************************************************************************)
(* What the engine of questomatic/main.cpp promises to the people in and   *)
(* around the room: a quest to which seven things can happen, each at one  *)
(* moment and to the puzzle that is current at that moment.  There are no  *)
(* threads, no lock, no timer and no keys here; who asks for a step, and   *)
(* how long ago, is left open.  Quest is shown to implement this           *)
(* specification, and Scenario builds the room on it.                      *)
(***************************************************************************)
EXTENDS PuzzleBase, Naturals

CONSTANT N  \* number of puzzles

ASSUME GameAssumption == N \in Nat

VARIABLES
  mode,    \* "OFF", "STOP", "ARM" or "RUN"
  at,      \* the puzzle the players are at, or END
  puzzle,  \* the flags of each puzzle
  power,   \* the quest has power
  loaded   \* its puzzles have not been removed

game == <<mode, at, puzzle, power, loaded>>

END == N + 1
Present == IF loaded THEN 1..N ELSE {}
InPlay == mode \in {"ARM", "RUN"} /\ at # END

-----------------------------------------------------------------------------
\* off(): nothing is in play and the power is cut.
SwitchOff ==
  /\ mode' = "OFF" /\ at' = END
  /\ puzzle' = [p \in 1..N |-> IF p \in Present THEN StopPuzzle(puzzle[p]) ELSE puzzle[p]]
  /\ power' = (power /\ ~loaded)
  /\ UNCHANGED loaded

\* stop(): nothing is in play, every compartment is released.
StopAll ==
  /\ mode' = "STOP" /\ at' = END
  /\ puzzle' = [p \in 1..N |-> IF p \in Present THEN StopPuzzle(puzzle[p]) ELSE puzzle[p]]
  /\ power' = (power \/ loaded)
  /\ UNCHANGED loaded

\* arm(): every puzzle is to be solved again; the players stay where they are.
ArmAll ==
  /\ mode' = "ARM"
  /\ puzzle' = [p \in 1..N |-> IF p \in Present THEN ArmPuzzle(puzzle[p]) ELSE puzzle[p]]
  /\ UNCHANGED <<at, power, loaded>>

\* run(): the players are at the first puzzle.
Start ==
  /\ mode' = "RUN"
  /\ at' = IF 1 \in Present THEN 1 ELSE END
  /\ puzzle' = [p \in 1..N |-> IF p = at' THEN RunPuzzle(puzzle[p]) ELSE puzzle[p]]
  /\ UNCHANGED <<power, loaded>>

\* The current puzzle is solved, the one after it begins.
MoveOn ==
  /\ at' = at + 1
  /\ puzzle' = [p \in 1..N |-> CASE p = at  -> SolvePuzzle(puzzle[p])
                                 [] p = at' -> RunPuzzle(puzzle[p])
                                 [] OTHER   -> puzzle[p]]
  /\ UNCHANGED <<mode, power, loaded>>

\* next(): not in a quest that is OFF or STOPped, whoever has asked for it, and when.
GoOn == InPlay /\ MoveOn

\* The current puzzle becomes solved.
SolveHere ==
  /\ ~puzzle[at].solved
  /\ puzzle' = [puzzle EXCEPT ![at] = SolvePuzzle(@)]
  /\ UNCHANGED <<mode, at, power, loaded>>

\* loop(true) of a puzzle whose test succeeds: the players have solved it.
Sense == InPlay /\ SolveHere

\* stopQuest(): the puzzles are removed.
Unload ==
  /\ loaded' = FALSE /\ at' = END
  /\ UNCHANGED <<mode, puzzle, power>>

\* A quest that has just been loaded.
Init ==
  /\ mode = "OFF" /\ at = END
  /\ puzzle = [p \in 1..N |-> StoppedPuzzle]
  /\ power = FALSE /\ loaded = TRUE

Next == SwitchOff \/ StopAll \/ ArmAll \/ Start \/ GoOn \/ Sense \/ Unload

Spec == Init /\ [][Next]_game
=============================================================================
