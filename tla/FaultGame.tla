------------------------------ MODULE FaultGame ------------------------------
(***************************************************************************)
(* What is left of the promise of Game when callbacks raise.  Arming,      *)
(* starting, moving on and sensing stay what they are, or do less; an      *)
(* off() or a stop() that is cut off has announced the state, and what it  *)
(* has not done of the rest stays undone until the next one that is        *)
(* completed.  Until then a quest that says it is STOPped may still be     *)
(* moved on, and is the only one that may.  QuestFaults is shown to        *)
(* implement this specification.                                           *)
(***************************************************************************)
EXTENDS Game

VARIABLE cut  \* an off() or a stop() has been cut off, none completed since

faultGame == <<game, cut>>

StoppedTo(k) == [p \in 1..N |-> IF p <= k THEN StopPuzzle(puzzle[p]) ELSE puzzle[p]]
ArmedTo(k)   == [p \in 1..N |-> IF p <= k THEN ArmPuzzle(puzzle[p])  ELSE puzzle[p]]

-----------------------------------------------------------------------------
\* What has been completed has been completed for every puzzle.
Completed == (SwitchOff \/ StopAll) /\ cut' = FALSE

\* A next() that is cut off before the next puzzle begins is a Sense.
Played == (ArmAll \/ Start \/ GoOn \/ Sense \/ Unload) /\ UNCHANGED cut

\* off() is cut off: nothing is in play, and the power is cut when all is stopped.
PartOff ==
  /\ mode' = "OFF" /\ at' = END
  /\ \/ \E k \in Present : puzzle' = StoppedTo(k) /\ UNCHANGED power
     \/ loaded /\ puzzle' = StoppedTo(N) /\ power' = FALSE
  /\ cut' = TRUE
  /\ UNCHANGED loaded

\* stop() is cut off: the power is on, the players are still where they were.
PartStop ==
  /\ loaded
  /\ mode' = "STOP" /\ power' = TRUE
  /\ puzzle' = puzzle \/ \E k \in Present : puzzle' = StoppedTo(k)
  /\ cut' = TRUE
  /\ UNCHANGED <<at, loaded>>

\* arm() is cut off: the rest of the puzzles is as it was.
PartArm ==
  /\ mode' = "ARM"
  /\ \E k \in Present : puzzle' = ArmedTo(k)
  /\ UNCHANGED <<at, power, loaded, cut>>

\* What next() and the sensors do to a quest whose stop() has been cut off.
Straggle ==
  /\ cut /\ mode = "STOP" /\ at # END
  /\ MoveOn \/ SolveHere
  /\ UNCHANGED cut

-----------------------------------------------------------------------------
FaultInit == Init /\ cut = FALSE

FaultNext == Completed \/ Played \/ PartOff \/ PartStop \/ PartArm \/ Straggle

FaultSpec == FaultInit /\ [][FaultNext]_faultGame
=============================================================================
