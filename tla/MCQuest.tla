------------------------------- MODULE MCQuest -------------------------------
(***************************************************************************)
(* Instances of Quest for TLC.                                             *)
(***************************************************************************)
EXTENDS Quest

\* Unequal durations: the first puzzle times out at the first tick, the second
\* one tick later, and the total is reached with and without a skip.
MCDuration == [p \in 1..N |-> IF p = 1 THEN 1 ELSE 2]

\* Equal ones, so that the two puzzles together last two ticks: whoever skips a
\* puzzle after each tick never lets the time of a puzzle run out.
MCShort == [p \in 1..N |-> 1]
=============================================================================
