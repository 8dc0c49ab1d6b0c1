--------------------------- MODULE QuestRefinement ---------------------------
(***************************************************************************)
(* Quest implements Game: for any number of puzzles and clients, what the  *)
(* threads do to a quest is a sequence of the atomic steps of Game.        *)
(* Six regions of code are one step each, from the definitions alone; two  *)
(* need an invariant.  An advance is a GoOn only because QuietPuzzles      *)
(* leaves nothing current in a stopped quest, and a poll is a Sense only   *)
(* because nothing but the current puzzle is solved by it.                 *)
(***************************************************************************)
EXTENDS QuestProofs

USE DEF END, Promise!END

\* What is not a critical region that writes the flags does not show in Game.
LEMMA GameFrame ==
  ASSUME [Next]_vars
  PROVE  \/ \E t \in Threads : Writes(t)
         \/ PollCurrent
         \/ UNCHANGED Promise!game
<1> USE DEF flags, specials, session, Promise!game
<1>1. CASE \E t \in Threads : Call(t)
  BY <1>1 DEF Call, Writes, ReadState
<1>2. CASE Loop
  BY <1>2, TickFrame DEF Loop, While, LoopsOn, EnterExpired, EnterEarly, PollNextKey, PollPowerKey, PowerRead, PollLightKey
<1>3. CASE \/ \E c \in Clients : SetState(c) \/ NextMethod(c) \/ SetScript(c)
           \/ SigStop
  BY <1>3 DEF SetState, NextMethod, SetScript, SigStop
<1>4. CASE UNCHANGED vars
  BY <1>4 DEF vars
<1> QED
  BY <1>1, <1>2, <1>3, <1>4 DEF Next, Dead

\* The two instances of PuzzleBase, Quest's own and Game's, are the same.
LEMMA SamePuzzles ==
  /\ StoppedPuzzle = Promise!StoppedPuzzle
  /\ \A z : /\ SolvePuzzle(z) = Promise!SolvePuzzle(z)
            /\ StopPuzzle(z) = Promise!StopPuzzle(z)
            /\ RunPuzzle(z) = Promise!RunPuzzle(z)
            /\ ArmPuzzle(z) = Promise!ArmPuzzle(z)
  BY DEF SolvePuzzle, StopPuzzle, RunPuzzle, ArmPuzzle, StoppedPuzzle,
         Promise!SolvePuzzle, Promise!StopPuzzle, Promise!RunPuzzle,
         Promise!ArmPuzzle, Promise!StoppedPuzzle

\* off(), stop() and arm() treat every puzzle of a loaded quest alike.
LEMMA EveryPuzzle ==
  ASSUME TypeOK
  PROVE  /\ AllStopped = [p \in 1..N |-> IF p \in Promise!Present
                            THEN Promise!StopPuzzle(puzzle[p]) ELSE puzzle[p]]
         /\ AllArmed = [p \in 1..N |-> IF p \in Promise!Present
                            THEN Promise!ArmPuzzle(puzzle[p]) ELSE puzzle[p]]
<1>1. CASE loaded
  BY <1>1, SamePuzzles DEF AllStopped, AllArmed, Promise!Present
<1>2. CASE ~loaded
  BY <1>2 DEF AllStopped, AllArmed, Promise!Present, TypeOK
<1> QED
  BY <1>1, <1>2

\* The part of next() under the lock moves on, or does nothing when it comes late.
LEMMA AdvanceMovesOn ==
  ASSUME TypeOK, NEW t \in Threads, Advance(t)
  PROVE  (current # END /\ Promise!MoveOn) \/ UNCHANGED Promise!game
<1>1. CASE current = END
  BY <1>1 DEF Advance, MayAdvance, specials, session, Promise!game
<1>2. CASE current # END
  <2>1. current' = current + 1 /\ puzzle' = SolveAndStartNext(current)
    BY <1>2 DEF Advance, MayAdvance
  <2>2. puzzle' = [p \in 1..N |-> CASE p = current -> Promise!SolvePuzzle(puzzle[p])
                                    [] p = current' -> Promise!RunPuzzle(puzzle[p])
                                    [] OTHER -> puzzle[p]]
    BY <2>1, SamePuzzles DEF SolveAndStartNext
  <2> QED
    BY <1>2, <2>1, <2>2 DEF Advance, MayAdvance, specials, session, Promise!MoveOn
<1> QED
  BY <1>1, <1>2

\* run() is a Start.
LEMMA RunIsStart ==
  ASSUME TypeOK, NEW t \in Threads, Run(t)
  PROVE  Promise!Start
<1>1. CASE loaded /\ N > 0
  <2>1. current' = 1 /\ puzzle' = [puzzle EXCEPT ![1] = RunPuzzle(@)]
    BY <1>1 DEF Run
  <2>2. puzzle' = [p \in 1..N |-> IF p = current' THEN Promise!RunPuzzle(puzzle[p])
                                                  ELSE puzzle[p]]
    BY <2>1, SamePuzzles DEF TypeOK
  <2>3. 1 \in Promise!Present
    BY <1>1, QuestAssumption DEF Promise!Present
  <2> QED
    BY <2>1, <2>2, <2>3 DEF Run, session, Promise!Start
<1>2. CASE ~(loaded /\ N > 0)
  <2>1. current' = END /\ puzzle' = puzzle
    BY <1>2 DEF Run
  <2>2. 1 \notin Promise!Present
    BY <1>2, QuestAssumption DEF Promise!Present
  <2>3. puzzle' = [p \in 1..N |-> IF p = current' THEN Promise!RunPuzzle(puzzle[p])
                                                  ELSE puzzle[p]]
    BY <2>1, QuestAssumption DEF TypeOK
  <2> QED
    BY <2>1, <2>2, <2>3 DEF Run, session, Promise!Start
<1> QED
  BY <1>1, <1>2

\* The poll of the current puzzle solves it when its test succeeds.
LEMMA PollSolves ==
  ASSUME TypeOK, PollCurrent
  PROVE  (current # END /\ Promise!SolveHere) \/ UNCHANGED Promise!game
<1> USE DEF PollCurrent, specials, session, Promise!game
<1>1. CASE current = END
  BY <1>1
<1>2. CASE current # END
  <2>1. PICK test \in BOOLEAN :
          puzzle' = [puzzle EXCEPT ![current] = LoopPuzzle(@, test)]
    BY <1>2
  <2>2. current \in 1..N
    BY <1>2, QuestAssumption DEF TypeOK
  <2>3. CASE test /\ ~puzzle[current].solved
    <3>1. puzzle' = [puzzle EXCEPT ![current] = Promise!SolvePuzzle(@)]
      BY <2>1, <2>3, SamePuzzles DEF LoopPuzzle
    <3> QED
      BY <1>2, <2>3, <3>1 DEF Promise!SolveHere
  <2>4. CASE ~(test /\ ~puzzle[current].solved)
    <3>1. LoopPuzzle(puzzle[current], test) = puzzle[current]
      BY <2>2, <2>4 DEF LoopPuzzle, SolvePuzzle
    <3>2. puzzle' = puzzle
      BY <2>1, <2>2, <3>1 DEF TypeOK
    <3> QED
      BY <3>2
  <2> QED
    BY <2>3, <2>4
<1> QED
  BY <1>1, <1>2

\* What a step of Quest is to Game, whatever has happened before; whether the
\* quest is in play when it is moved on is the question that is left open.
LEMMA StepShows ==
  ASSUME TypeOK, [Next]_vars
  PROVE  \/ \E t \in Threads : (Off(t) /\ Promise!SwitchOff) \/ (Stop(t) /\ Promise!StopAll)
         \/ Promise!ArmAll \/ Promise!Start \/ Promise!Unload
         \/ (current # END /\ (Promise!MoveOn \/ Promise!SolveHere))
         \/ UNCHANGED Promise!game
<1>1. ASSUME NEW t \in Threads, Off(t) PROVE Promise!SwitchOff
  BY <1>1, EveryPuzzle DEF Off, PowerOff, session, Promise!SwitchOff
<1>2. ASSUME NEW t \in Threads, Arm(t) PROVE Promise!ArmAll
  BY <1>2, EveryPuzzle DEF Arm, specials, session, Promise!ArmAll
<1>3. ASSUME NEW t \in Threads, Stop(t) PROVE Promise!StopAll
  BY <1>3, EveryPuzzle DEF Stop, PowerOn, session, Promise!StopAll
<1>4. ASSUME NEW t \in Threads, Clear(t) PROVE Promise!Unload
  BY <1>4 DEF Clear, specials, Promise!Unload
<1> QED
  BY <1>1, <1>2, <1>3, <1>4, RunIsStart, AdvanceMovesOn, PollSolves, GameFrame DEF Writes

\* Every step of Quest is a step of Game or does not show there.
LEMMA StepRefines ==
  ASSUME TypeOK, QuietPuzzles, [Next]_vars
  PROVE  [Promise!Next]_(Promise!game)
<1>1. current # END => Promise!InPlay
  BY DEF QuietPuzzles, TypeOK, States, Promise!InPlay
<1> QED
  BY <1>1, StepShows DEF Promise!Next, Promise!GoOn, Promise!Sense

\* The engine keeps its promise: a quest that threads share behaves as one whose
\* steps are atomic.
THEOREM Refinement == Spec => ImplementsGame
<1>1. Init => Promise!Init
  BY SamePuzzles DEF Init, Promise!Init
<1>2. TypeOK /\ QuietPuzzles /\ [Next]_vars => [Promise!Next]_(Promise!game)
  BY StepRefines
<1> QED
  BY <1>1, <1>2, TypeCorrect, QuietCorrect, PTL DEF Spec, ImplementsGame, Promise!Spec
=============================================================================
