--------------------------- MODULE FaultRefinement ---------------------------
(***************************************************************************)
(* QuestFaults implements FaultGame: an exception out of any callback, on  *)
(* any thread and between any two steps of the others, costs no more than  *)
(* FaultGame admits.  What Quest does is what QuestRefinement says it is;  *)
(* that a quest which is moved on is in play, or one whose stop() has been *)
(* cut off, comes from OffHasNoCurrent and RestUnlessHalf.                 *)
(***************************************************************************)
EXTENDS FaultProofs, QuestRefinement

USE DEF END, Broken!END, Promise!END

\* FaultGame extends Game: the steps it takes over are the same.
LEMMA SameGame ==
  /\ UNCHANGED Promise!game => UNCHANGED Broken!game
  /\ Promise!SwitchOff => Broken!SwitchOff
  /\ Promise!StopAll => Broken!StopAll
  /\ Promise!ArmAll => Broken!ArmAll
  /\ Promise!Start => Broken!Start
  /\ Promise!Unload => Broken!Unload
  /\ Promise!MoveOn => Broken!MoveOn
  /\ Promise!SolveHere => Broken!SolveHere
<1> USE DEF Promise!Present, Broken!Present, Promise!StopPuzzle, Broken!StopPuzzle,
            Promise!ArmPuzzle, Broken!ArmPuzzle, Promise!RunPuzzle, Broken!RunPuzzle,
            Promise!SolvePuzzle, Broken!SolvePuzzle,
            Promise!StoppedPuzzle, Broken!StoppedPuzzle
<1>1. UNCHANGED Promise!game => UNCHANGED Broken!game
  BY DEF Promise!game, Broken!game
<1>2. Promise!SwitchOff => Broken!SwitchOff
  BY DEF Promise!SwitchOff, Broken!SwitchOff
<1>3. Promise!StopAll => Broken!StopAll
  BY DEF Promise!StopAll, Broken!StopAll
<1>4. Promise!ArmAll => Broken!ArmAll
  BY DEF Promise!ArmAll, Broken!ArmAll
<1>5. Promise!Start => Broken!Start
  BY DEF Promise!Start, Broken!Start
<1>6. Promise!Unload => Broken!Unload
  BY DEF Promise!Unload, Broken!Unload
<1>7. Promise!MoveOn => Broken!MoveOn
  BY DEF Promise!MoveOn, Broken!MoveOn
<1>8. Promise!SolveHere => Broken!SolveHere
  BY DEF Promise!SolveHere, Broken!SolveHere
<1> QED
  BY <1>1, <1>2, <1>3, <1>4, <1>5, <1>6, <1>7, <1>8

\* The puzzles an operation has reached are the same on both sides.
LEMMA SameParts ==
  /\ Puzzles = Broken!Present
  /\ \A k : StoppedUpTo(k) = Broken!StoppedTo(k) /\ ArmedUpTo(k) = Broken!ArmedTo(k)
  /\ loaded => AllStopped = Broken!StoppedTo(N)
<1> USE DEF StopPuzzle, Broken!StopPuzzle, StoppedPuzzle, Broken!StoppedPuzzle
<1>1. Puzzles = Broken!Present
  BY DEF Puzzles, Broken!Present
<1>2. \A k : StoppedUpTo(k) = Broken!StoppedTo(k)
  BY DEF StoppedUpTo, Broken!StoppedTo
<1>3. \A k : ArmedUpTo(k) = Broken!ArmedTo(k)
  BY DEF ArmedUpTo, Broken!ArmedTo, ArmPuzzle, Broken!ArmPuzzle
<1>4. loaded => AllStopped = Broken!StoppedTo(N)
  BY QuestAssumption DEF AllStopped, Broken!StoppedTo
<1> QED
  BY <1>1, <1>2, <1>3, <1>4

\* A quest that has a current puzzle is in play, or its stop() has been cut off.
LEMMA InPlayOrHalf ==
  ASSUME IInv, current # END
  PROVE  Broken!InPlay \/ (half /\ state = "STOP")
BY DEF IInv, TypeOK, States, OffHasNoCurrent, RestUnlessHalf, QuietPuzzles, Broken!InPlay

\* A quest that is moved on, or whose current puzzle becomes solved.
LEMMA PlayOrStraggle ==
  ASSUME IInv, current # END, Broken!MoveOn \/ Broken!SolveHere, UNCHANGED half
  PROVE  Broken!FaultNext
<1>1. CASE Broken!InPlay
  BY <1>1 DEF Broken!FaultNext, Broken!Played, Broken!GoOn, Broken!Sense
<1>2. CASE half /\ state = "STOP"
  BY <1>2 DEF Broken!FaultNext, Broken!Straggle
<1> QED
  BY <1>1, <1>2, InPlayOrHalf

\* off() and stop() return, or go on with stopQuest().
LEMMA StoppingMoves ==
  ASSUME TypeOK, NEW t \in Threads, Off(t) \/ Stop(t)
  PROVE  pc[t] \in Stopping /\ pc'[t] # pc[t]
<1>1. CASE Off(t)
  BY <1>1 DEF Off, Return, Goto, TypeOK, Stopping, ReturnPoints
<1>2. CASE Stop(t)
  BY <1>2 DEF Stop, Return, Goto, TypeOK, Stopping, ReturnPoints
<1> QED
  BY <1>1, <1>2

\* A step of Quest.
LEMMA DoneShows ==
  ASSUME IInv, Done
  PROVE  [Broken!FaultNext]_(Broken!faultGame)
<1> USE DEF Done, IInv
<1>1. CASE \E t \in Threads : Off(t) \/ Stop(t)
  <2>1. Broken!SwitchOff \/ Broken!StopAll
    BY <1>1, EveryPuzzle, SameGame DEF Off, Stop, PowerOff, PowerOn, session,
       Promise!SwitchOff, Promise!StopAll
  <2>2. ~half'
    BY <1>1, StoppingMoves
  <2>3. half' \in BOOLEAN
    OBVIOUS
  <2> QED
    BY <2>1, <2>2, <2>3 DEF Broken!FaultNext, Broken!Completed
<1>2. CASE ~\E t \in Threads : Off(t) \/ Stop(t)
  <2>1. UNCHANGED half
    BY <1>2, Completes
  <2>2. CASE Promise!ArmAll \/ Promise!Start \/ Promise!Unload
    BY <2>1, <2>2, SameGame DEF Broken!FaultNext, Broken!Played
  <2>3. CASE current # END /\ (Promise!MoveOn \/ Promise!SolveHere)
    BY <2>1, <2>3, SameGame, PlayOrStraggle
  <2>4. CASE UNCHANGED Promise!game
    BY <2>1, <2>4, SameGame DEF Broken!faultGame
  <2> QED
    BY <1>2, <2>2, <2>3, <2>4, StepShows
<1> QED
  BY <1>1, <1>2

-----------------------------------------------------------------------------
\* off(), cut off.
LEMMA HalfOffShows ==
  ASSUME HalfOff, UNCHANGED session, half' = TRUE
  PROVE  Broken!PartOff
<1>1. CASE \E k \in Puzzles : puzzle' = StoppedUpTo(k) /\ UNCHANGED power
  BY <1>1, SameParts DEF HalfOff, EndedFirst, session, Broken!PartOff
<1>2. CASE loaded /\ power /\ puzzle' = AllStopped /\ power' = PowerOff
  BY <1>2, SameParts DEF HalfOff, EndedFirst, session, PowerOff, Broken!PartOff
<1> QED
  BY <1>1, <1>2 DEF HalfOff

\* stop(), cut off.
LEMMA HalfStopShows ==
  ASSUME HalfStop, UNCHANGED session, half' = TRUE
  PROVE  Broken!PartStop
<1>1. power' = TRUE
  BY DEF HalfStop, PowerOn
<1>2. puzzle' = puzzle \/ \E k \in Broken!Present : puzzle' = Broken!StoppedTo(k)
  BY SameParts DEF HalfStop
<1> QED
  BY <1>1, <1>2 DEF HalfStop, session, Broken!PartStop

\* arm(), cut off.
LEMMA HalfArmShows ==
  ASSUME HalfArm, UNCHANGED session, UNCHANGED half
  PROVE  Broken!PartArm
BY SameParts DEF HalfArm, session, specials, Broken!PartArm

\* run() has started the first puzzle before anything can raise.
LEMMA HalfRunShows ==
  ASSUME HalfRun, UNCHANGED session
  PROVE  Broken!Start
<1>1. current' = IF 1 \in Broken!Present THEN 1 ELSE END
  BY QuestAssumption DEF HalfRun, Puzzles, Broken!Present
<1>2. puzzle' = [p \in 1..N |-> IF p = current' THEN Broken!RunPuzzle(puzzle[p])
                                                ELSE puzzle[p]]
  BY DEF HalfRun, Started, RunPuzzle, Broken!RunPuzzle
<1> QED
  BY <1>1, <1>2 DEF HalfRun, session, Broken!Start

\* next() has solved the current puzzle, and perhaps moved on, before it is cut off.
LEMMA HalfAdvanceShows ==
  ASSUME HalfAdvance, UNCHANGED session
  PROVE  current # END /\ (Broken!MoveOn \/ Broken!SolveHere)
<1> USE DEF HalfAdvance, MayAdvance, session, specials
<1>1. CASE /\ ~puzzle[current].solved
           /\ puzzle' = [puzzle EXCEPT ![current] = SolvePuzzle(@)]
           /\ UNCHANGED current
  BY <1>1 DEF SolvePuzzle, StoppedPuzzle, Broken!SolvePuzzle, Broken!StoppedPuzzle,
              Broken!SolveHere
<1>2. CASE puzzle' = SolveAndStartNext(current) /\ current' = current + 1
  <2>1. puzzle' = [p \in 1..N |-> CASE p = current -> Broken!SolvePuzzle(puzzle[p])
                                    [] p = current' -> Broken!RunPuzzle(puzzle[p])
                                    [] OTHER -> puzzle[p]]
    BY <1>2 DEF SolveAndStartNext, SolvePuzzle, StoppedPuzzle, RunPuzzle,
                Broken!SolvePuzzle, Broken!StoppedPuzzle, Broken!RunPuzzle
  <2> QED
    BY <1>2, <2>1 DEF Broken!MoveOn
<1> QED
  BY <1>1, <1>2

\* A poll that raises has solved the current puzzle, or done nothing that shows.
LEMMA HalfPollShows ==
  ASSUME HalfPoll(pc[Main]), UNCHANGED session
  PROVE  (current # END /\ Broken!SolveHere) \/ UNCHANGED Broken!game
<1>1. CASE UNCHANGED <<flags, power>>
  BY <1>1 DEF flags, session, Broken!game
<1>2. CASE /\ current # END /\ ~puzzle[current].solved
           /\ puzzle' = [puzzle EXCEPT ![current] = SolvePuzzle(@)]
           /\ UNCHANGED <<state, current, specials, elapsed>>
  BY <1>2 DEF SolvePuzzle, StoppedPuzzle, Broken!SolvePuzzle, Broken!StoppedPuzzle,
              specials, session, Broken!SolveHere
<1> QED
  BY <1>1, <1>2 DEF HalfPoll, specials

\* An exception, in whatever callback, is a step of FaultGame or does not show.
LEMMA RaiseShows ==
  ASSUME IInv, NEW t \in Threads, Raise(t)
  PROVE  [Broken!FaultNext]_(Broken!faultGame)
<1> USE DEF Raise, IInv
<1>1. CASE pc[t] \in Stopping
  <2>1. half' = TRUE
    BY <1>1
  <2>2. HalfOff \/ HalfStop
    BY <1>1 DEF Stopping, HalfPoll
  <2> QED
    BY <2>1, <2>2, HalfOffShows, HalfStopShows DEF Broken!FaultNext
<1>2. CASE pc[t] \notin Stopping
  <2>1. UNCHANGED half
    BY <1>2
  <2>2. HalfArm \/ HalfRun \/ HalfAdvance \/ HalfPoll(pc[Main])
    BY <1>2 DEF Stopping
  <2>3. CASE HalfArm \/ HalfRun
    BY <2>1, <2>3, HalfArmShows, HalfRunShows DEF Broken!FaultNext, Broken!Played
  <2>4. CASE HalfAdvance \/ HalfPoll(pc[Main])
    BY <2>1, <2>4, HalfAdvanceShows, HalfPollShows, PlayOrStraggle DEF Broken!faultGame
  <2> QED
    BY <2>2, <2>3, <2>4
<1> QED
  BY <1>1, <1>2

\* The promise that is left when callbacks raise is kept.
THEOREM BrokenRefinement == FaultSpec => ImplementsFaultGame
<1>1. FaultInit => Broken!FaultInit
  BY DEF FaultInit, Init, StoppedPuzzle, Broken!FaultInit, Broken!Init,
         Broken!StoppedPuzzle
<1>2. IInv /\ [FaultNext]_faultVars => [Broken!FaultNext]_(Broken!faultGame)
  <2> SUFFICES ASSUME IInv, [FaultNext]_faultVars
               PROVE  [Broken!FaultNext]_(Broken!faultGame)
    OBVIOUS
  <2>1. CASE UNCHANGED faultVars
    BY <2>1 DEF faultVars, vars, flags, specials, session, Broken!faultGame, Broken!game
  <2> QED
    BY <2>1, DoneShows, RaiseShows DEF FaultNext
<1> QED
  BY <1>1, <1>2, Invariance, PTL DEF FaultSpec, ImplementsFaultGame, Broken!FaultSpec
=============================================================================
