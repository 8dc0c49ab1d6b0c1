----------------------------- MODULE QuestFaults -----------------------------
(***************************************************************************)
(* Quest with callbacks that raise: a pin that cannot be opened, an        *)
(* attribute a script has misspelt.  The exception leaves the operation of *)
(* QuestBase where it stands: what was done stays done, the rest is not.   *)
(* Every operation of PuzzleBase sets its flags before it calls back, so   *)
(* the puzzle whose callback raises counts as done.                        *)
(*                                                                         *)
(* On the thread of a client the RPC server (outside src/) answers with an *)
(* error and the quest goes on as it is.  On Main the exception ends       *)
(* loop() in the catch of loadQuest(), which calls stopQuest(); one that   *)
(* is raised by that call is not caught by anybody.  Session says who      *)
(* holds the GIL meanwhile.                                                *)
(***************************************************************************)
EXTENDS Quest

VARIABLES
  caught,  \* Main is in the catch of loadQuest()
  half     \* history: an off() or a stop() has been cut off, and none of
           \* either has been completed since

faultVars == <<vars, caught, half>>

Puzzles == IF loaded THEN 1..N ELSE {}

StoppedUpTo(k) == [p \in 1..N |-> IF p <= k THEN StopPuzzle(puzzle[p]) ELSE puzzle[p]]
ArmedUpTo(k)   == [p \in 1..N |-> IF p <= k THEN ArmPuzzle(puzzle[p])  ELSE puzzle[p]]

-----------------------------------------------------------------------------
(***************************************************************************)
(* The operations, cut off by a callback.                                  *)
(***************************************************************************)
EndedLast == current

EndedFirst == END

\* off() in onStop() of puzzle k, or in onSolve() of _offPuzzle.
HalfOff ==
  /\ state' = "OFF" /\ current' = EndedFirst
  /\ \/ \E k \in Puzzles : puzzle' = StoppedUpTo(k) /\ UNCHANGED power
     \/ loaded /\ power /\ puzzle' = AllStopped /\ power' = PowerOff
  /\ UNCHANGED <<light, elapsed>>

\* stop() in onArm() of _offPuzzle, of _serviceLighPuzzle, or in onStop() of
\* puzzle k; _currentPuzzle would have been set last.
HalfStop ==
  /\ loaded
  /\ state' = "STOP" /\ power' = PowerOn
  /\ \/ ~power /\ UNCHANGED <<light, puzzle>>
     \/ ~light /\ light' = LightOn /\ UNCHANGED puzzle
     \/ light' = LightOn /\ \E k \in Puzzles : puzzle' = StoppedUpTo(k)
  /\ elapsed' = PuzzleTimeReset
  /\ UNCHANGED current

\* arm() in onArm() of puzzle k.
HalfArm ==
  /\ state' = "ARM"
  /\ \E k \in Puzzles : puzzle' = ArmedUpTo(k)
  /\ UNCHANGED <<current, specials, elapsed>>

NotStarted(z) == z

Started(z) == RunPuzzle(z)

\* run() in onRun() of the first puzzle, or in onSolve() of _serviceLighPuzzle.
HalfRun ==
  /\ state' = "RUN" /\ current' = IF Puzzles = {} THEN END ELSE 1
  /\ puzzle' = [p \in 1..N |-> IF p = current' THEN Started(puzzle[p]) ELSE puzzle[p]]
  /\ \/ Puzzles # {} /\ UNCHANGED light
     \/ loaded /\ light /\ light' = LightOff
  /\ UNCHANGED <<power, elapsed>>

\* next() in onSolve() of the current puzzle, or in onRun() of the one after it.
HalfAdvance ==
  /\ MayAdvance
  /\ \/ /\ ~puzzle[current].solved
        /\ puzzle' = [puzzle EXCEPT ![current] = SolvePuzzle(@)]
        /\ UNCHANGED current
     \/ /\ current < N
        /\ puzzle' = SolveAndStartNext(current) /\ current' = current + 1
  /\ elapsed' = PuzzleTimeReset
  /\ UNCHANGED <<state, specials>>

\* loop() in onTest() of a key or of any puzzle, in the callback that switches
\* the service light, or in onSolve() of the current puzzle.
HalfPoll(l) ==
  \/ /\ \/ l = "nextKey" /\ loaded /\ state # "OFF"
        \/ l = "powerKey" /\ loaded
        \/ l = "lightKey" /\ loaded /\ state = "RUN"
        \/ l = "current" /\ Puzzles # {} /\ state # "OFF"
     /\ UNCHANGED <<flags, specials, elapsed>>
  \/ /\ l = "lightKey" /\ loaded /\ state = "RUN"
     /\ light' = ~light
     /\ UNCHANGED <<flags, power, elapsed>>
  \/ /\ l = "current" /\ current # END
     /\ ~puzzle[current].solved
     /\ puzzle' = [puzzle EXCEPT ![current] = SolvePuzzle(@)]
     /\ UNCHANGED <<state, current, specials, elapsed>>

CatchLeaves == "left"

CatchUnloads == "stopQuest"

\* The stack is unwound, and the lock given back with it.
Unwind(t) ==
  \/ t \in Clients /\ Goto(t, "idle") /\ UNCHANGED <<held, ret, caught>>
  \/ /\ t = Main
     /\ held' = FALSE /\ ret' = "left" /\ caught' = TRUE
     /\ Goto(Main, IF caught THEN "crashed" ELSE CatchUnloads)

-----------------------------------------------------------------------------
Stopping == {"off", "stopQuest", "stop"}

Raise(t) ==
  /\ Alive
  /\ \/ /\ pc[t] \in Calls /\ ~held
        /\ \/ pc[t] \in {"off", "stopQuest"} /\ HalfOff
           \/ pc[t] = "stop" /\ HalfStop
           \/ pc[t] = "arm" /\ HalfArm
           \/ pc[t] = "run" /\ HalfRun
           \/ pc[t] = "advance" /\ HalfAdvance
     \/ t = Main /\ HalfPoll(pc[Main])
  /\ half' = (half \/ pc[t] \in Stopping)
  /\ Unwind(t)
  /\ UNCHANGED <<session, local, keys>>

\* A step of Quest; a completed off() or stop() leaves nothing half done.
Done ==
  /\ Next
  /\ half' = (half /\ \A t \in Threads : pc[t] \in Stopping => pc'[t] = pc[t])
  /\ UNCHANGED caught

FaultInit == Init /\ caught = FALSE /\ half = FALSE

FaultNext == Done \/ \E t \in Threads : Raise(t)

FaultSpec == FaultInit /\ [][FaultNext]_faultVars

-----------------------------------------------------------------------------
\* Type invariant.
FaultTypeOK ==
  /\ TypeOK /\ caught \in BOOLEAN /\ half \in BOOLEAN
  /\ caught => pc[Main] \in {"stopQuest", "clear", "left", "crashed"}

\* A quest that says it is OFF has nothing in play, also when its off() was cut
\* off: what next() or the loop still do to it, they do not touch a puzzle.
OffHasNoCurrent == state = "OFF" => current = END

\* What Quest says of a quest that is OFF or STOPped is lost only between an off()
\* or stop() that a callback has cut off and the next one that is completed; no
\* exception in arm(), run(), next() or a poll costs it.
RestUnlessHalf == ~half => QuietPuzzles /\ PowerFollowsState

\* loadQuest() is not left, and the interpreter not finalized, with puzzles that
\* the quest still points to, whatever has been raised, and where.
LeavesUnloaded == pc[Main] = "left" => ~loaded /\ current = END

\* To operators and players an operation that an exception cuts off is one atomic
\* step of FaultGame: it has dealt with the puzzles up to the one that raised and
\* with no other, it never moves a quest that says it is OFF, and what an off() or
\* a stop() has left undone lasts no longer than to the next completed one.
Broken == INSTANCE FaultGame WITH mode <- state, at <- current, cut <- half
ImplementsFaultGame == Broken!FaultSpec
=============================================================================
