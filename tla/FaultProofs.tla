----------------------------- MODULE FaultProofs -----------------------------
(***************************************************************************)
(* Theorems about QuestFaults, for any number of puzzles and clients and   *)
(* an exception in any callback.  A step of Quest keeps the invariants by  *)
(* the lemmas of QuestProofs; what is new is that an operation cut off in  *)
(* any callback keeps them as well, and Leaving: once Main is on its way   *)
(* out of loadQuest() it does not come back.                               *)
(***************************************************************************)
EXTENDS QuestFaults, QuestProofs

USE DEF END

ExitPoints == {"stopQuest", "clear", "left", "crashed"}

Leaving ==
  /\ caught => ret = "left"
  /\ ret = "left" => pc[Main] \in ExitPoints
  /\ pc[Main] = "left" => ~loaded

Unloaded == ~loaded => current = END

IInv == /\ TypeOK /\ caught \in BOOLEAN /\ half \in BOOLEAN
        /\ Leaving /\ Unloaded /\ OffHasNoCurrent /\ PrefixSolved /\ CurrentStarted
        /\ RestUnlessHalf

-----------------------------------------------------------------------------
(***************************************************************************)
(* Steps of Quest.                                                         *)
(***************************************************************************)

\* Without a current puzzle, OFF or unloaded, no step of Quest finds one.
LEMMA NoCurrentStep ==
  ASSUME TypeOK, Unloaded, OffHasNoCurrent, [Next]_vars
  PROVE  Unloaded' /\ OffHasNoCurrent'
<1> USE DEF Unloaded, OffHasNoCurrent
<1>1. ASSUME NEW t \in Threads, Writes(t) PROVE Unloaded' /\ OffHasNoCurrent'
  BY <1>1 DEF Writes, Advance, MayAdvance, Off, Arm, Run, Stop, Clear, session
<1>2. CASE PollCurrent
  BY <1>2 DEF PollCurrent, session
<1> QED
  BY <1>1, <1>2, Frame

\* A thread that moves on from off() or stop() has completed it.
LEMMA Completes ==
  ASSUME TypeOK, [Next]_vars, NEW t \in Threads, pc[t] \in Stopping, pc'[t] # pc[t]
  PROVE  Off(t) \/ Stop(t)
<1> USE DEF Stopping
<1>1. ASSUME NEW u \in Threads, Call(u) PROVE Off(t) \/ Stop(t)
  <2>1. \E l : Goto(u, l)
    BY <1>1 DEF Call, ReadState, Advance, Off, Arm, Run, Stop, Clear, Return
  <2>2. u = t
    BY <2>1 DEF Goto, TypeOK
  <2> QED
    BY <1>1, <2>2 DEF Call, ReadState, Advance, Arm, Run, Clear
<1>2. CASE Loop
  <2>1. \E l : Goto(Main, l)
    BY <1>2, TickMoves DEF Loop, While, EnterExpired, EnterEarly,
       PollNextKey, PollPowerKey, PowerRead, PollLightKey, PollCurrent
  <2>2. t = Main
    BY <2>1 DEF Goto, TypeOK
  <2> QED
    BY <1>2, <2>2, TickMoves DEF Loop, While, EnterExpired, EnterEarly, TickPoints,
       PollNextKey, PollPowerKey, PowerRead, PollLightKey, PollCurrent
<1>3. CASE \/ \E c \in Clients : SetState(c) \/ NextMethod(c) \/ SetScript(c)
           \/ SigStop
  <2>1. PICK c \in Clients : pc[c] = "idle" /\ \E l : Goto(c, l)
    BY <1>3 DEF SetState, NextMethod, SetScript, SigStop
  <2> QED
    BY <2>1 DEF Goto, TypeOK
<1>4. CASE UNCHANGED vars
  BY <1>4 DEF vars
<1> QED
  BY <1>1, <1>2, <1>3, <1>4 DEF Next, Dead

\* A completed off() or stop() makes good what an earlier one has left undone.
LEMMA Repairs ==
  ASSUME NEW t \in Threads, Off(t) \/ Stop(t)
  PROVE  QuietPuzzles' /\ PowerFollowsState'
<1>1. CASE Off(t)
  <2>1. QuietPuzzles'
    BY <1>1 DEF Off, AllStopped, StopPuzzle, session, QuietPuzzles
  <2>2. PowerFollowsState'
    BY <1>1 DEF Off, PowerOff, session, PowerFollowsState
  <2> QED
    BY <2>1, <2>2
<1>2. CASE Stop(t)
  <2>1. QuietPuzzles'
    BY <1>2 DEF Stop, AllStopped, StopPuzzle, session, QuietPuzzles
  <2>2. PowerFollowsState'
    BY <1>2 DEF Stop, PowerOn, LightOn, session, PowerFollowsState
  <2> QED
    BY <2>1, <2>2
<1> QED
  BY <1>1, <1>2

\* A call of Main returns to where it was called, and only Clear to the end.
LEMMA LeavingStep ==
  ASSUME TypeOK, Leaving, [Next]_vars, UNCHANGED caught
  PROVE  Leaving'
<1> USE DEF Leaving, ExitPoints
<1>1. ASSUME NEW c \in Clients, Call(c) \/ SetState(c) \/ NextMethod(c) \/ SetScript(c)
      PROVE  Leaving'
  <2>1. ret' = ret /\ (loaded' => loaded)
    BY <1>1, QuestAssumption DEF Call, ReadState, Advance, Off, Arm, Run, Stop, Clear,
             SetState, NextMethod, SetScript, session
  <2>2. \E l : Goto(c, l)
    BY <1>1 DEF Call, ReadState, Advance, Off, Arm, Run, Stop, Clear, Return,
                SetState, NextMethod, SetScript
  <2>3. pc'[Main] = pc[Main]
    BY <2>2, QuestAssumption DEF Goto, TypeOK, Threads
  <2> QED
    BY <2>1, <2>3
<1>2. CASE Call(Main)
  <2>1. Main \in Threads
    BY DEF Threads
  <2>2. CASE Off(Main)
    BY <2>1, <2>2 DEF Off, Return, Goto, TypeOK, session, ReturnPoints
  <2>3. CASE Clear(Main)
    BY <2>1, <2>3 DEF Clear, Return, Goto, TypeOK
  <2>4. CASE ReadState(Main) \/ Advance(Main) \/ Arm(Main) \/ Run(Main) \/ Stop(Main)
    <3>1. ret # "left" /\ ret' = ret /\ ~caught
      BY <2>4 DEF ReadState, Advance, Arm, Run, Stop
    <3>2. pc'[Main] \in {"arm", "run", "advance", "stop", ret}
      BY <2>1, <2>4 DEF ReadState, Advance, Arm, Run, Stop, Return, Goto, TypeOK
    <3> QED
      BY <3>1, <3>2
  <2> QED
    BY <1>2, <2>2, <2>3, <2>4 DEF Call
<1>3. CASE Loop
  <2>1. Main \in Threads
    BY DEF Threads
  <2>2. ret # "left" /\ ~caught
    BY <1>3, TickMoves DEF Loop, While, EnterExpired, EnterEarly, TickPoints,
       PollNextKey, PollPowerKey, PowerRead, PollLightKey, PollCurrent
  <2>3. CASE While
    BY <2>1, <2>2, <2>3 DEF While, Goto, TypeOK
  <2>4. CASE ~While
    <3>1. ret' # "left"
      BY <1>3, <2>2, <2>4, TickMoves DEF Loop, EnterExpired, EnterEarly,
         PollNextKey, PollPowerKey, PowerRead, PollLightKey, PollCurrent
    <3>2. \E l \in (Calls \cup LoopPoints) \ {"left"} : Goto(Main, l)
      BY <1>3, <2>4, TickMoves DEF Loop, EnterExpired, EnterEarly,
                PollNextKey, PollPowerKey, PowerRead, PollLightKey, PollCurrent,
                Calls, LoopPoints, TickPoints
    <3>3. pc'[Main] # "left"
      BY <2>1, <3>2 DEF Goto, TypeOK, Calls, LoopPoints, TickPoints
    <3> QED
      BY <2>2, <3>1, <3>3
  <2> QED
    BY <2>3, <2>4
<1>4. CASE SigStop \/ UNCHANGED vars
  BY <1>4 DEF SigStop, vars, session
<1> QED
  BY <1>1, <1>2, <1>3, <1>4 DEF Next, Dead, Threads
\* A step of Quest keeps the invariant.
LEMMA DoneStep ==
  ASSUME IInv, Done
  PROVE  IInv'
<1> USE DEF IInv, Done
<1>1. TypeOK' /\ Unloaded' /\ OffHasNoCurrent' /\ PrefixSolved' /\ CurrentStarted'
  BY TypeStep, NoCurrentStep, PrefixStep, StartedStep
<1>2. Leaving' /\ caught' \in BOOLEAN /\ half' \in BOOLEAN
  BY LeavingStep
<1>3. ASSUME ~half' PROVE QuietPuzzles' /\ PowerFollowsState'
  <2>1. CASE half
    <3>1. PICK t \in Threads : pc[t] \in Stopping /\ pc'[t] # pc[t]
      BY <1>3, <2>1
    <3> QED
      BY <3>1, Completes, Repairs
  <2>2. CASE ~half
    BY <2>2, QuietStep, PowerStep DEF RestUnlessHalf
  <2> QED
    BY <2>1, <2>2
<1> QED
  BY <1>1, <1>2, <1>3 DEF RestUnlessHalf

-----------------------------------------------------------------------------
(***************************************************************************)
(* Operations that are cut off.                                            *)
(***************************************************************************)

\* What every operation, cut off, does to the flags of the quest.
FlagsKept ==
  /\ state' \in States /\ current' \in 1..END /\ puzzle' \in [1..N -> PuzzleFlags]
  /\ power' \in BOOLEAN /\ light' \in BOOLEAN /\ elapsed' \in Time
  /\ Unloaded' /\ OffHasNoCurrent' /\ PrefixSolved' /\ CurrentStarted'

\* What is kept by those that are neither off() nor stop().
AtRestKept == (QuietPuzzles => QuietPuzzles') /\ (PowerFollowsState => PowerFollowsState')

\* Putting the time of the puzzle back keeps the type of the times.
LEMMA ResetType ==
  ASSUME TypeOK
  PROVE  PuzzleTimeReset \in Time
BY QuestAssumption DEF PuzzleTimeReset, TypeOK, Time

\* Puzzles that have been stopped or armed in part are puzzles.
LEMMA PartTypes ==
  ASSUME TypeOK, NEW k
  PROVE  /\ StoppedUpTo(k) \in [1..N -> PuzzleFlags]
         /\ ArmedUpTo(k) \in [1..N -> PuzzleFlags]
         /\ AllStopped \in [1..N -> PuzzleFlags]
BY PuzzleTypes DEF TypeOK, StoppedUpTo, ArmedUpTo, AllStopped

\* off(): the state and _currentPuzzle have been set before any callback.
LEMMA HalfOffKeeps ==
  ASSUME IInv, UNCHANGED session, HalfOff
  PROVE  FlagsKept
<1> USE DEF IInv, FlagsKept, HalfOff, EndedFirst
<1>1. puzzle' \in [1..N -> PuzzleFlags]
  BY PartTypes
<1>2. current' \in 1..END
  BY QuestAssumption
<1>3. power' \in BOOLEAN /\ light' \in BOOLEAN /\ elapsed' \in Time
  BY DEF TypeOK, PowerOff
<1>4. Unloaded' /\ OffHasNoCurrent' /\ PrefixSolved' /\ CurrentStarted'
  BY DEF Unloaded, OffHasNoCurrent, PrefixSolved, CurrentStarted
<1> QED
  BY <1>1, <1>2, <1>3, <1>4 DEF States

\* stop(): the state has been set, so nothing RUNs.
LEMMA HalfStopKeeps ==
  ASSUME IInv, UNCHANGED session, HalfStop
  PROVE  FlagsKept
<1> USE DEF IInv, FlagsKept, HalfStop
<1>1. puzzle' \in [1..N -> PuzzleFlags]
  BY PartTypes DEF TypeOK
<1>2. /\ current' \in 1..END /\ power' \in BOOLEAN /\ light' \in BOOLEAN
      /\ elapsed' \in Time
  BY ResetType DEF TypeOK, PowerOn, LightOn
<1>3. Unloaded' /\ OffHasNoCurrent' /\ PrefixSolved' /\ CurrentStarted'
  BY DEF Unloaded, OffHasNoCurrent, PrefixSolved, CurrentStarted, session
<1> QED
  BY <1>1, <1>2, <1>3 DEF States

\* arm(): the state has been set, so nothing RUNs, and nothing is at rest.
LEMMA HalfArmKeeps ==
  ASSUME IInv, UNCHANGED session, HalfArm
  PROVE  FlagsKept /\ AtRestKept
<1> USE DEF IInv, HalfArm, specials, session
<1>1. puzzle' \in [1..N -> PuzzleFlags]
  BY PartTypes
<1>2. /\ current' \in 1..END /\ power' \in BOOLEAN /\ light' \in BOOLEAN
      /\ elapsed' \in Time
  BY DEF TypeOK
<1>3. Unloaded' /\ OffHasNoCurrent' /\ PrefixSolved' /\ CurrentStarted'
  BY DEF Unloaded, OffHasNoCurrent, PrefixSolved, CurrentStarted
<1>4. AtRestKept
  BY DEF AtRestKept, QuietPuzzles, PowerFollowsState
<1> QED
  BY <1>1, <1>2, <1>3, <1>4 DEF States, FlagsKept

\* run(): the first puzzle has its flag before its onRun() is called.
LEMMA HalfRunKeeps ==
  ASSUME IInv, UNCHANGED session, HalfRun
  PROVE  FlagsKept /\ AtRestKept
<1> USE DEF IInv, HalfRun, Started, session
<1>1. current' \in 1..END
  BY QuestAssumption DEF Puzzles
<1>2. puzzle' \in [1..N -> PuzzleFlags]
  BY PuzzleTypes DEF TypeOK
<1>3. power' \in BOOLEAN /\ light' \in BOOLEAN /\ elapsed' \in Time
  BY DEF TypeOK, LightOff
<1>4. Unloaded' /\ OffHasNoCurrent'
  BY DEF Unloaded, OffHasNoCurrent, Puzzles
<1>5. PrefixSolved'
  BY QuestAssumption DEF PrefixSolved, Puzzles
<1>6. CurrentStarted'
  <2> SUFFICES ASSUME current' # END PROVE puzzle'[current'].running
    BY DEF CurrentStarted
  <2>1. current' \in 1..N
    BY <1>1, QuestAssumption
  <2> QED
    BY <2>1, PuzzleTypes DEF TypeOK
<1>7. AtRestKept
  BY <1>4 DEF AtRestKept, QuietPuzzles, PowerFollowsState, Unloaded
<1> QED
  BY <1>1, <1>2, <1>3, <1>4, <1>5, <1>6, <1>7 DEF States, FlagsKept
\* next(): what is left has been solved, what is reached has been started.
LEMMA HalfAdvanceKeeps ==
  ASSUME IInv, UNCHANGED session, HalfAdvance
  PROVE  FlagsKept /\ AtRestKept
<1> USE DEF IInv, HalfAdvance, MayAdvance, session, specials
<1>1. /\ current \in 1..N /\ current' \in 1..END /\ puzzle[current] \in PuzzleFlags
      /\ current' = current \/ current' = current + 1
  BY QuestAssumption DEF TypeOK
<1>2. /\ puzzle'[current] = SolvePuzzle(puzzle[current])
      /\ current' = current + 1 => puzzle'[current'] = RunPuzzle(puzzle[current'])
      /\ \A p \in 1..N : p < current => puzzle'[p] = puzzle[p]
      /\ puzzle' \in [1..N -> PuzzleFlags]
  <2>1. CASE puzzle' = [puzzle EXCEPT ![current] = SolvePuzzle(@)] /\ UNCHANGED current
    BY <1>1, <2>1, PuzzleTypes DEF TypeOK
  <2>2. CASE current < N /\ puzzle' = SolveAndStartNext(current) /\ current' = current + 1
    <3>1. current + 1 \in 1..N
      BY <1>1, <2>2, QuestAssumption
    <3>2. \A p \in 1..N : puzzle'[p] \in PuzzleFlags
      BY <2>2, PuzzleTypes DEF TypeOK, SolveAndStartNext
    <3>3. puzzle' \in [1..N -> PuzzleFlags]
      BY <2>2, <3>2 DEF SolveAndStartNext
    <3> QED
      BY <1>1, <2>2, <3>1, <3>3 DEF SolveAndStartNext
  <2> QED
    BY <2>1, <2>2
<1>3. current' = current + 1 => current' \in 1..N
  <2>1. current < N /\ current \in 1..N => current + 1 \in 1..N
    BY QuestAssumption
  <2>2. current # current + 1
    BY <1>1
  <2> QED
    BY <1>1, <2>1, <2>2
<1>4. /\ state' \in States /\ power' \in BOOLEAN /\ light' \in BOOLEAN
      /\ elapsed' \in Time
  BY ResetType DEF TypeOK
<1>5. Unloaded' /\ OffHasNoCurrent'
  BY DEF Unloaded, OffHasNoCurrent
<1>6. puzzle'[current].solved
  BY <1>1, <1>2, PuzzleTypes
<1>7. PrefixSolved'
  <2> SUFFICES ASSUME state' = "RUN", loaded', NEW p \in 1..N, p < current'
               PROVE  puzzle'[p].solved
    BY DEF PrefixSolved
  <2>1. CASE p = current
    BY <1>6, <2>1
  <2>2. CASE p < current
    BY <1>2, <2>2 DEF PrefixSolved
  <2> QED
    BY <1>1, <2>1, <2>2
<1>8. CurrentStarted'
  <2>1. CASE current' = current
    BY <1>6, <2>1 DEF CurrentStarted
  <2>2. CASE current' = current + 1
    <3>1. puzzle[current'] \in PuzzleFlags
      BY <1>3, <2>2 DEF TypeOK
    <3> QED
      BY <1>2, <2>2, <3>1, PuzzleTypes DEF CurrentStarted
  <2> QED
    BY <1>1, <2>1, <2>2
<1>9. AtRestKept
  BY DEF AtRestKept, QuietPuzzles, PowerFollowsState
<1> QED
  BY <1>1, <1>2, <1>4, <1>5, <1>7, <1>8, <1>9 DEF FlagsKept

\* A poll changes at most the service light, or solves the current puzzle.
LEMMA HalfPollKeeps ==
  ASSUME IInv, UNCHANGED session, HalfPoll(pc[Main])
  PROVE  FlagsKept /\ AtRestKept
<1> USE DEF IInv, specials, session
<1>1. CASE UNCHANGED <<flags, specials, elapsed>>
  BY <1>1 DEF flags, FlagsKept, AtRestKept, TypeOK, Unloaded, OffHasNoCurrent,
              PrefixSolved, CurrentStarted, QuietPuzzles, PowerFollowsState
<1>2. CASE state = "RUN" /\ light' = ~light /\ UNCHANGED <<flags, power, elapsed>>
  <2>1. light' \in BOOLEAN
    BY <1>2
  <2> QED
    BY <1>2, <2>1 DEF flags, FlagsKept, AtRestKept, TypeOK, Unloaded, OffHasNoCurrent,
              PrefixSolved, CurrentStarted, QuietPuzzles, PowerFollowsState
<1>3. CASE /\ current # END
           /\ puzzle' = [puzzle EXCEPT ![current] = SolvePuzzle(@)]
           /\ UNCHANGED <<state, current, specials, elapsed>>
  <2>1. current \in 1..N /\ puzzle[current] \in PuzzleFlags
    BY <1>3, QuestAssumption DEF TypeOK
  <2>2. /\ puzzle' \in [1..N -> PuzzleFlags]
        /\ \A p \in 1..N : puzzle'[p] = puzzle[p] \/ puzzle'[p].solved
        /\ puzzle'[current].solved
    BY <1>3, <2>1, PuzzleTypes DEF TypeOK
  <2>3. PrefixSolved' /\ CurrentStarted'
    BY <1>3, <2>1, <2>2 DEF PrefixSolved, CurrentStarted
  <2>4. AtRestKept
    BY <1>3 DEF AtRestKept, QuietPuzzles, PowerFollowsState
  <2> QED
    BY <1>3, <2>2, <2>3, <2>4 DEF FlagsKept, TypeOK, Unloaded, OffHasNoCurrent
<1> QED
  BY <1>1, <1>2, <1>3 DEF HalfPoll

\* The thread is back in the server, in the catch of loadQuest(), or nowhere.
LEMMA UnwindStep ==
  ASSUME TypeOK, Leaving, caught \in BOOLEAN, UNCHANGED session,
         NEW t \in Threads, Unwind(t),
         caught => t # Main \/ pc[Main] # "left"
  PROVE  /\ pc' \in [Threads -> Calls \cup LoopPoints \cup {"idle"}]
         /\ \A c \in Clients : pc'[c] \in Calls \cup {"idle"}
         /\ ret' \in ReturnPoints /\ held' \in BOOLEAN /\ caught' \in BOOLEAN
         /\ Leaving'
<1> USE DEF Unwind, CatchUnloads, session
<1>1. CASE t \in Clients
  <2>1. t # Main /\ Main \in Threads
    BY <1>1, QuestAssumption DEF Threads
  <2>2. Goto(t, "idle") /\ UNCHANGED <<held, ret, caught>>
    BY <2>1
  <2>3. pc'[Main] = pc[Main]
    BY <2>1, <2>2 DEF Goto, TypeOK
  <2> QED
    BY <2>2, <2>3, GotoType DEF TypeOK, Leaving
<1>2. CASE t = Main
  <2>1. /\ held' = FALSE /\ ret' = "left" /\ caught' = TRUE
        /\ \/ Goto(Main, "stopQuest") \/ Goto(Main, "crashed")
    BY <1>2, QuestAssumption
  <2>2. pc'[Main] \in {"stopQuest", "crashed"}
    BY <2>1 DEF Goto, TypeOK, Threads
  <2>3. /\ pc' \in [Threads -> Calls \cup LoopPoints \cup {"idle"}]
        /\ \A c \in Clients : pc'[c] \in Calls \cup {"idle"}
    <3>1. "stopQuest" \in Calls \cup LoopPoints /\ "crashed" \in Calls \cup LoopPoints
      BY DEF Calls, LoopPoints, TickPoints
    <3> QED
      BY <2>1, <3>1, MainGotoType
  <2>4. Leaving'
    BY <2>1, <2>2 DEF Leaving, ExitPoints
  <2> QED
    BY <2>1, <2>3, <2>4 DEF ReturnPoints
<1> QED
  BY <1>1, <1>2 DEF Threads

\* An exception in any callback keeps the invariant.
LEMMA RaiseStep ==
  ASSUME IInv, NEW t \in Threads, Raise(t)
  PROVE  IInv'
<1> USE DEF IInv, Raise
<1>1. FlagsKept /\ (pc[t] \in Stopping \/ AtRestKept)
  BY HalfOffKeeps, HalfStopKeeps, HalfArmKeeps, HalfRunKeeps, HalfAdvanceKeeps,
     HalfPollKeeps DEF Stopping
<1>2. ~(t = Main /\ pc[Main] = "left")
  BY DEF Calls, HalfPoll
<1>3. TypeOK' /\ Leaving' /\ caught' \in BOOLEAN
  BY <1>1, <1>2, UnwindStep DEF TypeOK, FlagsKept, session, local
<1>4. ASSUME ~half' PROVE QuietPuzzles' /\ PowerFollowsState'
  BY <1>1, <1>4 DEF AtRestKept, RestUnlessHalf
<1>5. half' \in BOOLEAN
  OBVIOUS
<1> QED
  BY <1>1, <1>3, <1>4, <1>5 DEF FlagsKept, RestUnlessHalf
\* The invariant is inductive.
THEOREM Invariance == FaultSpec => []IInv
<1>1. FaultInit => IInv
  <2> SUFFICES ASSUME FaultInit PROVE IInv
    OBVIOUS
  <2> USE DEF FaultInit
  <2>1. TypeOK
    BY InitType
  <2>2. pc[Main] = "while" /\ ret = "while"
    BY DEF Init, Threads
  <2>3. Leaving /\ Unloaded
    BY <2>2 DEF Leaving, Unloaded, Init
  <2>4. OffHasNoCurrent /\ PrefixSolved /\ CurrentStarted
    BY DEF Init, OffHasNoCurrent, PrefixSolved, CurrentStarted
  <2>5. RestUnlessHalf
    BY DEF Init, RestUnlessHalf,
         QuietPuzzles, PowerFollowsState
  <2> QED
    BY <2>1, <2>3, <2>4, <2>5 DEF IInv
<1>2. IInv /\ [FaultNext]_faultVars => IInv'
  <2> SUFFICES ASSUME IInv, [FaultNext]_faultVars PROVE IInv'
    OBVIOUS
  <2>1. CASE Done
    BY <2>1, DoneStep
  <2>2. CASE \E t \in Threads : Raise(t)
    BY <2>2, RaiseStep
  <2>3. CASE UNCHANGED faultVars
    BY <2>3 DEF faultVars, vars, flags, specials, session, timer, local, IInv, TypeOK, Leaving,
         Unloaded, OffHasNoCurrent, PrefixSolved, CurrentStarted, RestUnlessHalf,
         QuietPuzzles, PowerFollowsState
  <2> QED
    BY <2>1, <2>2, <2>3 DEF FaultNext
<1> QED
  BY <1>1, <1>2, PTL DEF FaultSpec

-----------------------------------------------------------------------------
\* Exceptions cost no types, and Main never goes on in loop() after one.
THEOREM FaultTypes == FaultSpec => []FaultTypeOK
<1>1. IInv => FaultTypeOK
  BY DEF IInv, FaultTypeOK, Leaving, ExitPoints
<1> QED
  BY <1>1, Invariance, PTL

\* A quest that is OFF has no current puzzle, cut off or not.
THEOREM OffStays == FaultSpec => []OffHasNoCurrent
<1>1. IInv => OffHasNoCurrent
  BY DEF IInv
<1> QED
  BY <1>1, Invariance, PTL

\* A stopped quest is at rest and has its power, but for what an off() or stop()
\* that was cut off has left undone.
THEOREM RestIsRepaired == FaultSpec => []RestUnlessHalf
<1>1. IInv => RestUnlessHalf
  BY DEF IInv
<1> QED
  BY <1>1, Invariance, PTL

\* loadQuest() leaves no puzzles behind.
THEOREM LeavesNothing == FaultSpec => []LeavesUnloaded
<1>1. IInv => LeavesUnloaded
  BY DEF IInv, Leaving, Unloaded, LeavesUnloaded
<1> QED
  BY <1>1, Invariance, PTL

\* Players of a quest that RUNs are past nothing unsolved, whatever is raised.
THEOREM PrefixWithFaults == FaultSpec => []PrefixSolved
<1>1. IInv => PrefixSolved
  BY DEF IInv
<1> QED
  BY <1>1, Invariance, PTL

\* The current puzzle of a quest that RUNs has been started, whatever is raised.
THEOREM StartedWithFaults == FaultSpec => []CurrentStarted
<1>1. IInv => CurrentStarted
  BY DEF IInv
<1> QED
  BY <1>1, Invariance, PTL

-----------------------------------------------------------------------------
(***************************************************************************)
(* What a step that raises does to the order of the puzzles, to the clock  *)
(* and to the way out of loop().                                           *)
(***************************************************************************)

\* What has been solved before the exception stays solved; only the current puzzle
\* can have become solved.
LEMMA RaiseOrder ==
  ASSUME IInv, NEW t \in Threads, Raise(t)
  PROVE  InOrder
<1> SUFFICES ASSUME state = "RUN", state' = "RUN", NEW p \in 1..N
             PROVE  /\ puzzle[p].solved => puzzle'[p].solved
                    /\ puzzle'[p].solved /\ ~puzzle[p].solved => p = current
  BY DEF InOrder
<1>1. puzzle[p] \in PuzzleFlags /\ puzzle \in [1..N -> PuzzleFlags]
  BY DEF IInv, TypeOK
<1>2. \/ puzzle'[p] = puzzle[p]
      \/ puzzle'[p] = RunPuzzle(puzzle[p])
      \/ p = current /\ puzzle'[p] = SolvePuzzle(puzzle[p])
  <2>1. HalfRun \/ HalfAdvance \/ HalfPoll(pc[Main])
    BY DEF Raise, HalfOff, HalfStop, HalfArm
  <2>2. CASE HalfRun
    BY <2>2 DEF HalfRun, Started
  <2>3. CASE HalfAdvance
    BY <1>1, <2>3 DEF HalfAdvance, SolveAndStartNext
  <2>4. CASE HalfPoll(pc[Main])
    BY <1>1, <2>4 DEF HalfPoll, flags
  <2> QED
    BY <2>1, <2>2, <2>3, <2>4
<1> QED
  BY <1>1, <1>2, PuzzleTypes

\* An exception moves Main to the catch or to the end, and no other thread moves it.
LEMMA RaiseMoves ==
  ASSUME IInv, NEW t \in Threads, Raise(t)
  PROVE  \/ t # Main /\ UNCHANGED <<pc[Main], ret, held, caught>>
         \/ /\ t = Main /\ pc[Main] \in Calls \cup Polls
            /\ held' = FALSE /\ ret' = "left" /\ caught'
            /\ pc'[Main] = IF caught THEN "crashed" ELSE "stopQuest"
<1>1. CASE t # Main
  <2>1. Goto(t, "idle") /\ UNCHANGED <<held, ret, caught>>
    BY <1>1 DEF Raise, Unwind
  <2>2. pc'[Main] = pc[Main]
    BY <1>1, <2>1 DEF Goto, IInv, TypeOK, Threads
  <2> QED
    BY <1>1, <2>1, <2>2
<1>2. CASE t = Main
  <2>1. pc[Main] \in Calls \cup Polls
    BY <1>2 DEF Raise, HalfPoll, Polls
  <2>2. /\ held' = FALSE /\ ret' = "left" /\ caught'
        /\ Goto(Main, IF caught THEN "crashed" ELSE "stopQuest")
    BY <1>2, QuestAssumption DEF Raise, Unwind, CatchUnloads
  <2>3. pc'[Main] = IF caught THEN "crashed" ELSE "stopQuest"
    BY <2>2 DEF Goto, IInv, TypeOK, Threads
  <2> QED
    BY <1>2, <2>1, <2>2, <2>3
<1> QED
  BY <1>1, <1>2

\* The clock does not notice: no callback is called in a tick, and what is cut off
\* leaves the quest's time alone.
LEMMA RaiseClock ==
  ASSUME IInv, ClockInv, NEW t \in Threads, Raise(t)
  PROVE  Forward /\ ClockInv'
<1>1. elapsed'.quest = elapsed.quest /\ UNCHANGED <<interval, seen>>
  BY DEF Raise, HalfOff, HalfStop, HalfArm, HalfRun, HalfAdvance, HalfPoll, PuzzleTimeReset,
         IInv, TypeOK, Time, local
<1>2. /\ pc'[Main] \in TickPoints => pc[Main] = pc'[Main]
      /\ pc[Main] \in TickPoints => pc[Main] = pc'[Main]
  BY RaiseMoves DEF Calls, Polls, TickPoints
<1>3. elapsed.quest \in 0..TimeCap
  BY DEF IInv, TypeOK, Time
<1> QED
  BY <1>1, <1>2, <1>3 DEF Forward, ClockInv, TickPoints

\* While the quest keeps RUNning, progress is neither lost nor made out of order,
\* whatever is raised.
THEOREM OrderWithFaults == FaultSpec => SolvedInOrder
<1>1. IInv /\ [FaultNext]_faultVars => [InOrder]_vars
  <2> SUFFICES ASSUME IInv, [FaultNext]_faultVars PROVE [InOrder]_vars
    OBVIOUS
  <2>1. CASE Done \/ UNCHANGED faultVars
    BY <2>1, OrderStep DEF Done, faultVars, IInv
  <2> QED
    BY <2>1, RaiseOrder DEF FaultNext
<1> QED
  BY <1>1, Invariance, PTL DEF FaultSpec, SolvedInOrder, InOrder

\* The quest's time goes on, whatever is raised.
THEOREM ClockWithFaults == FaultSpec => ClockForward
<1>1. FaultInit => ClockInv
  BY DEF FaultInit, Init, ClockInv, Threads, TickPoints
<1>2. IInv /\ ClockInv /\ [FaultNext]_faultVars => ClockInv' /\ [Forward]_vars
  <2> SUFFICES ASSUME IInv, ClockInv, [FaultNext]_faultVars
               PROVE  ClockInv' /\ [Forward]_vars
    OBVIOUS
  <2>1. CASE Done \/ UNCHANGED faultVars
    BY <2>1, ClockStep, ForwardStep DEF Done, faultVars, IInv
  <2> QED
    BY <2>1, RaiseClock DEF FaultNext
<1> QED
  BY <1>1, <1>2, Invariance, PTL DEF FaultSpec, ClockForward, Forward

\* The unwound stack gives the lock back: Main never waits for a lock it has itself,
\* and the catch of loadQuest() gets it.
THEOREM NoSelfDeadlockWithFaults == FaultSpec => [](pc[Main] \in Calls => ~held)
<1>1. FaultInit => KeepsOnlyToPoll
  BY DEF FaultInit, Init, KeepsOnlyToPoll
<1>2. IInv /\ KeepsOnlyToPoll /\ [FaultNext]_faultVars => KeepsOnlyToPoll'
  <2> SUFFICES ASSUME IInv, KeepsOnlyToPoll, [FaultNext]_faultVars
               PROVE  KeepsOnlyToPoll'
    OBVIOUS
  <2>1. CASE Done \/ UNCHANGED faultVars
    BY <2>1, KeepStep DEF Done, faultVars, IInv
  <2>2. ASSUME NEW t \in Threads, Raise(t) PROVE KeepsOnlyToPoll'
    BY <2>2, RaiseMoves DEF KeepsOnlyToPoll
  <2> QED
    BY <2>1, <2>2 DEF FaultNext
<1>3. KeepsOnlyToPoll => (pc[Main] \in Calls => ~held)
  BY DEF KeepsOnlyToPoll, Polls, Calls
<1> QED
  BY <1>1, <1>2, <1>3, Invariance, PTL DEF FaultSpec

\* As StepsLeft of QuestProofs, with the two steps of a stopQuest() to come in the catch.
FaultStepsLeft == StepsLeft + IF caught THEN 0 ELSE 2

FaultExitNearer ==
  ~isRunning \/ caught =>
    /\ ~isRunning' \/ caught'
    /\ FaultStepsLeft' <= FaultStepsLeft
    /\ pc'[Main] # pc[Main] => FaultStepsLeft' < FaultStepsLeft

\* A step of Quest brings Main nearer to the end also once it is in the catch.
LEMMA DoneExit ==
  ASSUME IInv, [Next]_vars, UNCHANGED caught
  PROVE  FaultExitNearer
<1>1. StepsLeft \in Nat /\ StepsLeft' \in Nat
  <2>1. \A l, m : Place(l) + CallPlace(m) \in Nat /\ Place(l) \in Nat
    BY DEF Place, CallPlace
  <2> QED
    BY <2>1 DEF StepsLeft
<1>2. /\ StepsLeft' <= StepsLeft => FaultStepsLeft' <= FaultStepsLeft
      /\ StepsLeft' < StepsLeft => FaultStepsLeft' < FaultStepsLeft
  <2>1. PICK a \in Nat : a = StepsLeft
    BY <1>1
  <2>2. PICK b \in Nat : b = StepsLeft'
    BY <1>1
  <2>3. PICK k \in {0, 2} : FaultStepsLeft = a + k /\ FaultStepsLeft' = b + k
    <3>1. CASE caught
      BY <2>1, <2>2, <3>1 DEF FaultStepsLeft
    <3>2. CASE ~caught
      BY <2>1, <2>2, <3>2 DEF FaultStepsLeft
    <3> QED
      BY <3>1, <3>2
  <2>4. (b <= a => b + k <= a + k) /\ (b < a => b + k < a + k)
    OBVIOUS
  <2> QED
    BY <2>1, <2>2, <2>3, <2>4
<1>3. CASE ~isRunning
  <2>1. ExitNearer
    BY ExitStep DEF IInv
  <2> QED
    BY <1>2, <1>3, <2>1 DEF ExitNearer, FaultExitNearer
<1>4. CASE caught
  <2>1. pc[Main] # "while"
    BY <1>4 DEF IInv, Leaving, ExitPoints
  <2>2. CASE Loop \/ Call(Main)
    <3>1. StepsLeft' < StepsLeft
      BY <2>1, <2>2, MainNearer DEF IInv, While
    <3>2. StepsLeft' <= StepsLeft
      BY <1>1, <3>1
    <3> QED
      BY <1>2, <1>4, <3>1, <3>2 DEF FaultExitNearer
  <2>3. CASE ~Loop /\ ~Call(Main)
    <3>1. UNCHANGED <<pc[Main], ret>>
      BY <2>3, CallMoves, RequestMoves DEF IInv, Next, Dead, vars, Threads
    <3>2. StepsLeft' <= StepsLeft
      BY <1>1, <3>1 DEF StepsLeft
    <3> QED
      BY <1>2, <1>4, <3>1, <3>2 DEF FaultExitNearer
  <2> QED
    BY <2>2, <2>3
<1> QED
  BY <1>3, <1>4 DEF FaultExitNearer

\* An exception on Main shortens its way; one on a client's thread does not touch it.
LEMMA RaiseExit ==
  ASSUME IInv, NEW t \in Threads, Raise(t)
  PROVE  FaultExitNearer
<1>1. StepsLeft \in Nat
  <2>1. \A l, m : Place(l) + CallPlace(m) \in Nat /\ Place(l) \in Nat
    BY DEF Place, CallPlace
  <2> QED
    BY <2>1 DEF StepsLeft
<1>2. isRunning' = isRunning /\ caught \in BOOLEAN
  BY DEF Raise, session, IInv
<1>3. CASE UNCHANGED <<pc[Main], ret, caught>>
  <2>1. StepsLeft' = StepsLeft
    BY <1>3 DEF StepsLeft
  <2> QED
    BY <1>1, <1>2, <1>3, <2>1 DEF FaultExitNearer, FaultStepsLeft
<1>4. CASE /\ pc[Main] \in Calls \cup Polls /\ ret' = "left" /\ caught'
           /\ pc'[Main] = IF caught THEN "crashed" ELSE "stopQuest"
  <2>1. StepsLeft > 0
    <3>1. Place(ret) \in Nat /\ CallPlace(pc[Main]) \in Nat \ {0}
      BY DEF Place, CallPlace
    <3>2. pc[Main] \in Polls => Place(pc[Main]) > 0 /\ pc[Main] \notin Calls
      BY DEF Place, Polls, Calls
    <3> QED
      BY <1>4, <3>1, <3>2 DEF StepsLeft
  <2>2. CASE caught
    <3>1. StepsLeft' = 0
      BY <1>4, <2>2 DEF StepsLeft, Place, Calls
    <3> QED
      BY <1>1, <1>4, <2>1, <2>2, <3>1 DEF FaultExitNearer, FaultStepsLeft
  <2>3. CASE ~caught
    <3>1. StepsLeft' = 2
      BY <1>4, <2>3 DEF StepsLeft, Place, CallPlace, Calls
    <3> QED
      BY <1>1, <1>4, <2>1, <2>3, <3>1 DEF FaultExitNearer, FaultStepsLeft
  <2> QED
    BY <2>2, <2>3
<1> QED
  BY <1>3, <1>4, RaiseMoves

\* From the moment isRunning is cleared or a callback has raised on Main, Main is
\* out of loadQuest(), or dead, within 48 steps of its own, whatever else is raised.
THEOREM ExitIsBoundedWithFaults ==
  FaultSpec => /\ [][FaultExitNearer]_faultVars
               /\ [](FaultStepsLeft \in 0..48)
               /\ [](StepsLeft = 0 => pc[Main] \in {"left", "crashed"})
<1>1. FaultInit => InPlace
  BY DEF FaultInit, Init, InPlace, Threads, LoopPoints, TickPoints
<1>2. IInv /\ InPlace /\ [FaultNext]_faultVars => InPlace' /\ [FaultExitNearer]_faultVars
  <2> SUFFICES ASSUME IInv, InPlace, [FaultNext]_faultVars
               PROVE  InPlace' /\ [FaultExitNearer]_faultVars
    OBVIOUS
  <2>1. CASE Done
    BY <2>1, PlaceStep, DoneExit DEF Done, IInv
  <2>2. ASSUME NEW t \in Threads, Raise(t) PROVE InPlace'
    BY <2>2, RaiseMoves DEF InPlace, Calls, LoopPoints, TickPoints
  <2>3. CASE UNCHANGED faultVars
    BY <2>3, PlaceStep DEF faultVars, IInv
  <2> QED
    BY <2>1, <2>2, <2>3, RaiseExit DEF FaultNext
<1>3. IInv => FaultStepsLeft \in 0..48
  BY StepsBound DEF IInv, FaultStepsLeft
<1>4. IInv /\ InPlace => (StepsLeft = 0 => pc[Main] \in {"left", "crashed"})
  BY NothingLeft DEF IInv
<1> QED
  BY <1>1, <1>2, <1>3, <1>4, Invariance, PTL DEF FaultSpec
=============================================================================
