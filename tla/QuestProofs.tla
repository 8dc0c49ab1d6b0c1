----------------------------- MODULE QuestProofs -----------------------------
(***************************************************************************)
(* Theorems about Quest, for every number of puzzles, every durations and  *)
(* every set of clients.  TypeOK is inductive by itself, and each of the   *)
(* other invariants together with TypeOK.                                  *)
(***************************************************************************)
EXTENDS Quest, TLAPS

USE DEF END

\* Goto and Return keep pc well-typed when the targets are.
LEMMA GotoType ==
  ASSUME TypeOK, NEW t \in Threads, NEW l \in Calls \cup {"idle"}, Goto(t, l)
  PROVE  /\ pc' \in [Threads -> Calls \cup LoopPoints \cup {"idle"}]
         /\ \A c \in Clients : pc'[c] \in Calls \cup {"idle"}
  BY DEF TypeOK, Goto, Threads

LEMMA MainGotoType ==
  ASSUME TypeOK, NEW l \in Calls \cup LoopPoints, Goto(Main, l)
  PROVE  /\ pc' \in [Threads -> Calls \cup LoopPoints \cup {"idle"}]
         /\ \A c \in Clients : pc'[c] \in Calls \cup {"idle"}
  BY QuestAssumption DEF TypeOK, Goto, Threads

LEMMA ReturnType ==
  ASSUME TypeOK, NEW t \in Threads, Return(t)
  PROVE  /\ pc' \in [Threads -> Calls \cup LoopPoints \cup {"idle"}]
         /\ \A c \in Clients : pc'[c] \in Calls \cup {"idle"}
<1>1. CASE t = Main
  <2>1. ret \in LoopPoints
    BY DEF TypeOK, ReturnPoints, LoopPoints, TickPoints
  <2>2. Goto(Main, ret)
    BY <1>1 DEF Return
  <2> QED
    BY <2>1, <2>2, MainGotoType
<1>2. CASE t # Main
  BY <1>2, GotoType DEF Return
<1> QED
  BY <1>1, <1>2

-----------------------------------------------------------------------------
\* What the operations on puzzles return.
LEMMA PuzzleTypes ==
  ASSUME NEW z \in PuzzleFlags
  PROVE  /\ SolvePuzzle(z) \in PuzzleFlags /\ SolvePuzzle(z).solved
         /\ RunPuzzle(z) \in PuzzleFlags
         /\ RunPuzzle(z).running /\ (RunPuzzle(z).solved <=> z.solved)
         /\ ArmPuzzle(z) \in PuzzleFlags
         /\ StopPuzzle(z) \in PuzzleFlags
         /\ \A test \in BOOLEAN :
              /\ LoopPuzzle(z, test) \in PuzzleFlags
              /\ z.solved => LoopPuzzle(z, test) = z
              /\ LoopPuzzle(z, test) = z \/ LoopPuzzle(z, test).solved
  BY DEF PuzzleFlags, SolvePuzzle, StoppedPuzzle, RunPuzzle, ArmPuzzle,
         StopPuzzle, LoopPuzzle

LEMMA PlusType ==
  ASSUME NEW x \in 0..TimeCap, NEW i \in Intervals
  PROVE  Plus(x, i) \in 0..TimeCap
  BY QuestAssumption DEF Plus

\* The calls of next, off, arm, run, stop and of the end of stopQuest keep the
\* types, whichever thread makes them.
LEMMA CallType ==
  ASSUME TypeOK, NEW t \in Threads, Call(t)
  PROVE  TypeOK'
<1>1. CASE ReadState(t)
  <2>1. \E l \in Calls : Goto(t, l)
    BY <1>1 DEF ReadState, Calls
  <2> QED
    BY <1>1, <2>1, GotoType
       DEF ReadState, TypeOK, flags, specials, session, timer, local
<1>2. CASE Advance(t)
  <2>1. pc' \in [Threads -> Calls \cup LoopPoints \cup {"idle"}]
        /\ \A c \in Clients : pc'[c] \in Calls \cup {"idle"}
    BY <1>2, GotoType, ReturnType DEF Advance, MayAdvance, Calls
  <2>2. elapsed' \in Time
    BY <1>2, QuestAssumption DEF Advance, MayAdvance, PuzzleTimeReset, TypeOK, Time
  <2>3. current' \in 1..END /\ puzzle' \in [1..N -> PuzzleFlags]
    <3>1. \/ current' = current /\ puzzle' = puzzle
          \/ /\ current # END /\ current' = current + 1
             /\ puzzle' = SolveAndStartNext(current)
      BY <1>2 DEF Advance, MayAdvance
    <3>2. \A p \in 1..N : /\ SolvePuzzle(puzzle[p]) \in PuzzleFlags
                          /\ RunPuzzle(puzzle[p]) \in PuzzleFlags
      BY PuzzleTypes DEF TypeOK
    <3>3. SolveAndStartNext(current) \in [1..N -> PuzzleFlags]
      BY <3>2 DEF TypeOK, SolveAndStartNext
    <3> QED
      BY <3>1, <3>3, QuestAssumption DEF TypeOK
  <2> QED
    BY <1>2, <2>1, <2>2, <2>3 DEF Advance, MayAdvance, TypeOK, specials, session, local
<1>3. CASE Off(t)
  <2>1. pc' \in [Threads -> Calls \cup LoopPoints \cup {"idle"}]
        /\ \A c \in Clients : pc'[c] \in Calls \cup {"idle"}
    BY <1>3, GotoType, ReturnType DEF Off, Calls
  <2>2. current' \in 1..END /\ puzzle' \in [1..N -> PuzzleFlags]
    BY <1>3, QuestAssumption, PuzzleTypes DEF Off, TypeOK, AllStopped
  <2> QED
    BY <1>3, <2>1, <2>2
       DEF Off, TypeOK, States, PowerOff, session, timer, local
<1>4. CASE Arm(t)
  <2>1. puzzle' \in [1..N -> PuzzleFlags]
    BY <1>4, PuzzleTypes DEF Arm, TypeOK, AllArmed
  <2> QED
    BY <1>4, <2>1, ReturnType
       DEF Arm, TypeOK, States, specials, session, timer, local
<1>5. CASE Run(t)
  <2>1. CASE loaded /\ N > 0
    <3>1. 1 \in 1..N /\ 1 \in 1..END
      BY <2>1, QuestAssumption
    <3>2. RunPuzzle(puzzle[1]) \in PuzzleFlags
      BY <3>1, PuzzleTypes DEF TypeOK
    <3> QED
      BY <1>5, <2>1, <3>1, <3>2, ReturnType
         DEF Run, TypeOK, States, LightOff, session, timer, local
  <2>2. CASE ~(loaded /\ N > 0)
    <3>1. END \in 1..END
      BY QuestAssumption
    <3> QED
      BY <1>5, <2>2, <3>1, ReturnType
         DEF Run, TypeOK, States, LightOff, session, timer, local
  <2> QED
    BY <2>1, <2>2
<1>6. CASE Stop(t)
  <2>1. current' \in 1..END /\ puzzle' \in [1..N -> PuzzleFlags]
    BY <1>6, QuestAssumption, PuzzleTypes DEF Stop, TypeOK, AllStopped
  <2>2. elapsed' \in Time
    BY <1>6, QuestAssumption DEF Stop, PuzzleTimeReset, TypeOK, Time
  <2> QED
    BY <1>6, <2>1, <2>2, ReturnType
       DEF Stop, TypeOK, States, PowerOn, LightOn, session, local
<1>7. CASE Clear(t)
  <2>1. current' \in 1..END /\ elapsed' \in Time
    BY <1>7, QuestAssumption DEF Clear, NoTime, Time
  <2> QED
    BY <1>7, <2>1, ReturnType DEF Clear, TypeOK, specials, local
<1> QED
  BY <1>1, <1>2, <1>3, <1>4, <1>5, <1>6, <1>7 DEF Call

\* tick() touches nothing but the times, and where it goes from each of its points.
LEMMA TickFrame ==
  ASSUME Ticks
  PROVE  UNCHANGED <<state, current, puzzle, power, light, loaded, isRunning, keys, held>>
BY DEF Ticks, Tick, TickRead, TickReset, TickLoad, TickAdd, TickLoadPuzzle, TickAddPuzzle,
       TickCompare, TickQuest, flags, specials, session

\* The points tick() goes to from l.
TickTo(l) ==
  CASE l = "tick" -> {"tickRead", "nextKey"}
    [] l = "tickRead" -> {"tickLoad", "tickReset"}
    [] l = "tickReset" -> {"nextKey"}
    [] l = "tickLoad" -> {"tickAdd"}
    [] l = "tickAdd" -> {"tickLoadPuzzle"}
    [] l = "tickLoadPuzzle" -> {"tickAddPuzzle"}
    [] l = "tickAddPuzzle" -> {"tickCompare"}
    [] l = "tickCompare" -> {"next", "tickQuest", "crashed"}
    [] l = "tickQuest" -> {"stop", "nextKey"}
    [] OTHER -> {}

LEMMA TickMoves ==
  ASSUME TypeOK, Ticks
  PROVE  /\ pc[Main] \in TickPoints
         /\ pc'[Main] \in TickTo(pc[Main])
         /\ \E l \in (Calls \cup LoopPoints) \ {"left"} : Goto(Main, l)
         /\ ret' \in {ret, "tickQuest", "nextKey"}
         /\ pc[Main] = "tickCompare" => ret' = "tickQuest"
         /\ pc[Main] = "tickQuest" => ret' = "nextKey"
<1>1. \E l \in TickTo(pc[Main]) : Goto(Main, l)
  <2>1. CASE Tick \/ TickRead \/ TickReset \/ TickLoad \/ TickAdd \/ TickLoadPuzzle \/ TickAddPuzzle
    BY <2>1 DEF Tick, TickRead, TickReset, TickLoad, TickAdd, TickLoadPuzzle, TickAddPuzzle,
                TickTo
  <2>2. CASE TickCompare
    <3>1. \E l \in {"next", "tickQuest", "crashed"} : Goto(Main, l)
      <4>1. CASE current # END
        BY <2>2, <4>1 DEF TickCompare
      <4>2. CASE current = END
        BY <2>2, <4>2 DEF TickCompare
      <4> QED
        BY <4>1, <4>2
    <3> QED
      BY <2>2, <3>1 DEF TickCompare, TickTo
  <2>3. CASE TickQuest
    BY <2>3 DEF TickQuest, TickTo
  <2> QED
    BY <2>1, <2>2, <2>3 DEF Ticks
<1>2. TickTo(pc[Main]) \subseteq (Calls \cup LoopPoints) \ {"left"}
  BY DEF TickTo, Calls, LoopPoints, TickPoints
<1>3. pc'[Main] \in TickTo(pc[Main])
  BY <1>1 DEF Goto, TypeOK, Threads
<1>4. /\ pc[Main] \in TickPoints /\ ret' \in {ret, "tickQuest", "nextKey"}
      /\ pc[Main] = "tickCompare" => ret' = "tickQuest"
      /\ pc[Main] = "tickQuest" => ret' = "nextKey"
  BY DEF Ticks, Tick, TickRead, TickReset, TickLoad, TickAdd, TickLoadPuzzle, TickAddPuzzle,
         TickCompare, TickQuest, TickPoints, flags, timer
<1> QED
  BY <1>1, <1>2, <1>3, <1>4

\* The times and the register keep their types.
LEMMA TickTimes ==
  ASSUME TypeOK, Ticks
  PROVE  /\ elapsed' \in Time
         /\ interval' \in Intervals \cup {0}
         /\ seen' \in 0..TimeCap
<1>1. Plus(seen, interval) \in 0..TimeCap /\ 0 \in 0..TimeCap /\ NoTime \in Time
  <2>1. seen \in Nat /\ interval \in Nat /\ TimeCap \in Nat
    BY QuestAssumption DEF TypeOK
  <2> QED
    BY <2>1 DEF Plus, NoTime, Time
<1>2. elapsed \in Time /\ elapsed.quest \in 0..TimeCap /\ elapsed.puzzle \in 0..TimeCap
      /\ seen \in 0..TimeCap /\ interval \in Intervals \cup {0}
  BY DEF TypeOK, Time
<1>3. CASE TickAdd
  BY <1>1, <1>2, <1>3 DEF TickAdd, Time, local
<1>4. CASE TickAddPuzzle
  BY <1>1, <1>2, <1>4 DEF TickAddPuzzle, Time
<1>5. CASE Ticks /\ ~TickAdd /\ ~TickAddPuzzle
  BY <1>1, <1>2, <1>5 DEF Ticks, Tick, TickRead, TickReset, TickLoad, TickLoadPuzzle,
                          TickCompare, TickQuest, timer, local
<1> QED
  BY <1>3, <1>4, <1>5

\* One pass of loop() keeps the types.
LEMMA LoopType ==
  ASSUME TypeOK, Loop
  PROVE  TypeOK'
<1> USE DEF TypeOK, flags, specials, session, timer, local
<1>1. CASE While
  <2>1. \E l \in Calls \cup LoopPoints : Goto(Main, l)
    BY <1>1 DEF While, LoopsOn, Calls, LoopPoints, TickPoints
  <2> QED
    BY <1>1, <2>1, MainGotoType DEF While, LoopsOn, ReturnPoints
<1>2. CASE EnterExpired \/ EnterEarly
  <2>1. \E l \in LoopPoints : Goto(Main, l)
    BY <1>2 DEF EnterExpired, EnterEarly, LoopPoints, TickPoints
  <2> QED
    BY <1>2, <2>1, MainGotoType DEF EnterExpired, EnterEarly
<1>3. CASE Ticks
  BY <1>3, TickFrame, TickMoves, TickTimes, MainGotoType DEF ReturnPoints
<1>4. CASE PollNextKey
  <2>1. \E l \in Calls \cup LoopPoints : Goto(Main, l)
    BY <1>4 DEF PollNextKey, Calls, LoopPoints, TickPoints
  <2>2. ret' \in ReturnPoints
    BY <1>4 DEF PollNextKey, ReturnPoints
  <2>3. keys' \in [next : BOOLEAN, power : BOOLEAN, light : BOOLEAN]
    BY <1>4 DEF PollNextKey
  <2>4. held' \in BOOLEAN
    BY <1>4 DEF PollNextKey
  <2> QED
    BY <1>4, <2>1, <2>2, <2>3, <2>4, MainGotoType DEF PollNextKey
<1>5. CASE PollPowerKey
  <2>1. \E l \in LoopPoints : Goto(Main, l)
    BY <1>5 DEF PollPowerKey, LoopPoints, TickPoints
  <2>2. keys' \in [next : BOOLEAN, power : BOOLEAN, light : BOOLEAN]
    BY <1>5 DEF PollPowerKey
  <2>3. held' \in BOOLEAN
    BY <1>5 DEF PollPowerKey
  <2> QED
    BY <1>5, <2>1, <2>2, <2>3, MainGotoType DEF PollPowerKey
<1>6. CASE PowerRead
  <2>1. \E l \in Calls : Goto(Main, l)
    BY <1>6 DEF PowerRead, Calls
  <2> QED
    BY <1>6, <2>1, MainGotoType DEF PowerRead, ReturnPoints
<1>7. CASE PollLightKey
  <2>1. \E l \in LoopPoints : Goto(Main, l)
    BY <1>7 DEF PollLightKey, LoopPoints, TickPoints
  <2>2. keys' \in [next : BOOLEAN, power : BOOLEAN, light : BOOLEAN]
        /\ light' \in BOOLEAN
    BY <1>7 DEF PollLightKey
  <2> QED
    BY <1>7, <2>1, <2>2, MainGotoType DEF PollLightKey
<1>8. CASE PollCurrent
  <2>1. \E l \in Calls \cup LoopPoints : Goto(Main, l)
    BY <1>8 DEF PollCurrent, Calls, LoopPoints, TickPoints
  <2>2. puzzle' \in [1..N -> PuzzleFlags]
    <3>1. CASE current = END
      BY <1>8, <3>1 DEF PollCurrent
    <3>2. CASE current # END
      <4>1. PICK test \in BOOLEAN :
              puzzle' = [puzzle EXCEPT ![current] = LoopPuzzle(@, test)]
        BY <1>8, <3>2 DEF PollCurrent
      <4>2. current \in 1..N
        BY <3>2, QuestAssumption
      <4>3. LoopPuzzle(puzzle[current], test) \in PuzzleFlags
        BY <4>2, PuzzleTypes
      <4> QED
        BY <4>1, <4>2, <4>3
    <3> QED
      BY <3>1, <3>2
  <2>3. ret' \in ReturnPoints
    BY <1>8 DEF PollCurrent, ReturnPoints
  <2> QED
    BY <1>8, <2>1, <2>2, <2>3, MainGotoType DEF PollCurrent
<1> QED
  BY <1>1, <1>2, <1>3, <1>4, <1>5, <1>6, <1>7, <1>8
     DEF Loop

\* The requests and the signal keep the types.
LEMMA RequestType ==
  ASSUME TypeOK,
         \/ \E c \in Clients : SetState(c) \/ NextMethod(c) \/ SetScript(c)
         \/ SigStop
  PROVE  TypeOK'
<1> USE DEF TypeOK, flags, specials, session, timer, local
<1>1. ASSUME NEW c \in Clients, SetState(c) \/ NextMethod(c) \/ SetScript(c)
      PROVE  TypeOK'
  <2>1. \E l \in Calls : Goto(c, l)
    BY <1>1 DEF SetState, NextMethod, SetScript, Calls
  <2> QED
    BY <1>1, <2>1, GotoType DEF SetState, NextMethod, SetScript, Threads
<1>2. CASE SigStop
  BY <1>2 DEF SigStop
<1> QED
  BY <1>1, <1>2

\* A quest that has just been loaded has the types, and every step keeps them.
LEMMA InitType == Init => TypeOK
<1> SUFFICES ASSUME Init PROVE TypeOK
  OBVIOUS
<1>1. current \in 1..END /\ puzzle \in [1..N -> PuzzleFlags]
  BY QuestAssumption DEF Init, StoppedPuzzle, PuzzleFlags
<1>2. elapsed \in Time /\ interval \in Intervals \cup {0} /\ seen \in 0..TimeCap
  BY QuestAssumption DEF Init, NoTime, Time
<1>3. /\ pc \in [Threads -> Calls \cup LoopPoints \cup {"idle"}]
      /\ \A c \in Clients : pc[c] \in Calls \cup {"idle"}
  BY QuestAssumption DEF Init, Threads, Calls, LoopPoints, TickPoints
<1> QED
  BY <1>1, <1>2, <1>3 DEF Init, TypeOK, States, ReturnPoints

LEMMA TypeStep ==
  ASSUME TypeOK, [Next]_vars
  PROVE  TypeOK'
<1>1. CASE \E t \in Threads : Call(t)
  BY <1>1, CallType
<1>2. CASE Loop
  BY <1>2, LoopType
<1>3. CASE \/ \E c \in Clients : SetState(c) \/ NextMethod(c) \/ SetScript(c)
           \/ SigStop
  BY <1>3, RequestType
<1>4. CASE UNCHANGED vars
  BY <1>4 DEF vars, flags, specials, session, timer, local, TypeOK
<1> QED
  BY <1>1, <1>2, <1>3, <1>4 DEF Next, Dead

\* The type invariant: whatever the threads do, _currentPuzzle stays an element
\* of _puzzles or end() (no step past end()), and every flag and time its type.
THEOREM TypeCorrect == Spec => []TypeOK
BY InitType, TypeStep, PTL DEF Spec

-----------------------------------------------------------------------------
(***************************************************************************)
(* The steps that write the flags of the quest, and the rest, for which    *)
(* every invariant below is a frame condition.                             *)
(***************************************************************************)
Writes(t) == \/ Advance(t) \/ Off(t) \/ Arm(t) \/ Run(t) \/ Stop(t) \/ Clear(t)

LEMMA Frame ==
  ASSUME [Next]_vars
  PROVE  \/ \E t \in Threads : Writes(t)
         \/ PollCurrent
         \/ UNCHANGED <<state, current, puzzle, loaded>>
<1> USE DEF flags, session
<1>1. CASE \E t \in Threads : Call(t)
  BY <1>1 DEF Call, Writes, ReadState
<1>2. CASE Loop
  BY <1>2, TickFrame DEF Loop, While, LoopsOn, EnterExpired, EnterEarly,
     PollNextKey, PollPowerKey, PowerRead, PollLightKey
<1>3. CASE \/ \E c \in Clients : SetState(c) \/ NextMethod(c) \/ SetScript(c)
           \/ SigStop
  BY <1>3 DEF SetState, NextMethod, SetScript, SigStop
<1>4. CASE UNCHANGED vars
  BY <1>4 DEF vars
<1> QED
  BY <1>1, <1>2, <1>3, <1>4 DEF Next, Dead

\* While the quest is OFF or STOPped no puzzle is in play (off(), stop() against
\* every interleaving with next(), arm(), run() and the polling of sensors).
LEMMA QuietStep ==
  ASSUME TypeOK, QuietPuzzles, [Next]_vars
  PROVE  QuietPuzzles'
<1> USE DEF QuietPuzzles
<1>1. ASSUME NEW t \in Threads, Advance(t) PROVE QuietPuzzles'
  BY <1>1 DEF Advance, MayAdvance, TypeOK, States, session
<1>2. ASSUME NEW t \in Threads, Off(t) PROVE QuietPuzzles'
  BY <1>2 DEF Off, AllStopped, StopPuzzle, session
<1>3. ASSUME NEW t \in Threads, Arm(t) PROVE QuietPuzzles'
  BY <1>3 DEF Arm, session
<1>4. ASSUME NEW t \in Threads, Run(t) PROVE QuietPuzzles'
  BY <1>4 DEF Run, session
<1>5. ASSUME NEW t \in Threads, Stop(t) PROVE QuietPuzzles'
  BY <1>5 DEF Stop, AllStopped, StopPuzzle, session
<1>6. ASSUME NEW t \in Threads, Clear(t) PROVE QuietPuzzles'
  BY <1>6 DEF Clear
<1>7. CASE PollCurrent
  BY <1>7 DEF PollCurrent, session
<1>8. CASE UNCHANGED <<state, current, puzzle, loaded>>
  BY <1>8
<1> QED
  BY <1>1, <1>2, <1>3, <1>4, <1>5, <1>6, <1>7, <1>8, Frame DEF Writes

THEOREM QuietCorrect == Spec => []QuietPuzzles
<1>1. Init => QuietPuzzles
  BY DEF Init, QuietPuzzles
<1> QED
  BY <1>1, QuietStep, TypeCorrect, PTL DEF Spec

-----------------------------------------------------------------------------
\* While the quest RUNs everything before the current puzzle is solved (next()
\* against every interleaving of the timer, the keys, the sensors, the web page).
LEMMA PrefixStep ==
  ASSUME TypeOK, PrefixSolved, [Next]_vars
  PROVE  PrefixSolved'
<1> USE DEF PrefixSolved
<1>1. ASSUME NEW t \in Threads, Advance(t) PROVE PrefixSolved'
  <2>1. CASE current = END
    BY <1>1, <2>1 DEF Advance, MayAdvance, session
  <2>2. CASE current # END
    <3>1. current' = current + 1 /\ puzzle' = SolveAndStartNext(current)
      BY <1>1, <2>2 DEF Advance, MayAdvance
    <3> SUFFICES ASSUME state' = "RUN", loaded', NEW p \in 1..N, p < current'
                 PROVE  puzzle'[p].solved
      OBVIOUS
    <3>2. state = "RUN" /\ loaded
      BY <1>1 DEF Advance, MayAdvance, session
    <3>3. CASE p = current
      BY <3>1, <3>3, PuzzleTypes DEF TypeOK, SolveAndStartNext
    <3>4. CASE p < current
      BY <3>1, <3>2, <3>4 DEF TypeOK, SolveAndStartNext
    <3> QED
      BY <3>1, <3>3, <3>4 DEF TypeOK
  <2> QED
    BY <2>1, <2>2
<1>2. ASSUME NEW t \in Threads, Off(t) \/ Arm(t) \/ Stop(t) \/ Clear(t)
      PROVE  PrefixSolved'
  BY <1>2 DEF Off, Arm, Stop, Clear
<1>3. ASSUME NEW t \in Threads, Run(t) PROVE PrefixSolved'
  BY <1>3, QuestAssumption DEF Run, session
<1>4. CASE PollCurrent
  <2>1. CASE current = END
    BY <1>4, <2>1 DEF PollCurrent, session
  <2>2. CASE current # END
    <3>1. PICK test \in BOOLEAN :
            puzzle' = [puzzle EXCEPT ![current] = LoopPuzzle(@, test)]
      BY <1>4, <2>2 DEF PollCurrent
    <3> QED
      BY <1>4, <3>1, PuzzleTypes DEF PollCurrent, TypeOK, session
  <2> QED
    BY <2>1, <2>2
<1>5. CASE UNCHANGED <<state, current, puzzle, loaded>>
  BY <1>5
<1> QED
  BY <1>1, <1>2, <1>3, <1>4, <1>5, Frame DEF Writes

THEOREM PrefixCorrect == Spec => []PrefixSolved
<1>1. Init => PrefixSolved
  BY DEF Init, PrefixSolved
<1> QED
  BY <1>1, PrefixStep, TypeCorrect, PTL DEF Spec

-----------------------------------------------------------------------------
\* While the quest RUNs its current puzzle has been run() until it is solved.
LEMMA StartedStep ==
  ASSUME TypeOK, CurrentStarted, [Next]_vars
  PROVE  CurrentStarted'
<1> USE DEF CurrentStarted
<1>1. ASSUME NEW t \in Threads, Advance(t) PROVE CurrentStarted'
  <2>1. CASE current = END
    BY <1>1, <2>1 DEF Advance, MayAdvance
  <2>2. CASE current # END
    <3>1. current' = current + 1 /\ puzzle' = SolveAndStartNext(current)
      BY <1>1, <2>2 DEF Advance, MayAdvance
    <3> SUFFICES ASSUME current' # END
                 PROVE  puzzle'[current'].running
      OBVIOUS
    <3>2. current' \in 1..N /\ current' # current
      BY <2>2, <3>1, QuestAssumption DEF TypeOK
    <3>3. puzzle'[current'] = RunPuzzle(puzzle[current'])
      BY <3>1, <3>2 DEF SolveAndStartNext
    <3> QED
      BY <3>2, <3>3, PuzzleTypes DEF TypeOK
  <2> QED
    BY <2>1, <2>2
<1>2. ASSUME NEW t \in Threads, Off(t) \/ Arm(t) \/ Stop(t) \/ Clear(t)
      PROVE  CurrentStarted'
  BY <1>2 DEF Off, Arm, Stop, Clear
<1>3. ASSUME NEW t \in Threads, Run(t) PROVE CurrentStarted'
  BY <1>3, PuzzleTypes, QuestAssumption DEF Run, TypeOK
<1>4. CASE PollCurrent
  <2>1. CASE current = END
    BY <1>4, <2>1 DEF PollCurrent
  <2>2. CASE current # END
    <3>1. PICK test \in BOOLEAN :
            puzzle' = [puzzle EXCEPT ![current] = LoopPuzzle(@, test)]
      BY <1>4, <2>2 DEF PollCurrent
    <3>2. current \in 1..N
      BY <2>2, QuestAssumption DEF TypeOK
    <3>3. puzzle'[current] = LoopPuzzle(puzzle[current], test)
      BY <3>1, <3>2 DEF TypeOK
    <3>4. puzzle[current] \in PuzzleFlags
      BY <3>2 DEF TypeOK
    <3>5. puzzle'[current] = puzzle[current] \/ puzzle'[current].solved
      BY <3>3, <3>4, PuzzleTypes
    <3> QED
      BY <1>4, <3>5 DEF PollCurrent
  <2> QED
    BY <2>1, <2>2
<1>5. CASE UNCHANGED <<state, current, puzzle, loaded>>
  BY <1>5
<1> QED
  BY <1>1, <1>2, <1>3, <1>4, <1>5, Frame DEF Writes

THEOREM StartedCorrect == Spec => []CurrentStarted
<1>1. Init => CurrentStarted
  BY DEF Init, CurrentStarted
<1> QED
  BY <1>1, StartedStep, TypeCorrect, PTL DEF Spec

-----------------------------------------------------------------------------
\* The relay follows the state at its two ends, for a loaded quest.
LEMMA PowerStep ==
  ASSUME TypeOK, PowerFollowsState, [Next]_vars
  PROVE  PowerFollowsState'
<1> USE DEF PowerFollowsState, specials, session
<1>1. ASSUME NEW t \in Threads, Call(t) PROVE PowerFollowsState'
  <2>1. CASE Advance(t) \/ Arm(t) \/ ReadState(t) \/ Clear(t)
    BY <2>1 DEF Advance, MayAdvance, Arm, ReadState, Clear, flags
  <2>2. CASE Off(t)
    BY <2>2 DEF Off, PowerOff
  <2>3. CASE Stop(t)
    BY <2>3 DEF Stop, PowerOn, LightOn
  <2>4. CASE Run(t)
    BY <2>4 DEF Run
  <2> QED
    BY <1>1, <2>1, <2>2, <2>3, <2>4 DEF Call
<1>2. CASE Loop
  BY <1>2, TickFrame DEF Loop, While, LoopsOn, EnterExpired, EnterEarly,
              PollNextKey, PollPowerKey, PowerRead, PollLightKey,
              PollCurrent, flags
<1>3. CASE \/ \E c \in Clients : SetState(c) \/ NextMethod(c) \/ SetScript(c)
           \/ SigStop
  BY <1>3 DEF SetState, NextMethod, SetScript, SigStop, flags
<1>4. CASE UNCHANGED vars
  BY <1>4 DEF vars, flags
<1> QED
  BY <1>1, <1>2, <1>3, <1>4 DEF Next, Dead

THEOREM PowerCorrect == Spec => []PowerFollowsState
<1>1. Init => PowerFollowsState
  BY DEF Init, PowerFollowsState
<1> QED
  BY <1>1, PowerStep, TypeCorrect, PTL DEF Spec

-----------------------------------------------------------------------------
\* What SolvedInOrder says of one step.
InOrder ==
  state = "RUN" /\ state' = "RUN" =>
    \A p \in 1..N :
      /\ puzzle[p].solved => puzzle'[p].solved
      /\ puzzle'[p].solved /\ ~puzzle[p].solved => p = current

LEMMA OrderStep ==
  ASSUME TypeOK, [Next]_vars
  PROVE  InOrder
<1> SUFFICES ASSUME state = "RUN", state' = "RUN", NEW p \in 1..N
             PROVE  /\ puzzle[p].solved => puzzle'[p].solved
                    /\ puzzle'[p].solved /\ ~puzzle[p].solved => p = current
  BY DEF InOrder
<1> puzzle[p] \in PuzzleFlags
  BY DEF TypeOK
<1>1. ASSUME NEW t \in Threads, Advance(t)
      PROVE  \/ puzzle'[p] = puzzle[p]
             \/ puzzle'[p] = RunPuzzle(puzzle[p])
             \/ p = current /\ puzzle'[p] = SolvePuzzle(puzzle[p])
  <2>1. CASE current = END
    BY <1>1, <2>1 DEF Advance, MayAdvance
  <2>2. CASE current # END
    BY <1>1, <2>2 DEF Advance, MayAdvance, SolveAndStartNext
  <2> QED
    BY <2>1, <2>2
<1>2. ASSUME NEW t \in Threads, Run(t)
      PROVE  puzzle'[p] = puzzle[p] \/ puzzle'[p] = RunPuzzle(puzzle[p])
  BY <1>2 DEF Run, TypeOK
<1>3. CASE PollCurrent
  <2>1. CASE current = END
    BY <1>3, <2>1 DEF PollCurrent
  <2>2. CASE current # END
    <3>1. PICK test \in BOOLEAN :
            puzzle' = [puzzle EXCEPT ![current] = LoopPuzzle(@, test)]
      BY <1>3, <2>2 DEF PollCurrent
    <3> QED
      BY <3>1, PuzzleTypes DEF TypeOK
  <2> QED
    BY <2>1, <2>2
<1>4. ASSUME NEW t \in Threads, Off(t) \/ Arm(t) \/ Stop(t) PROVE FALSE
  BY <1>4 DEF Off, Arm, Stop
<1>5. ASSUME NEW t \in Threads, Clear(t) PROVE puzzle'[p] = puzzle[p]
  BY <1>5 DEF Clear
<1>6. CASE UNCHANGED <<state, current, puzzle, loaded>>
  BY <1>6
<1> QED
  BY <1>1, <1>2, <1>3, <1>4, <1>5, <1>6, PuzzleTypes, Frame DEF Writes

\* While the quest keeps RUNning solved puzzles stay solved and only the current
\* one becomes solved: a property of steps, from TypeOK.
THEOREM OrderCorrect == Spec => SolvedInOrder
<1>1. TypeOK /\ [Next]_vars => [InOrder]_vars
  BY OrderStep
<1> QED
  BY <1>1, TypeCorrect, PTL DEF Spec, SolvedInOrder, InOrder

-----------------------------------------------------------------------------
(***************************************************************************)
(* Where Main is, and how far it has to go.                                *)
(***************************************************************************)

\* A call of Main leads to another one or back to where it came from; a call of
\* a client does not move Main.
LEMMA CallMoves ==
  ASSUME TypeOK, NEW t \in Threads, Call(t)
  PROVE  /\ t # Main => pc'[Main] = pc[Main]
         /\ t = Main => pc[Main] \in Calls /\ pc'[Main] \in Calls \cup {ret}
         /\ ret' = ret /\ held' = held
<1>1. Main \in Threads
  BY DEF Threads
<1>2. /\ pc[t] \in Calls /\ ret' = ret /\ held' = held
      /\ (\E l \in Calls : Goto(t, l)) \/ Return(t)
  BY DEF Call, ReadState, Advance, MayAdvance, Off, Arm, Run, Stop, Clear, Calls, timer, local
<1> QED
  BY <1>1, <1>2 DEF Goto, Return, TypeOK

\* A step that is neither a call nor a step of loop() does not move Main.
LEMMA RequestMoves ==
  ASSUME TypeOK,
         \/ \E c \in Clients : SetState(c) \/ NextMethod(c) \/ SetScript(c)
         \/ SigStop
  PROVE  UNCHANGED <<pc[Main], ret, held, elapsed, interval, seen>>
BY QuestAssumption DEF SetState, NextMethod, SetScript, SigStop, Goto, Threads, TypeOK, timer, local

\* What tick() has loaded of the quest's time is not behind the quest's time: in
\* between only stopQuest() writes that one, and it writes 0.
ClockInv ==
  /\ pc[Main] = "tickAdd" => seen >= elapsed.quest
  /\ pc[Main] \in TickPoints \ {"tickCompare", "tickQuest"} => interval > 0

\* A call of any thread resets the quest's time or leaves it.
LEMMA CallClock ==
  ASSUME TypeOK, NEW t \in Threads, Call(t)
  PROVE  /\ seen' = seen /\ interval' = interval
         /\ elapsed'.quest = elapsed.quest \/ (elapsed'.quest = 0 /\ ~loaded')
BY DEF Call, ReadState, Advance, MayAdvance, Off, Arm, Run, Stop, Clear, timer, local,
       PuzzleTimeReset, NoTime, TypeOK, Time

LEMMA ClockStep ==
  ASSUME TypeOK, ClockInv, [Next]_vars
  PROVE  ClockInv'
<1>0. elapsed.quest \in Nat /\ seen \in Nat /\ \A i \in Intervals : i \in Nat /\ i > 0
  BY QuestAssumption DEF TypeOK, Time
<1>1. ASSUME NEW t \in Threads, Call(t) PROVE ClockInv'
  <2>1. pc'[Main] \in TickPoints \ {"tickCompare", "tickQuest"} => pc'[Main] = pc[Main]
    BY <1>1, CallMoves DEF TypeOK, Calls, ReturnPoints, TickPoints
  <2>2. pc'[Main] = "tickAdd" => pc[Main] = "tickAdd"
    BY <2>1 DEF TickPoints
  <2> QED
    BY <1>0, <1>1, <2>1, <2>2, CallClock DEF ClockInv
<1>2. CASE Ticks
  <2>1. /\ pc[Main] \in TickPoints
        /\ pc'[Main] \in TickTo(pc[Main])
    BY <1>2, TickMoves
  <2>2. ASSUME pc'[Main] = "tickAdd" PROVE seen' >= elapsed'.quest
    <3>1. pc[Main] = "tickLoad"
      BY <2>1, <2>2 DEF TickTo
    <3>2. TickLoad
      BY <1>2, <3>1 DEF Ticks, Tick, TickRead, TickReset, TickAdd, TickLoadPuzzle,
         TickAddPuzzle, TickCompare, TickQuest
    <3> QED
      BY <1>0, <3>2 DEF TickLoad
  <2>3. ASSUME pc'[Main] \in TickPoints \ {"tickCompare", "tickQuest"} PROVE interval' > 0
    <3>1. pc[Main] \in TickPoints \ {"tickCompare", "tickQuest", "tickReset", "tickAddPuzzle"}
      BY <2>1, <2>3 DEF TickTo, TickPoints
    <3>2. interval' = interval
      BY <1>2, <2>3, <3>1, <2>1 DEF Ticks, Tick, TickRead, TickReset, TickLoad, TickAdd,
         TickLoadPuzzle, TickAddPuzzle, TickCompare, TickQuest, timer, local, TickPoints, Goto,
         TypeOK, Threads
    <3> QED
      BY <3>1, <3>2 DEF ClockInv
  <2> QED
    BY <2>2, <2>3 DEF ClockInv
<1>3. CASE EnterExpired
  <2>1. pc'[Main] = "tick"
    BY <1>3 DEF EnterExpired, Goto, TypeOK, Threads
  <2> QED
    BY <1>0, <1>3, <2>1 DEF EnterExpired, ClockInv
<1>4. CASE Loop /\ ~Ticks /\ ~EnterExpired
  <2>1. \E l \in (Calls \cup LoopPoints) \ TickPoints : Goto(Main, l)
    BY <1>4 DEF Loop, While, EnterEarly, PollNextKey, PollPowerKey, PowerRead,
         PollLightKey, PollCurrent, Calls, LoopPoints, TickPoints
  <2>2. pc'[Main] \notin TickPoints
    BY <2>1 DEF Goto, TypeOK, Threads
  <2> QED
    BY <2>2 DEF ClockInv, TickPoints
<1>5. CASE \/ \E c \in Clients : SetState(c) \/ NextMethod(c) \/ SetScript(c)
           \/ SigStop
  BY <1>5, RequestMoves DEF ClockInv
<1>6. CASE UNCHANGED vars
  BY <1>6 DEF vars, timer, local, ClockInv
<1> QED
  BY <1>1, <1>2, <1>3, <1>4, <1>5, <1>6 DEF Next, Dead

\* What ClockForward says of one step.
Forward ==
  state = "RUN" /\ state' = "RUN" /\ loaded' =>
    /\ \/ elapsed'.quest >= elapsed.quest
       \/ pc[Main] = "tickReset" /\ pc'[Main] # "tickReset"
    /\ pc[Main] = "tickAdd" /\ pc'[Main] # "tickAdd" =>
         elapsed'.quest > elapsed.quest \/ elapsed'.quest = TimeCap

LEMMA ForwardStep ==
  ASSUME TypeOK, ClockInv, [Next]_vars
  PROVE  Forward
<1>1. elapsed.quest \in 0..TimeCap /\ seen \in 0..TimeCap /\ TimeCap \in Nat
      /\ interval \in Nat
  BY QuestAssumption DEF TypeOK, Time
<1>2. ASSUME NEW t \in Threads, Call(t), loaded'
      PROVE  elapsed'.quest = elapsed.quest
             /\ (pc[Main] = "tickAdd" => pc'[Main] = "tickAdd")
  BY <1>2, CallClock, CallMoves DEF Calls
<1>3. CASE TickAdd
  <2>1. elapsed'.quest = Plus(seen, interval)
    BY <1>3 DEF TickAdd, TypeOK, Time
  <2>2. seen >= elapsed.quest /\ interval > 0
    BY <1>3 DEF TickAdd, ClockInv, TickPoints
  <2>3. /\ elapsed'.quest >= elapsed.quest
        /\ elapsed'.quest > elapsed.quest \/ elapsed'.quest = TimeCap
    BY <1>1, <2>1, <2>2 DEF Plus
  <2> QED
    BY <2>3 DEF Forward
<1>4. CASE TickReset
  BY <1>4, TickMoves DEF Ticks, TickReset, TickTo, Forward
<1>5. CASE Ticks /\ ~TickAdd /\ ~TickReset
  <2>1. elapsed'.quest = elapsed.quest /\ pc[Main] # "tickAdd"
    BY <1>5 DEF Ticks, Tick, TickRead, TickLoad, TickLoadPuzzle, TickAddPuzzle, TickCompare,
         TickQuest, timer, TypeOK, Time
  <2> QED
    BY <1>1, <2>1 DEF Forward
<1>6. CASE Loop /\ ~Ticks
  <2>1. elapsed' = elapsed /\ pc[Main] # "tickAdd"
    BY <1>6 DEF Loop, While, EnterExpired, EnterEarly,
         PollNextKey, PollPowerKey, PowerRead, PollLightKey, PollCurrent, timer, flags
  <2> QED
    BY <1>1, <2>1 DEF Forward
<1>7. CASE \/ \E c \in Clients : SetState(c) \/ NextMethod(c) \/ SetScript(c)
           \/ SigStop
  BY <1>1, <1>7, RequestMoves DEF Forward
<1>8. CASE UNCHANGED vars
  BY <1>1, <1>8 DEF vars, timer, Forward
<1>9. ASSUME NEW t \in Threads, Call(t) PROVE Forward
  BY <1>1, <1>2, <1>9 DEF Forward
<1> QED
  BY <1>3, <1>4, <1>5, <1>6, <1>7, <1>8, <1>9 DEF Next, Dead

\* While a loaded quest keeps RUNning its time goes on, tick by tick; only a tick
\* that had met it in another state puts it back.
THEOREM ClockCorrect == Spec => ClockForward
<1>1. Init => ClockInv
  BY DEF Init, ClockInv, Threads, TickPoints
<1>2. TypeOK /\ ClockInv /\ [Next]_vars => [Forward]_vars
  BY ForwardStep
<1> QED
  BY <1>1, <1>2, ClockStep, TypeCorrect, PTL DEF Spec, ClockForward, Forward

-----------------------------------------------------------------------------
(***************************************************************************)
(* The way out of loop().                                                  *)
(***************************************************************************)

\* The parts of loop() that run under the lock.
Polls == {"nextKey", "powerKey", "lightKey", "current"}

\* The lock that Main keeps from one part of loop() to the next it keeps only
\* there: it has given it back before it calls anything that takes it, and
\* before it leaves.
KeepsOnlyToPoll == held => pc[Main] \in Polls

LEMMA KeepStep ==
  ASSUME TypeOK, KeepsOnlyToPoll, [Next]_vars
  PROVE  KeepsOnlyToPoll'
<1> USE DEF KeepsOnlyToPoll, Polls
<1>1. ASSUME NEW t \in Threads, Call(t) PROVE KeepsOnlyToPoll'
  BY <1>1, CallMoves DEF Calls
<1>2. CASE Ticks
  BY <1>2, TickFrame, TickMoves DEF TickPoints
<1>5. CASE Loop /\ ~Ticks
  BY <1>5, QuestAssumption
     DEF Loop, While, EnterExpired, EnterEarly,
         PollNextKey, PollPowerKey, PowerRead, PollLightKey, PollCurrent, Goto, Threads, TypeOK
<1>3. CASE \/ \E c \in Clients : SetState(c) \/ NextMethod(c) \/ SetScript(c)
           \/ SigStop
  BY <1>3, RequestMoves
<1>4. CASE UNCHANGED vars
  BY <1>4 DEF vars
<1> QED
  BY <1>1, <1>2, <1>3, <1>4, <1>5 DEF Next, Dead

\* Main never waits for a lock it has itself (_currentPuzzleLock is not recursive).
THEOREM NoSelfDeadlock == Spec => [](pc[Main] \in Calls => ~held)
<1>1. Init => KeepsOnlyToPoll
  BY DEF Init, KeepsOnlyToPoll
<1>2. KeepsOnlyToPoll => (pc[Main] \in Calls => ~held)
  BY DEF KeepsOnlyToPoll, Polls, Calls
<1> QED
  BY <1>1, <1>2, KeepStep, TypeCorrect, PTL DEF Spec

\* How far each place of Main is from the end of loadQuest(), by the order of the
\* code: a pass of loop() goes down, and `while' goes up to the next pass.
Place(l) ==
  CASE l = "enter" -> 46 [] l = "tick" -> 45 [] l = "tickRead" -> 44
    [] l = "tickLoad" -> 43 [] l = "tickAdd" -> 42
    [] l = "tickLoadPuzzle" -> 41 [] l = "tickAddPuzzle" -> 40
    [] l = "tickCompare" -> 39 [] l = "tickQuest" -> 35 [] l = "tickReset" -> 31
    [] l = "nextKey" -> 30 [] l = "powerKey" -> 25
    [] l = "powerRead" -> 20 [] l = "lightKey" -> 15 [] l = "current" -> 10
    [] l = "while" -> 5 [] OTHER -> 0

\* ... and each part of a call from the return.
CallPlace(l) ==
  CASE l = "next" -> 3 [] l \in {"advance", "arm", "run", "stopQuest"} -> 2 [] OTHER -> 1

StepsLeft == IF pc[Main] \in Calls THEN Place(ret) + CallPlace(pc[Main]) ELSE Place(pc[Main])

\* A call of loop() returns below the place it was made from.
LEMMA StepsBound == TypeOK => StepsLeft \in 0..46
<1>1. \A l : Place(l) \in 0..46 /\ CallPlace(l) \in 1..3
  BY DEF Place, CallPlace
<1>2. TypeOK => Place(ret) \in 0..35
  BY DEF TypeOK, ReturnPoints, Place
<1> QED
  BY <1>1, <1>2 DEF StepsLeft

\* Whatever Main does, except to begin another pass, brings it nearer.
LEMMA MainNearer ==
  ASSUME TypeOK, Loop \/ Call(Main), ~(While /\ isRunning)
  PROVE  StepsLeft' < StepsLeft
<1> USE DEF StepsLeft, Place, CallPlace, Calls, ReturnPoints
<1>0. Main \in Threads /\ ret \in ReturnPoints /\ pc \in [Threads -> Calls \cup LoopPoints \cup {"idle"}]
  BY DEF Threads, TypeOK
<1>1. CASE Call(Main)
  <2>1. ret' = ret
    BY <1>0, <1>1, CallMoves
  <2>2. \/ pc[Main] = "next" /\ pc'[Main] \in {"arm", "run", "advance"}
        \/ pc[Main] = "advance" /\ pc'[Main] = "stop"
        \/ pc[Main] = "stopQuest" /\ pc'[Main] = "clear"
        \/ pc'[Main] = ret
    BY <1>0, <1>1 DEF Call, ReadState, Advance, MayAdvance, Off, Arm, Run, Stop, Clear, Goto, Return
  <2>3. pc[Main] \in Calls
    BY <1>1 DEF Call, ReadState, Advance, Off, Arm, Run, Stop, Clear
  <2> QED
    BY <1>0, <2>1, <2>2, <2>3
<1>2. CASE Loop /\ ~Ticks
  <2>1. \/ pc[Main] = "while" /\ pc'[Main] = "stopQuest" /\ ret' = "left"
        \/ pc[Main] = "enter" /\ pc'[Main] \in {"tick", "nextKey"}
        \/ pc[Main] = "nextKey" /\ (pc'[Main] = "powerKey" \/ (pc'[Main] = "next" /\ ret' = "powerKey"))
        \/ pc[Main] = "powerKey" /\ pc'[Main] \in {"powerRead", "lightKey"}
        \/ pc[Main] = "powerRead" /\ pc'[Main] \in {"off", "stop"} /\ ret' = "lightKey"
        \/ pc[Main] = "lightKey" /\ pc'[Main] = "current"
        \/ pc[Main] = "current" /\ (pc'[Main] = "while" \/ (pc'[Main] = "next" /\ ret' = "while"))
    <3>1. CASE While
      <4>1. ~isRunning
        BY <3>1
      <4> QED
        BY <1>0, <3>1, <4>1 DEF While, LoopsOn, Goto
    <3>2. CASE EnterExpired \/ EnterEarly
      BY <1>0, <3>2 DEF EnterExpired, EnterEarly, Goto
    <3>3. ASSUME PollNextKey
          PROVE  /\ pc[Main] = "nextKey"
                 /\ pc'[Main] = "powerKey" \/ (pc'[Main] = "next" /\ ret' = "powerKey")
      <4>1. pc[Main] = "nextKey"
        BY <3>3 DEF PollNextKey
      <4>2. Goto(Main, "powerKey") \/ (Goto(Main, "next") /\ ret' = "powerKey")
        BY <3>3 DEF PollNextKey
      <4> QED
        BY <1>0, <4>1, <4>2 DEF Goto
    <3>4. ASSUME PollPowerKey
          PROVE  pc[Main] = "powerKey" /\ pc'[Main] \in {"powerRead", "lightKey"}
      BY <1>0, <3>4 DEF PollPowerKey, Goto
    <3>5. ASSUME PowerRead
          PROVE  pc[Main] = "powerRead" /\ pc'[Main] \in {"off", "stop"} /\ ret' = "lightKey"
      BY <1>0, <3>5 DEF PowerRead, Goto
    <3>6. ASSUME PollLightKey
          PROVE  pc[Main] = "lightKey" /\ pc'[Main] = "current"
      BY <1>0, <3>6 DEF PollLightKey, Goto
    <3>7. ASSUME PollCurrent
          PROVE  /\ pc[Main] = "current"
                 /\ pc'[Main] = "while" \/ (pc'[Main] = "next" /\ ret' = "while")
      <4>1. pc[Main] = "current"
        BY <3>7 DEF PollCurrent
      <4>2. Goto(Main, "while") \/ (Goto(Main, "next") /\ ret' = "while")
        BY <3>7 DEF PollCurrent
      <4> QED
        BY <1>0, <4>1, <4>2 DEF Goto
    <3> QED
      BY <1>2, <3>1, <3>2, <3>3, <3>4, <3>5, <3>6, <3>7 DEF Loop
  <2> QED
    BY <2>1
<1>3. CASE Ticks
  <2>1. /\ pc[Main] \in TickPoints /\ pc'[Main] \in TickTo(pc[Main])
        /\ pc[Main] = "tickCompare" => ret' = "tickQuest"
        /\ pc[Main] = "tickQuest" => ret' = "nextKey"
    BY <1>3, TickMoves
  <2> QED
    BY <2>1 DEF TickPoints, TickTo
<1> QED
  BY <1>1, <1>2, <1>3

\* Main is always somewhere in loadQuest(), and has no steps left only at its end.
InPlace == pc[Main] \in Calls \cup LoopPoints

LEMMA PlaceStep ==
  ASSUME TypeOK, InPlace, [Next]_vars
  PROVE  InPlace'
<1> USE DEF InPlace
<1>1. ASSUME NEW t \in Threads, Call(t) PROVE InPlace'
  BY <1>1, CallMoves DEF TypeOK, ReturnPoints, LoopPoints, TickPoints
<1>2. CASE Loop
  <2>1. \E l \in Calls \cup LoopPoints : Goto(Main, l)
    BY <1>2, TickMoves DEF Loop, While, EnterExpired, EnterEarly,
         PollNextKey, PollPowerKey, PowerRead, PollLightKey, PollCurrent, Calls, LoopPoints, TickPoints
  <2> QED
    BY <2>1 DEF Goto, Threads, TypeOK
<1>3. CASE \/ \E c \in Clients : SetState(c) \/ NextMethod(c) \/ SetScript(c)
           \/ SigStop
  BY <1>3, RequestMoves
<1>4. CASE UNCHANGED vars
  BY <1>4 DEF vars
<1> QED
  BY <1>1, <1>2, <1>3, <1>4 DEF Next, Dead

LEMMA NothingLeft ==
  ASSUME TypeOK, InPlace, StepsLeft = 0
  PROVE  pc[Main] \in {"left", "crashed"}
<1>1. pc[Main] \notin Calls
  <2>1. Place(ret) \in Nat /\ CallPlace(pc[Main]) \in Nat \ {0}
    BY DEF Place, CallPlace
  <2> QED
    BY <2>1 DEF StepsLeft
<1> QED
  BY <1>1 DEF StepsLeft, Place, InPlace, LoopPoints, TickPoints

\* Once isRunning is cleared it stays so, each step of Main brings it nearer to
\* the end of loadQuest(), and no step of a client puts that off.
ExitNearer ==
  ~isRunning => /\ ~isRunning'
                /\ StepsLeft' <= StepsLeft
                /\ pc'[Main] # pc[Main] => StepsLeft' < StepsLeft

LEMMA ExitStep ==
  ASSUME TypeOK, [Next]_vars
  PROVE  ExitNearer
<1> SUFFICES ASSUME ~isRunning
             PROVE  /\ ~isRunning'
                    /\ StepsLeft' <= StepsLeft
                    /\ pc'[Main] # pc[Main] => StepsLeft' < StepsLeft
  BY DEF ExitNearer
<1>1. StepsLeft \in Nat /\ StepsLeft' \in Nat
  <2>1. \A l, m : Place(l) + CallPlace(m) \in Nat /\ Place(l) \in Nat
    BY DEF Place, CallPlace
  <2> QED
    BY <2>1 DEF StepsLeft
<1>2. ~isRunning'
  <2>1. ASSUME NEW t \in Threads, Call(t) PROVE ~isRunning'
    BY <2>1 DEF Call, ReadState, Advance, Off, Arm, Run, Stop, Clear, session
  <2>2. CASE Loop
    BY <2>2, TickFrame DEF Loop, While, EnterExpired, EnterEarly,
         PollNextKey, PollPowerKey, PowerRead, PollLightKey, PollCurrent, session
  <2>3. CASE \/ \E c \in Clients : SetState(c) \/ NextMethod(c) \/ SetScript(c)
             \/ SigStop
    BY <2>3 DEF SetState, NextMethod, SetScript, SigStop, session
  <2> QED
    BY <2>1, <2>2, <2>3 DEF Next, Dead, vars, session
<1>3. CASE Loop \/ Call(Main)
  BY <1>1, <1>2, <1>3, MainNearer
<1>4. CASE UNCHANGED <<pc[Main], ret>>
  BY <1>1, <1>2, <1>4 DEF StepsLeft
<1>5. ASSUME NEW t \in Clients, Call(t) PROVE UNCHANGED <<pc[Main], ret>>
  BY <1>5, CallMoves, QuestAssumption DEF Threads
<1> QED
  BY <1>3, <1>4, <1>5, RequestMoves DEF Next, Dead, vars, Threads

\* What SessionEnds needs of the code beyond fairness: after set_script or a signal
\* Main is out of the quest within 46 steps of its own, through whatever keys,
\* timeouts and sensors it meets on the way.
THEOREM ExitIsBounded ==
  Spec => /\ [][ExitNearer]_vars
          /\ [](StepsLeft \in 0..46)
          /\ [](StepsLeft = 0 => pc[Main] \in {"left", "crashed"})
<1>1. TypeOK /\ [Next]_vars => [ExitNearer]_vars
  BY ExitStep
<1>2. Init => InPlace
  BY DEF Init, InPlace, Threads, LoopPoints, TickPoints
<1>3. TypeOK /\ InPlace => (StepsLeft = 0 => pc[Main] \in {"left", "crashed"})
  BY NothingLeft
<1> QED
  BY <1>1, <1>2, <1>3, StepsBound, PlaceStep, TypeCorrect, PTL DEF Spec
=============================================================================
