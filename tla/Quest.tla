------------------------------- MODULE Quest -------------------------------
(***************************************************************************)
(* class QuestBase of questomatic/main.cpp, from the moment a script has   *)
(* been loaded (loadQuest() is about to enter `while(isRunning)') to the   *)
(* moment the quest has been unloaded again.                               *)
(*                                                                         *)
(* Two kinds of threads share the object.  Main repeats loop(): the timer  *)
(* (tick), the three operator keys, the players' current puzzle.  Clients  *)
(* are the threads on which the JSON-RPC server (outside src/) calls       *)
(* set_state, next and set_script.  Both end up in the same five methods   *)
(* next, off, arm, run and stop, which take _currentPuzzleLock; the lock   *)
(* is NOT held across a decision to call one of them and the call, and     *)
(* tick() and the head of next() read shared state without it.  One action *)
(* below is one region of the code during which the lock is held, or one   *)
(* read or one store outside it.                                           *)
(***************************************************************************)
EXTENDS PuzzleBase, Integers, Functions

CONSTANTS
  N,          \* number of puzzles the script adds
  Duration,   \* Duration[p]: duration() of puzzle p, in timer units
  Intervals,  \* what one expiry of the 1000 ms timer may add, in timer units
  TimeCap,    \* elapsed times saturate here; above every value compared with
  Clients,    \* the RPC threads
  Main        \* the thread that runs loadQuest()

ASSUME QuestAssumption ==
  /\ N \in Nat
  /\ Duration \in [1..N -> Nat]
  /\ Intervals \subseteq Nat \ {0}
  /\ TimeCap \in Nat
  /\ Main \notin Clients

Threads == Clients \cup {Main}
States == {"OFF", "STOP", "ARM", "RUN"}

\* _puzzles.end(); the puzzles are 1..N in the order the script added them.
END == N + 1

VARIABLES
  state,      \* _state
  current,    \* _currentPuzzle, an index or END
  puzzle,     \* the flags of each puzzle
  loaded,     \* FALSE once stopQuest() has emptied _puzzles and the specials
  isRunning,  \* isRunning
  power,      \* the quest has power: ~_offPuzzle->isSolved()
  light,      \* the service light is on: ~_serviceLighPuzzle->isSolved()
  elapsed,    \* _elapsedQuestTimeMs and _elapsedPuzzleTimeMs
  interval,   \* the parameter of tick(), 0 when there is none left to add
  seen,       \* the register of tick(): what it has loaded of `elapsed'
  keys,       \* the static ...TestPrevState flags of loop()
  held,       \* Main holds _currentPuzzleLock between two steps
  pc,         \* where each thread is
  ret         \* where Main continues after the call it is in

flags    == <<state, current, puzzle>>
specials == <<power, light>>
session  == <<loaded, isRunning>>
local    == <<interval, seen>>
timer    == <<elapsed, local>>
vars     == <<flags, specials, session, timer, keys, held, pc, ret>>

(***************************************************************************)
(* "next" is the head of next() (the unlocked switch), "advance" the part  *)
(* of next() under the lock; "stopQuest" is off() called by stopQuest() and*)
(* "clear" the rest of stopQuest().                                        *)
(***************************************************************************)
Calls == {"next", "advance", "arm", "run", "stop", "off", "stopQuest", "clear"}
TickPoints == {"tick", "tickRead", "tickReset", "tickLoad", "tickAdd",
               "tickLoadPuzzle", "tickAddPuzzle", "tickCompare", "tickQuest"}
LoopPoints == TickPoints \cup
              {"while", "enter", "nextKey", "powerKey", "powerRead", "lightKey",
               "current", "left", "crashed"}
ReturnPoints == {"tickQuest", "nextKey", "powerKey", "lightKey", "while", "left"}

Time == [quest : 0..TimeCap, puzzle : 0..TimeCap]
NoTime == [quest |-> 0, puzzle |-> 0]

Plus(x, i) == IF x + i > TimeCap THEN TimeCap ELSE x + i

\* _totalQuestTimeMs, the sum addPuzzle() has accumulated; 0 once cleared.
TotalTime == FoldFunction(+, 0, Duration)
QuestTime == IF loaded THEN TotalTime ELSE 0

Alive == pc[Main] # "crashed"

Goto(t, l) == pc' = [pc EXCEPT ![t] = l]
Return(t) == Goto(t, IF t = Main THEN ret ELSE "idle")

\* Every puzzle of _puzzles gets the same operation.
AllStopped == IF loaded THEN [p \in 1..N |-> StopPuzzle(puzzle[p])] ELSE puzzle
NoneArmed  == puzzle
AllArmed   == IF loaded THEN [p \in 1..N |-> ArmPuzzle(puzzle[p])]  ELSE puzzle

\* solve() and arm() of _offPuzzle and _serviceLighPuzzle, if they are set.
PowerKept == power
PowerOff == power /\ ~loaded
PowerOn  == power \/ loaded
LightOff == light /\ ~loaded
LightOn  == light \/ loaded

\* `_elapsedPuzzleTimeMs = 0': the time of the quest goes on.
PuzzleTimeReset == [elapsed EXCEPT !.puzzle = 0]

-----------------------------------------------------------------------------
(***************************************************************************)
(* The methods both kinds of threads call.                                 *)
(***************************************************************************)

\* next(): `switch(_state)' before the lock is taken.
ReadState(t) ==
  /\ Alive /\ pc[t] = "next"
  /\ Goto(t, CASE state = "STOP" -> "arm"
               [] state = "ARM"  -> "run"
               [] OTHER          -> "advance")
  /\ UNCHANGED <<flags, specials, session, timer, keys, held, ret>>

StartNextUnsolved(p) ==
  [q \in 1..N |-> IF q = p + 1 THEN RunPuzzle(puzzle[q]) ELSE puzzle[q]]

SolveOnly(p) ==
  [q \in 1..N |-> IF q = p THEN SolvePuzzle(puzzle[q]) ELSE puzzle[q]]

\* (*_currentPuzzle)->solve(), then run() on its successor if there is one.
SolveAndStartNext(p) ==
  [q \in 1..N |-> CASE q = p     -> SolvePuzzle(puzzle[q])
                    [] q = p + 1 -> RunPuzzle(puzzle[q])
                    [] OTHER     -> puzzle[q]]

AdvanceUnchecked == TRUE

\* `if(_currentPuzzle != _puzzles.end())', under the lock.
MayAdvance == current # END

\* next(): the part under the lock.
Advance(t) ==
  /\ Alive /\ pc[t] = "advance" /\ ~held
  /\ \/ /\ ~MayAdvance
        /\ Return(t)
        /\ UNCHANGED <<current, puzzle, elapsed>>
     \/ /\ MayAdvance
        /\ current' = current + 1
        /\ puzzle' = SolveAndStartNext(current)
        /\ elapsed' = PuzzleTimeReset
        /\ IF current = N THEN Goto(t, "stop") ELSE Return(t)
  /\ UNCHANGED <<state, specials, session, local, keys, held, ret>>

\* off(), called for itself or as the first half of stopQuest().
Off(t) ==
  /\ Alive /\ pc[t] \in {"off", "stopQuest"} /\ ~held
  /\ state' = "OFF"
  /\ current' = END
  /\ puzzle' = AllStopped
  /\ power' = PowerOff
  /\ IF pc[t] = "stopQuest" THEN Goto(t, "clear") ELSE Return(t)
  /\ UNCHANGED <<light, session, timer, keys, held, ret>>

Arm(t) ==
  /\ Alive /\ pc[t] = "arm" /\ ~held
  /\ state' = "ARM"
  /\ puzzle' = AllArmed
  /\ Return(t)
  /\ UNCHANGED <<current, specials, session, timer, keys, held, ret>>

Run(t) ==
  /\ Alive /\ pc[t] = "run" /\ ~held
  /\ state' = "RUN"
  /\ IF loaded /\ N > 0
       THEN /\ current' = 1
            /\ puzzle' = [puzzle EXCEPT ![1] = RunPuzzle(@)]
       ELSE /\ current' = END
            /\ UNCHANGED puzzle
  /\ light' = LightOff
  /\ Return(t)
  /\ UNCHANGED <<power, session, timer, keys, held, ret>>

\* stop(), also reached through timeout() and from next() past the last puzzle.
Stop(t) ==
  /\ Alive /\ pc[t] = "stop" /\ ~held
  /\ state' = "STOP"
  /\ current' = END
  /\ puzzle' = AllStopped
  /\ power' = PowerOn
  /\ light' = LightOn
  /\ elapsed' = PuzzleTimeReset
  /\ Return(t)
  /\ UNCHANGED <<session, local, keys, held, ret>>

\* stopQuest() after its call of off(): a second critical region.
Clear(t) ==
  /\ Alive /\ pc[t] = "clear" /\ ~held
  /\ elapsed' = NoTime
  /\ isRunning' = FALSE
  /\ loaded' = FALSE
  /\ current' = END
  /\ Return(t)
  /\ UNCHANGED <<state, puzzle, specials, local, keys, held, ret>>

Call(t) == \/ ReadState(t) \/ Advance(t) \/ Off(t) \/ Arm(t)
           \/ Run(t) \/ Stop(t) \/ Clear(t)

-----------------------------------------------------------------------------
(***************************************************************************)
(* The RPC methods and the signal handler.                                 *)
(***************************************************************************)

\* set_state; a name that is not one of StateStrings throws and changes nothing.
SetState(c) ==
  /\ Alive /\ pc[c] = "idle"
  /\ \E call \in {"off", "stop", "arm", "run"} : Goto(c, call)
  /\ UNCHANGED <<flags, specials, session, timer, keys, held, ret>>

NextMethod(c) ==
  /\ Alive /\ pc[c] = "idle"
  /\ Goto(c, "next")
  /\ UNCHANGED <<flags, specials, session, timer, keys, held, ret>>

\* set_script, after the file has been written.
SetScript(c) ==
  /\ Alive /\ pc[c] = "idle"
  /\ Goto(c, "stopQuest")
  /\ UNCHANGED <<flags, specials, session, timer, keys, held, ret>>

\* sigStop(), called from sig_interceptor() between any two steps.
SigStop ==
  /\ Alive /\ isRunning
  /\ isRunning' = FALSE
  /\ UNCHANGED <<flags, specials, loaded, timer, keys, held, pc, ret>>

-----------------------------------------------------------------------------
(***************************************************************************)
(* loop() on the main thread.                                              *)
(***************************************************************************)

LoopsForEver == TRUE

LoopsOn == isRunning

\* `while(isRunning) loop();' and, when it ends, the stopQuest() after it.
While ==
  /\ pc[Main] = "while"
  /\ IF LoopsOn
       THEN Goto(Main, "enter") /\ UNCHANGED ret
       ELSE Goto(Main, "stopQuest") /\ ret' = "left"
  /\ UNCHANGED <<flags, specials, session, timer, keys, held>>

\* timeout.isOver() > 0: the lock is released around tick().
EnterExpired ==
  /\ pc[Main] = "enter"
  /\ \E i \in Intervals : interval' = i
  /\ Goto(Main, "tick")
  /\ UNCHANGED <<flags, specials, session, elapsed, seen, keys, held, ret>>

EnterEarly ==
  /\ pc[Main] = "enter"
  /\ Goto(Main, "nextKey") /\ held' = TRUE
  /\ UNCHANGED <<flags, specials, session, timer, keys, ret>>

(***************************************************************************)
(* tick(), without the lock: each read and each store is a step.           *)
(***************************************************************************)

\* `if(_currentPuzzle == _puzzles.end()) return;'
Tick ==
  /\ pc[Main] = "tick"
  /\ IF current = END
       THEN Goto(Main, "nextKey") /\ interval' = 0
       ELSE Goto(Main, "tickRead") /\ UNCHANGED interval
  /\ UNCHANGED <<flags, specials, session, elapsed, seen, keys, held, ret>>

\* `switch (_state)'
TickRead ==
  /\ pc[Main] = "tickRead"
  /\ Goto(Main, IF state = "RUN" THEN "tickLoad" ELSE "tickReset")
  /\ UNCHANGED <<flags, specials, session, timer, keys, held, ret>>

\* The two stores of 0 under `default:'.  Whatever other threads store here is 0
\* too, and they read neither, so that the two make one step.
TickReset ==
  /\ pc[Main] = "tickReset"
  /\ elapsed' = NoTime /\ interval' = 0
  /\ Goto(Main, "nextKey")
  /\ UNCHANGED <<flags, specials, session, seen, keys, held, ret>>

\* `_elapsedQuestTimeMs += interval;', the load and the store ...
TickLoad ==
  /\ pc[Main] = "tickLoad"
  /\ seen' = elapsed.quest
  /\ Goto(Main, "tickAdd")
  /\ UNCHANGED <<flags, specials, session, elapsed, interval, keys, held, ret>>

TickAdd ==
  /\ pc[Main] = "tickAdd"
  /\ elapsed' = [elapsed EXCEPT !.quest = Plus(seen, interval)]
  /\ Goto(Main, "tickLoadPuzzle")
  /\ UNCHANGED <<flags, specials, session, local, keys, held, ret>>

\* ... and the same for _elapsedPuzzleTimeMs.
TickLoadPuzzle ==
  /\ pc[Main] = "tickLoadPuzzle"
  /\ seen' = elapsed.puzzle
  /\ Goto(Main, "tickAddPuzzle")
  /\ UNCHANGED <<flags, specials, session, elapsed, interval, keys, held, ret>>

TickAddPuzzle ==
  /\ pc[Main] = "tickAddPuzzle"
  /\ seen' = Plus(seen, interval)
  /\ elapsed' = [elapsed EXCEPT !.puzzle = seen']
  /\ interval' = 0
  /\ Goto(Main, "tickCompare")
  /\ UNCHANGED <<flags, specials, session, keys, held, ret>>

(***************************************************************************)
(* The comparison with the duration of *_currentPuzzle.  The time may be   *)
(* read again or be what has just been stored.  When another thread has    *)
(* moved _currentPuzzle to end() since Tick, it is a read past the vector: *)
(* it may fault, and if it does not the comparison may go either way.      *)
(***************************************************************************)
TickCompare ==
  /\ pc[Main] = "tickCompare"
  /\ \/ /\ current # END
        /\ \E time \in {seen, elapsed.puzzle} :
             Goto(Main, IF time >= Duration[current] THEN "next" ELSE "tickQuest")
     \/ /\ current = END
        /\ \E l \in {"next", "tickQuest", "crashed"} : Goto(Main, l)
  /\ seen' = 0
  /\ ret' = "tickQuest"
  /\ UNCHANGED <<flags, specials, session, elapsed, interval, keys, held>>

NeverOver == FALSE

TimeIsOver == elapsed.quest >= QuestTime

\* tick(): the quest's own timeout(), then notifyStatus() and timeout.reset().
TickQuest ==
  /\ pc[Main] = "tickQuest"
  /\ Goto(Main, IF TimeIsOver THEN "stop" ELSE "nextKey")
  /\ ret' = "nextKey"
  /\ UNCHANGED <<flags, specials, session, timer, keys, held>>

(***************************************************************************)
(* The operator's keys.  Each is a puzzle that is only polled; its flag in *)
(* `keys' is the level seen last, and a press is a change from FALSE to    *)
(* TRUE.  Only Main reads the flags, so it makes no difference that the    *)
(* code stores them after the call the press triggers.                     *)
(***************************************************************************)
PollNextKey ==
  /\ pc[Main] = "nextKey"
  /\ \/ /\ loaded /\ state # "OFF"
        /\ \E pressed \in BOOLEAN :
             /\ keys' = [keys EXCEPT !.next = pressed]
             /\ IF pressed /\ ~keys.next
                  THEN Goto(Main, "next") /\ ret' = "powerKey" /\ held' = FALSE
                  ELSE Goto(Main, "powerKey") /\ held' = TRUE /\ UNCHANGED ret
     \/ /\ ~loaded \/ state = "OFF"
        /\ Goto(Main, "powerKey") /\ held' = TRUE
        /\ UNCHANGED <<keys, ret>>
  /\ UNCHANGED <<flags, specials, session, timer>>

PollPowerKey ==
  /\ pc[Main] = "powerKey"
  /\ \/ /\ loaded
        /\ \E pressed \in BOOLEAN :
             /\ keys' = [keys EXCEPT !.power = pressed]
             /\ IF pressed /\ ~keys.power
                  THEN Goto(Main, "powerRead") /\ held' = FALSE
                  ELSE Goto(Main, "lightKey") /\ held' = TRUE
     \/ /\ ~loaded
        /\ Goto(Main, "lightKey") /\ held' = TRUE
        /\ UNCHANGED keys
  /\ UNCHANGED <<flags, specials, session, timer, ret>>

\* `if(_state == State::STOP) off(); else stop();' after the unlock.
PowerRead ==
  /\ pc[Main] = "powerRead"
  /\ Goto(Main, IF state = "STOP" THEN "off" ELSE "stop")
  /\ ret' = "lightKey"
  /\ UNCHANGED <<flags, specials, session, timer, keys, held>>

PollLightKey ==
  /\ pc[Main] = "lightKey"
  /\ \/ /\ loaded /\ state = "RUN"
        /\ \E pressed \in BOOLEAN :
             /\ keys' = [keys EXCEPT !.light = pressed]
             /\ light' = IF pressed /\ ~keys.light THEN ~light ELSE light
     \/ /\ ~loaded \/ state # "RUN"
        /\ UNCHANGED <<keys, light>>
  /\ Goto(Main, "current") /\ held' = TRUE
  /\ UNCHANGED <<flags, power, session, timer, ret>>

\* The test-only pass over all puzzles, then loop(true) of the current one.
PollCurrent ==
  /\ pc[Main] = "current"
  /\ held' = FALSE
  /\ \/ /\ current = END
        /\ Goto(Main, "while")
        /\ UNCHANGED <<puzzle, ret>>
     \/ /\ current # END
        /\ \E test \in BOOLEAN :
             /\ puzzle' = [puzzle EXCEPT ![current] = LoopPuzzle(@, test)]
             /\ IF LoopPuzzle(puzzle[current], test).solved
                  THEN Goto(Main, "next") /\ ret' = "while"
                  ELSE Goto(Main, "while") /\ UNCHANGED ret
  /\ UNCHANGED <<state, current, specials, session, timer, keys>>

Ticks == \/ Tick \/ TickRead \/ TickReset \/ TickLoad \/ TickAdd
         \/ TickLoadPuzzle \/ TickAddPuzzle \/ TickCompare \/ TickQuest

Loop == \/ While \/ EnterExpired \/ EnterEarly \/ Ticks
        \/ PollNextKey \/ PollPowerKey \/ PowerRead \/ PollLightKey
        \/ PollCurrent

-----------------------------------------------------------------------------
\* loadQuest() after py::exec() and off(): the flags of the keys are static
\* variables, left over from whatever quest was loaded before.
Init ==
  /\ state = "OFF"
  /\ current = END
  /\ puzzle = [p \in 1..N |-> StoppedPuzzle]
  /\ loaded = TRUE
  /\ isRunning = TRUE
  /\ power = FALSE
  /\ light = TRUE
  /\ elapsed = NoTime
  /\ interval = 0 /\ seen = 0
  /\ keys \in [next : BOOLEAN, power : BOOLEAN, light : BOOLEAN]
  /\ held = FALSE
  /\ pc = [t \in Threads |-> IF t = Main THEN "while" ELSE "idle"]
  /\ ret = "while"

\* A process that has faulted takes no more steps.
Dead == ~Alive /\ UNCHANGED vars

Next ==
  \/ \E t \in Threads : Call(t)
  \/ \E c \in Clients : SetState(c) \/ NextMethod(c) \/ SetScript(c)
  \/ SigStop
  \/ Loop
  \/ Dead

Spec == Init /\ [][Next]_vars

(***************************************************************************)
(* Fairness.  Main never waits for anything but the lock, and no client    *)
(* keeps the lock (WF).  Every pass of loop() takes time, so infinitely    *)
(* many passes let the 1000 ms timer expire infinitely often (SF on        *)
(* EnterExpired).                                                          *)
(*                                                                         *)
(* A client in the middle of a call waits for a lock that Main takes again *)
(* as soon as it has released it, and nothing says that it ever gets it.   *)
(* Requests, key presses and signals need not come at all.                 *)
(***************************************************************************)
FairSpec == Spec /\ WF_vars(Loop \/ Call(Main)) /\ SF_vars(EnterExpired)

-----------------------------------------------------------------------------
\* Type invariant.
TypeOK ==
  /\ state \in States
  /\ current \in 1..END
  /\ puzzle \in [1..N -> PuzzleFlags]
  /\ loaded \in BOOLEAN /\ isRunning \in BOOLEAN
  /\ power \in BOOLEAN /\ light \in BOOLEAN
  /\ elapsed \in Time /\ interval \in Intervals \cup {0} /\ seen \in 0..TimeCap
  /\ keys \in [next : BOOLEAN, power : BOOLEAN, light : BOOLEAN]
  /\ held \in BOOLEAN
  /\ pc \in [Threads -> Calls \cup LoopPoints \cup {"idle"}]
  /\ \A c \in Clients : pc[c] \in Calls \cup {"idle"}
  /\ ret \in ReturnPoints

\* While the quest is OFF or STOPped no puzzle is in play: there is no current
\* puzzle and each has been stop()ped (its onStop, which releases the doors and
\* magnets of the room, came last), whatever next() calls were under way when
\* the operator stopped it.
QuietPuzzles ==
  /\ state \in {"OFF", "STOP"} => current = END
  /\ ~loaded => current = END
  /\ state \in {"OFF", "STOP"} /\ loaded =>
       \A p \in 1..N : puzzle[p] = StoppedPuzzle

\* While the quest RUNs the players are never past a puzzle that is not solved:
\* everything before the current puzzle is, although next() can be called by
\* the timer, the key, the sensors and the web page in any interleaving.
PrefixSolved ==
  state = "RUN" /\ loaded =>
    \A p \in 1..N : p < current => puzzle[p].solved

\* While the quest RUNs the current puzzle has been started with run(), and
\* stays so until it is solved.
CurrentStarted ==
  state = "RUN" /\ current # END =>
    puzzle[current].running \/ puzzle[current].solved

\* The relay follows the state at its two ends, for a loaded quest: no power
\* when it is OFF, power and service light when it is STOPped.
PowerFollowsState ==
  loaded => /\ state = "OFF" => ~power
            /\ state = "STOP" => power /\ light

\* While the quest keeps RUNning nothing a player has solved becomes unsolved,
\* and a puzzle becomes solved only when it is the current one.
SolvedInOrder ==
  [][state = "RUN" /\ state' = "RUN" =>
       \A p \in 1..N :
         /\ puzzle[p].solved => puzzle'[p].solved
         /\ puzzle'[p].solved /\ ~puzzle[p].solved => p = current]_vars

\* While a loaded quest keeps RUNning its time never goes back, whatever next(),
\* arm(), run() and the unlocked `+=' of tick() do to each other, and each tick
\* moves it on until it is as late as any comparison can tell.  The one exception
\* is the store of 0 of a tick that met the quest before it was set RUNning.
ClockForward ==
  [][state = "RUN" /\ state' = "RUN" /\ loaded' =>
       /\ \/ elapsed'.quest >= elapsed.quest
          \/ pc[Main] = "tickReset" /\ pc'[Main] # "tickReset"
       /\ pc[Main] = "tickAdd" /\ pc'[Main] # "tickAdd" =>
            elapsed'.quest > elapsed.quest \/ elapsed'.quest = TimeCap]_vars

\* A loaded quest that RUNs stops RUNning, whatever the players do: the timer
\* adds up to the total of the durations (tick(), timeout()).  A client whose
\* next() has passed the last puzzle has released the lock before it calls
\* stop(): the timer no longer ticks then, and the rest is up to that client.
RunEnds ==
  (state = "RUN" /\ loaded) ~>
    \/ state # "RUN" \/ ~loaded \/ ~Alive
    \/ current = END /\ \E c \in Clients : pc[c] = "stop"

\* Once isRunning is cleared (set_script, a signal) the main thread leaves
\* loop() and unloads the quest.
SessionEnds == ~isRunning ~> (pc[Main] = "left" \/ ~Alive)

\* To operators and players the threads, the lock and the reads outside it do not
\* show: off(), arm(), run(), stop(), the advance of next(), a solved sensor and
\* the unloading are each one atomic step of Game, and a next() that comes late
\* never moves a quest that has been stopped or switched off.
Promise == INSTANCE Game WITH mode <- state, at <- current
ImplementsGame == Promise!Spec

(***************************************************************************)
(* What the code says and does not keep; see the README.                   *)
(***************************************************************************)

\* main.cpp:504 "current puzzle solved, going to next": when the next() that
\* loop() calls for a solved puzzle moves a RUNning quest on, the puzzle it leaves
\* is one that has been solved; a later one than the first, which RUN starts with.
LeavesSolvedPuzzle ==
  pc[Main] = "advance" /\ ret = "while" /\ state = "RUN" /\ current \notin {1, END} =>
    puzzle[current].solved

\* main.cpp:593-595: out of RUN the elapsed times are put back to 0, so that a
\* quest that has been STOPped and is set RUNning again has its whole time.
RunStartsAtZero ==
  [][state = "STOP" /\ state' = "RUN" => elapsed.quest = 0]_vars

\* main.cpp:582-583: tick() returns when there is no current puzzle, so the
\* iterator it dereferences is not end().
TickHasPuzzle == pc[Main] = "tickCompare" => current # END
=============================================================================
