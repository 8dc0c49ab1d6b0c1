# Questomatic in TLA+

Questomatic runs an escape room: a Python script describes the puzzles of the
room, a C++ program (`questomatic/main.cpp`, `questomatic/modbus.cpp`) drives
them through GPIO pins, a Modbus line and sound players, and operators steer the
game with three keys and a web page. This directory models the program, checks
the models with TLC on small instances, and proves the main results with TLAPS
for instances of any size.

## 1. The system

| Component | State | Operations | Talks to |
|---|---|---|---|
| **Puzzle** `PuzzleBase`, main.cpp 128-220 | `_solved`, `_running`, `_test`, `_durationMs` | `solve` `stop` `run` `arm` `loop`, each with a callback into Python | called by the engine under `_currentPuzzleLock` |
| **Quest engine** `QuestBase`, 271-716 | `_state`, `_puzzles`, `_currentPuzzle`, special puzzles, elapsed times, static key flags | `next` `off` `arm` `run` `stop` `timeout` `tick` `loop` | main thread and RPC threads share it through one mutex |
| **RPC methods** 290-404 | none | `set_state`, `next`, `set_script`; `status` notifications | run on threads of the web-socket server |
| **Life cycle** `main`, `loadQuest`, `stopQuest`, 718-777, 937-1001 | `isRunning`, `g_running`, interpreter, GIL, script file | load, replace and unload a script; signals | Python (pybind11), flash card |
| **Modbus master** modbus.cpp | `_ctx` with the slave address, `_accessMutex` | `WriteRegister` `WriteRegisters` `ReadRegisters` with retries | boards on an RS-485 line |
| **Sound player** `Mpg123Player`, 69-124 | `_pid` | `play` `stop` `isPlaying` | child processes, `/proc` |
| **Room script** examples/scenario.py | per puzzle: pins, and the shared tip button | `onRun` `onStop` `onSolve` `onArm` `onTest` | engine, Modbus, players |
| **GPIO binding**, options, HTTP answer | none the quest depends on | pass-through | library code outside `src/` |
| **Host scripts** scripts/, box-scripts/, cmake/, Dockerfile | files of a host | build, flash, configure a box | not part of the running program |

How they interact. The main thread loads the script and repeats `loop()`: once a
second the timer (`tick`), then the three keys, then the current puzzle. RPC
threads enter the same methods at any time. The mutex `_currentPuzzleLock` protects
each method, but not the decision to call it: `loop()` unlocks before it calls
`next()`, `next()` reads `_state` before it locks, `tick()` never locks, and
`stopQuest()` is two critical regions. A callback takes the GIL under the mutex;
the thread that loads a script has the GIL and takes the mutex. Signals, power
loss and exceptions can come between any two steps.

What is hard: two of timer, key, sensor and page advancing the quest at once;
stale reads after an unlock; a stop against a running `next()`; the order in which
mutex, GIL, interpreter and script file are used while a script is replaced;
exceptions from Python; a board that executes a request and loses the answer;
a process id that is reused. PROJECT.json lists each at its line under `hazards`.

What makes each component correct:

* **Engine.** A stopped or switched-off quest has no puzzle in play. A running
  quest is never past an unsolved puzzle, its current puzzle has been started,
  progress is never lost and never skips, and it ends by its timer. Power and
  light follow the state.
* **Life cycle.** No Python object outlives its interpreter, a quest that loops cannot
  deadlock, a quest that is asked to end is unloaded, a script that has been saved with
  nobody in the way survives.
* **Modbus.** Requests reach the board the caller named, a success is real, a
  write is not interleaved, every call returns.
* **Player.** No title plays that the player cannot silence, and silencing it ends no
  more than one process.
* **Room.** A compartment is locked exactly while its puzzle is unsolved; nothing
  holds the players when the quest is stopped; a tip comes from the puzzle the players
  are at, once for each press, and the aquarium waits for the end of its own.
* **Exceptions.** An operation a callback has cut off leaves nothing the next completed
  `off()` or `stop()` does not repair, and a quest is always unloaded.

## 2. The modules

    PuzzleBase <- Game <- Scenario <- MCScenario
        ^          ^ ^       ^-- ScenarioProofs
        |          . +-- FaultGame
        |          .         . (INSTANCE: ImplementsFaultGame)
        |          .       QuestFaults <- MCFaults
        |          .         v       ^-- FaultProofs <- FaultRefinement
        +----------.---- Quest <- MCQuest    v             v
                   .       ^-- QuestProofs <-+-- QuestRefinement
                   (INSTANCE: ImplementsGame)
    Session <- MCSession
             ^-- SessionProofs
    Line ... (INSTANCE: ImplementsLine) ... Modbus <- ModbusProofs
    Mpg123Player <- PlayerProofs

### PuzzleBase

Operators on a record of the two flags the engine uses. `solve()` of a solved
puzzle does nothing (it does not even clear `running`), `run()` does not clear
`solved`; both matter to the engine. `_test` carries a result from one statement to
the next and is the parameter of `LoopPuzzle`.

### Quest

A loaded quest, from `while(isRunning)` to the end of `stopQuest()`. A `pc` per
thread names the next critical region or unprotected read, `ret` where the main
thread continues; `held` says that the main thread keeps the mutex from one part of
`loop()` to the next. Callbacks are quick, so a region with its callbacks is one
step.

| Action | Code |
|---|---|
| `ReadState`, `Advance` | `next()` before and under the lock (600-632) |
| `Off` `Arm` `Run` `Stop` | the methods of the same name; `Stop` also `timeout()` |
| `Off` at "stopQuest", `Clear` | `stopQuest()` |
| `SetState` `NextMethod` `SetScript` `SigStop` | RPC methods, signal |
| `While` | `while(isRunning)` of `loadQuest()` |
| `EnterExpired` `EnterEarly` | the timer test of `loop()` |
| `Tick` `TickRead` | `tick()`: the comparison with `end()` (582), the `switch` on `_state` (585) |
| `TickLoad` `TickAdd` `TickLoadPuzzle` `TickAddPuzzle` | the load and the store of each `+=` (587, 588) |
| `TickCompare` `TickQuest` | the puzzle's time against the duration of `*_currentPuzzle` (589), the quest's time (591) |
| `TickReset` | the stores of 0 for any other state (594-595), later than the `switch` |
| `PollNextKey` `PollPowerKey` `PowerRead` `PollLightKey` `PollCurrent` | the keys and the current puzzle |

Abstractions: an iterator is an index, `end()` is `N + 1`; a key's level and
`onTest()` are free Booleans; times are counted in timer units and saturate at
`TimeCap`; the two stores of 0 in `TickReset` are one step, since no other thread reads
the times or adds to them; the power puzzle and the light puzzle are one Boolean each; the passes of
the test-only loop over all puzzles change no flag the engine uses. A dereference of
`end()` is undefined: the process dies, or the comparison goes either way.

### Game, and what Quest implements

Game is the abstract specification: what the engine amounts to for operators, players
and the script. It has no threads, no lock, no timer and no keys, and seven steps:
`SwitchOff` `StopAll` `ArmAll` `Start` `GoOn` `Sense` `Unload`. `Quest!ImplementsGame`
instantiates it with `mode <- state, at <- current` (the other variables have the same
names) and says that every critical region of the engine is one such step, or none. What
this gives beyond the invariants: a `next()` that was decided on long ago never moves a
quest that has been stopped or switched off meanwhile, a sensor solves the puzzle that is
current at that moment and nothing else, and `arm()` while a game is on arms the puzzles
but leaves the players where they are.

### QuestFaults

Quest with callbacks that raise. `Half...` is the operation cut off at one of its
callbacks: the flags of the puzzles up to it are set, the rest of the region is not done.
`Unwind` gives the lock back and takes the thread to the RPC server (a client goes idle)
or to the catch of `loadQuest()`, whose `stopQuest()` is caught by nobody if it raises
too. `half` remembers that an `off()` or `stop()` has been cut off and none of either has
been completed since.

### FaultGame, and what QuestFaults implements

FaultGame is Game with one more variable, `cut`, and the steps an exception leaves: `PartOff`
`PartStop` `PartArm` have dealt with the puzzles up to the one that raised, `Straggle` is what
`next()` and the sensors may still do to a quest whose `stop()` has been cut off and which
therefore has a current puzzle. A completed `off()` or `stop()` ends `cut`; everything else is a step of
Game. `QuestFaults!ImplementsFaultGame` instantiates it with `cut <- half`. What it says
beyond the invariants: a cut-off operation is still atomic to those outside, it touches no
puzzle out of turn, and no exception in `arm()`, `run()`, `next()` or a poll of the keys gives
a quest a step that Game has not got, except the part of an `arm()`.

### Session

The life cycle. One critical region with at most one callback stands for any
operation of Quest. What is tracked is who has the mutex and the GIL, whether the
interpreter is up, how many Python objects the quest points to, whether
`_currentPuzzle` may have been invalidated by `push_back()` (`stale`), the script file
as threads read it and as it is on the flash card (both may be a script, `Empty`, or `Torn`:
a part of one or parts of two), and `isRunning`/`g_running`. Each
thread's `pc` is its place; `after` is where it goes when it has given the mutex back.
Exceptions come from the script (`Exec`) and from every callback (`Raise`), and take
the thread to the catch of `loadQuest()`, to the RPC server, or to
`std::terminate()`. `Bind` and `EndBinding` are a method of GPIO, Modbus or Mpg123Player
called in a callback: its `call_guard` gives the GIL back and takes it again. `Restart` is
a power loss: only `disk` survives. `Open` truncates the file, `Write` fills it, `Sync` puts
what is there by then on the card, and no lock keeps two clients apart: a writer whose file
has been opened by somebody else may leave a mixture behind, and whoever is not through
with `sync()` may sync what the other has left. The history `mixed` has the clients this
has happened to; `saved` is the script of the last `set_script` it has not happened to, from
its `sync()` to the next `open()`. One `read()` or write-back of the file is one step, and
meets a part of a script while somebody writes. `Signal` before
`make_shared<QuestBase>` goes through a null pointer.

Quest and Session overlap in `stopQuest()` and `while(isRunning)`: Quest has every flag
and one loaded script, Session has many scripts and no flags.

### Modbus

Two or more callers share a context and `_accessMutex`. An attempt fails before the
board has seen it, or is executed and its answer lost, or is executed and answered.
`Check` is the condition of the `do ... while` with its side effect. The three calls
have the same shape and are one model with a `what` of a value or "read".

### Line, and what Modbus implements

Line is what the class amounts to for the script: no mutex, no shared address, no attempts. A
call is taken by its board at one moment between its beginning and its return, or not at all
when it fails. `Modbus!ImplementsLine` instantiates it with `phase` computed from the place of
the caller, its last `count` and the history `done`. A write that is executed several times has
taken effect once for the other callers, for the mutex is kept from one attempt to the next; a
write that fails may have taken effect, but not after it has returned, and a read that fails
leaves `dest` alone. Boards in `Active` change their register themselves (`BoardActs`), as the
desk's board does: the script writes a phrase to its register 0 and waits until it reads 0
there (scenario.py 119-131). On such a board a write whose answer is lost can take effect
more than once (`TakeWrite` from "taken"): the phrase may be spelled again.

### Mpg123Player

Players know a child by pid only, and SIGCHLD is ignored, so a pid is free as soon as
its process ends and any process may get it. A `kill()` that fails keeps `_pid`. The result
of `run_cmd()` is not looked at (94-95): a `fork` that fails leaves -1 in `_pid`, which the next
`kill()` takes for every process of the box. `failed` remembers whose last `run_cmd()` failed.
The program is taken to run as root on its box, so that a `kill()` fails only when there is
nothing to kill.

### Scenario

The devices of examples/scenario.py on Game: its actions are those of Game, each with the
callbacks that critical region makes, and the actions of the room itself. That Quest
implements Game is what makes a statement about the room one about the program. The
classes of puzzles fall into nine kinds by what they drive and test.

A Modbus write to the door succeeds, or fails having moved the door or not (what Modbus
says of a write), and the script does not look at the result; the history variable `lost`
remembers a failure. All six talking puzzles share the edge detector `domushButton` and,
with everybody's sound effects, one player. `Look(p)` is one `onTest()` of a running one
that asks for the button; which of several asks first is left open. `title` is what the
player plays, `told` whose tip it was that has come to its end. `isPlaying()` is never
false while a title plays, and may be true when none does (Mpg123Player).

## 3. The runs

| Run | Instance | Shows |
|---|---|---|
| quest_safety | 2 puzzles, durations 1 and 2, 1 client | the invariants and the action properties of Quest in every interleaving, and that it implements Game (2.9 million states) |
| quest_live | 2 puzzles of duration 1, 1 client | a running quest ends, by its total time when puzzles are skipped; a session whose `isRunning` is cleared is unloaded (1.8 million states) |
| quest_faults | 2 puzzles of duration 1, 1 client, an exception out of any callback | what cut-off operations still guarantee, and that each is one step of FaultGame (12 million states) |
| quest_solved_next | as quest_safety | **finding**: `next()` after a solved puzzle can solve the one after it, too |
| quest_run_from_zero | as quest_safety | **finding**: a stopped quest can run again with the old time on its clock |
| quest_tick_end | as quest_safety | **finding**: `tick()` can dereference `end()` |
| session_safety | 2 scripts, 2 clients, up to 2 objects | life cycle invariants, the only deadlock (2.3 million states) |
| session_unloads | 1 script, 1 client, 1 object | unloading comes to its end |
| session_script_lost | 2 scripts, 1 client | **finding**: a saved script may not be loaded |
| modbus | 2 callers, 2 boards, one of them `Active`, 2 values, 10 attempts | invariants, that every call returns, and that the calls implement those of Line |
| player | 2 players, 4 pids | no child is lost, no more than one process is killed |
| scenario | 9 puzzles, one of each kind in the script's order | the room follows the quest, the tip button is heard rightly (1.8 million states) |

Why the bounds are enough. Two puzzles give a first one with a successor and a last
one; a third changes nothing the guards can see, and the theorems of section 5 hold
for any number. One client against the main thread gives every pair of concurrent
calls; a second client of Session is there for two `set_script` calls at once. Unequal
durations make puzzle time-out and quest time-out come at different ticks, with and
without skips; `TimeCap` is the total duration, above which no comparison can tell two
times apart. Session's `MaxObjects` 2 gives a script that registers none, one and
several. `RetryCount` 10 is the code's value. Four pids let both players have a
child and an old pid each. quest_faults lets all puzzles last one tick, for the exceptions
do not depend on the times; `PrefixSolved`, `CurrentStarted`, `SolvedInOrder` and
`ClockForward` with exceptions are left to the theorems of FaultProofs. Nine puzzles in Scenario have every kind once, three of them
listeners, which gives an earlier, a current and a later one; the script has fifteen
puzzles, three desks and three more listeners of kinds that are there. Symmetry is used only in session_safety, which has no
liveness property; scripts and clients are interchangeable there.

In quest_live the puzzles together last two ticks, and a key or a client may skip one after
each of them: then the time of no puzzle runs out, and it is the quest's own timeout that ends
the run.

In quest_solved_next the puzzle `loop()` has found solved is the first, a client's `next()`
leaves it, and the `next()` of `loop()` finds the second one, unsolved. The property asks for
that case alone: the quest RUNs and the puzzle left is not the first, which a client can make
current at any time by setting the state.

In quest_run_from_zero the trace is the shortest there is: RUN, a tick that has read RUN, STOP,
the tick adds, RUN with that time on the clock. With all of the tick before the STOP, and with
an ARM in between, it is the same: `_currentPuzzle` is `end()` and `tick()` returns before it
gets to the reset.

Deadlock is checked in every run. Session always allows a restart, therefore its
deadlock between mutex and GIL is stated as a property instead: `LoopYieldsGil`
excludes it once a quest loops, and `OnlyLoadingBlocks` says that the one place where it
remains (`Stuck`) is Main with the GIL in `loadQuest()`, for `off()` or for the `stopQuest()`
of its catch. `Unloads` excepts it.

Fairness.

* Quest: weak fairness of the main thread, for it waits for nothing but the mutex and
  nobody keeps that; strong fairness of `EnterExpired`, for a pass of `loop()` takes
  time and infinitely many make the timer expire. Nothing is assumed of clients, keys
  and sensors. Therefore `RunEnds` excepts a client that has advanced past the last
  puzzle, has released the mutex and has not come to its `stop()`: nothing but that
  thread ends the run. That it may starve there is real, and not covered by a property.
* Session: strong fairness of each thread's steps: mutex and GIL are free again and
  again, and a waiter is not passed over for ever; and of `Exit` or `Raise`: a callback
  ends, however many bindings it calls. Requests, signals and power losses
  need not come.
* Modbus: strong fairness of each caller: `modbus_*` return after a response timeout.

Each property of a passing run has a mutant in PROJECT.json: a plausible bug in one
mapped definition (a dropped lock, a missing reset, an off-by-one, a sync left out)
under which the property fails. The mutants' operators stand before the definitions
they replace, and most of these are one line of the code with a name of its own.

## 4. Where the code and its words differ

Checked by runs: the four marked above, quoted in PROJECT.json under `findings`.

Seen while modelling and left without a run of their own:

* main.cpp 603: the same stale `next()` as in quest_solved_next reads `_state` without
  the mutex, and arms a quest that has been stopped in between.
* main.cpp 585: `tick()` reads `_state` without the mutex and stores 0 later (594). A quest
  that is set RUNning in between has its times put back to 0. What is lost is time from
  before it was set RUNning, for nobody but this thread counts any; `ClockForward` excepts
  that store and nothing else.
* main.cpp 372: `set_script` truncates the file before it writes. A power loss between the
  `open()` and the `sync()` loses the old script, and perhaps the new one; two `set_script`
  calls at once may leave a mixture of the two, each answered with OK. `SavedSurvives` is
  about one with nobody in its way.
* main.cpp 94: the result of `run_cmd()` is stored unchecked. When it fails, `_pid` is -1, and
  the `stop()` that follows is `kill(-1, SIGKILL)`: it ends every process of the box but init
  and this one. `KillsOne` excepts a player whose last `run_cmd()` failed.
* main.cpp 911: after a read that has failed the script gets an uninitialized value.
* main.cpp 729: a signal that comes while a script is loading is forgotten, as the
  `set_script` of session_script_lost is.
* main.cpp 382: the error branch of `set_script` is never taken; a file that cannot be
  opened is answered with OK.
* main.cpp 947: the signal handler is installed before the object it dereferences.
* main.cpp 102: `isPlaying()` is true for any process that has the pid.
* main.cpp 863: `setLow` of the GPIO binding sets the pin HIGH.
* scenario.py 155: the door's board may not have executed the write.
* main.cpp 90: `gainStr` points into a temporary that is gone in the next statement.
* main.cpp 909-923: the bindings of `ReadRegisters` and `WriteRegisters` make and read
  Python objects without the GIL. `BindingAlone` says why that is harmless once a quest
  loops; while a script is being loaded, the loading thread can take the GIL and run
  Python beside the binding a client is in.
* main.cpp 166: `solve()` of a solved puzzle does not clear `_running`. After RUN is set
  again in a running game, or RUN out of STOP without ARM, solved puzzles go on running,
  and the talking ones among them go on taking the presses of the tip button. The premise
  `clean` of `OnlyCurrentListens` (armed out of a stopped quest, started once) is needed.
* main.cpp 652: `arm()` in a running game leaves the current puzzle, so that a sensor can
  solve, and a key advance, a quest that is armed and has not been started.
* main.cpp 706: an exception out of an `onStop()` called by a client's `stop()` leaves the
  state STOP with a current puzzle; when that puzzle is solved, the `next()` of `loop()`
  arms the quest that was to be stopped. An `off()` cut off likewise leaves the power on.
* main.cpp 380: a `set_script` whose `stopQuest()` raises has saved the new script, and the
  old quest goes on.
* scenario.py 19: a tip goes on playing after the quest has been stopped, and a press of
  the tip button between two polls is not seen.

## 5. The proofs

All proofs are checked by TLAPS, from the named assumptions on the constants alone
(`QuestAssumption`, `GameAssumption`, `ScenarioAssumption`, `SessionAssumption`,
`ModbusAssumption`, `PlayerAssumption`: numbers are naturals, the names of threads, scripts
and values are distinct, the script has at most one library door; TLC evaluates them in
the runs). They hold for every number of puzzles, clients, scripts, boards and pids.

**QuestProofs.** `TypeOK` is inductive by itself; that `_currentPuzzle` stays within
`1..N + 1` is part of it and rests on the comparison with `end()` in `Advance`.
`QuietPuzzles` is inductive with it: the only region that could start a puzzle of a
stopped quest is `Advance`, which sees `end()`, for `Off` and `Stop` set it in the same
region as the state. `PrefixSolved`, `CurrentStarted` and `PowerFollowsState` are each
inductive together with `TypeOK`; `SolvedInOrder` is an action property that follows from
them step by step. `ClockForward` needs an invariant of its own (`ClockInv`): the time
`tick()` has loaded is not behind the quest's, for in between only `stopQuest()` writes that one,
and it writes 0, and there is an interval left to add. The store of 0 of a tick that has read
another state is excepted by its place (`tickReset`), for the quest may have been set RUNning
since. One lemma per invariant for the calls of any thread and one for `loop()`
carry the induction; the lemmas on `SolvePuzzle`, `RunPuzzle`, ... carry the data.

Two theorems are about the way the main thread goes. `NoSelfDeadlock`: it never enters a
method while it has the mutex from a part of `loop()`, for `KeepsOnlyToPoll` says between
which parts it keeps it. `ExitIsBounded`: `StepsLeft` numbers the places of `loadQuest()` by
their distance from its end; once `isRunning` is cleared every step of Main lowers it, no step
of a client raises it, it never exceeds 46, and it is 0 only at the end. This is `SessionEnds`
but for the fairness that makes Main take its steps.

**QuestRefinement.** `Spec => ImplementsGame`: the initial state is one of Game, and every
action of Quest is a step of Game or leaves its variables alone. Two facts of QuestProofs
are needed: `TypeOK`, for the step past the last puzzle, and `QuietPuzzles`, for a `next()`
that arrives in a stopped quest must find no current puzzle.

**FaultProofs.** A step of QuestFaults is one of Quest, which keeps the invariants by the
lemmas of QuestProofs, or a cut-off operation. What survives is `PrefixSolved`,
`CurrentStarted` and, of `QuietPuzzles`, only that nothing is current when the quest is OFF
(`off()` clears `_currentPuzzle` before anything can raise, `stop()` after everything). The
rest of `QuietPuzzles` and `PowerFollowsState` is inductive under the premise `~half`: the
completed `off()` or `stop()` that ends `half` establishes it afresh (`Completes`).
`LeavesUnloaded` follows from `Leaving`: once Main is on its way out of `loadQuest()` it does
not come back. The order of the puzzles, the clock, the mutex of `loop()` and the bounded way
out hold as in QuestProofs: `RaiseOrder`, `RaiseClock`, `RaiseMoves` and `RaiseExit` say of an
exception what the lemmas there say of a step, and the way out has two steps more, those of the
`stopQuest()` in the catch.

**FaultRefinement.** `FaultSpec => ImplementsFaultGame`. A step of Quest is one of Game by the
lemmas of QuestRefinement, without the premise `QuietPuzzles` that exceptions cost: a quest that
is moved on has a current puzzle, so by `OffHasNoCurrent` and `RestUnlessHalf` it is in play
(`GoOn`, `Sense`) or its `stop()` has been cut off (`Straggle`). A cut-off operation is one of
the parts, with `SameParts` for the puzzles it has reached.

**ScenarioProofs.** One inductive invariant for all. `LockedUntilSolved` needs only the types
with it; `StoppedRoomIsOpen` the fact that a stopped game has stopped every puzzle;
`DoorAheadIsShut` that the callbacks of `arm()` shut the door for whatever mode follows
(`Shut`). `OpensInOrder` is about the room in time: while the quest runs everything behind the
players is open, since what they have passed is solved (`Passed`, what `PrefixSolved` says of
the engine, proved anew of Game), and only the compartment of the current puzzle can open. The tips rest on `Orderly`: in a game armed out of a stopped quest and started once,
nothing ahead of the players has begun and only the puzzle they are at is running. Therefore
only that puzzle can hear the button, nobody else can start a tip on the shared player while
the aquarium is current, and a silent player with `_talk` set has ended the aquarium's own
tip (`Talks`).

**SessionProofs.** No invariant is inductive as it stands. The strengthening `IInv` says where
threads can be: inside an operation they have the lock (`Owners`); they call Python only while
an object is registered (`Callees`); there are objects, and `main` is between the start and
the end of a script, only while the interpreter is up (`Initialized`); what is finalized is
empty (`Emptied`). `Clear` is the step that matters: it runs with the lock free, so that
nobody is inside a callback when the objects go. For the GIL, `Yields` adds that a nested
acquisition never happens in `loop()`; for the iterator, `Valid` follows staleness from the
`off()` of `loadQuest()` to the loop. There is one lemma per action. `BindingAlone` needs one
more fact (`Holders`): a client that has the GIL is inside a callback, and so has the lock.

`SavedCorrect` needs three facts (`Safe`): from a `sync()` to the next `open()` nobody is
writing (`Kept`), and a `set_script` nobody runs into (not in `mixed`) has the file to itself,
empty before its `write()` (`Begun`) and its own script after it (`Complete`). `OpenSafe` is
the step that matters: it puts into `mixed` whoever is not through with the file.

`DeadlockCorrect` (`OnlyLoadingBlocks`) settles every wait for the mutex and the GIL at once. `WaitsFor` lists who
waits for whom; nobody waits for what he has himself (`Apart`), so a circle has two
threads, one with the mutex and one with the GIL, and `Holders` and `Yields` leave for the
second only Main in `loadQuest()` before the loop or in its catch.

**ModbusProofs.** The thread that tries is the one that has `_accessMutex` (`Holder`), it has
an attempt left (`Budget`), and a waiting call has done nothing (`Fresh`); the four properties
are inductive with these. `Atomicity` is the refinement of Line: an attempt is `TakeWrite` or
`TakeRead`, or a stutter when a write to a board outside `Active` is repeated, because by
`WriteIsolated` the register holds the value already. `CallsAreBounded` is what `CallsReturn` needs of the code beyond fairness:
a call under way is over after `2 * RetryCount + 1` steps of its own.

**PlayerProofs.** `NoOrphan` is inductive once a player between the `stop()` and the
`run_cmd()` of `play()` is known to be silent (`SilentBetween`): a `kill()` that fails means that
there was no such process, hence no child, and a `kill(-1)` leaves nobody a child. `KillsOne`
follows from the last part of `TypeOK`, that -1 is never the pid of a player whose last `run_cmd()`
succeeded. `StopSilences` and `PlayingIsSeen`, which Scenario relies on, are proved only.

## 6. Only model-checked, not modelled

Only model-checked: the liveness properties `RunEnds`, `SessionEnds`, `Unloads` and
`CallsReturn` (fairness is outside the prover's reach). Of `SessionEnds` and `CallsReturn`
the part that is about the code is proved, a bound on the steps that are left
(`ExitIsBounded`, `ExitIsBoundedWithFaults`, `CallsAreBounded`). Every other property of a
passing run is a theorem.

Not modelled: the GPIO binding, options, HTTP and logging (no state the quest depends on);
`toJson()`, which reads the engine's variables and the vector of puzzles without the lock
and about which the code promises nothing; example.py, an older version of scenario.py; the
host scripts; libraries outside `src/`. Of scenario.py: the lamp beside the tip button and
the phrases sent to the spiritualist's board; what `PuzzleWaitDesk` reads from that board is a
free input.

## 7. Plan

Done: 1 PuzzleBase and Quest, 2 QuestProofs, 3 Session, 4 Modbus, 5 Mpg123Player,
6 Game and QuestRefinement, 7 Scenario and ScenarioProofs, 8 QuestFaults and FaultProofs,
9 the bindings in Session, 10 Line and the refinement of it by Modbus, 11 FaultGame and
FaultRefinement, 12 the bounded ways out and the deadlocks.

Left: Session and Quest in one model (a reload with every flag of the old quest), if an
instance of it can be made small enough; what `RunEnds` needs of the code beyond fairness, as a
bound on the ticks a running quest has left.
