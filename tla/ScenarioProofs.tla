--------------------------- MODULE ScenarioProofs ---------------------------
(***************************************************************************)
(* The properties of Scenario, for any number of puzzles of any kinds.     *)
(*                                                                         *)
(* One inductive invariant carries them all.  Beside the properties it     *)
(* says what the game keeps (Flags, Quiet), that the callbacks of arm()    *)
(* shut the door for every mode that follows (Shut), and, for the tips,    *)
(* where a game is that was armed and started once (Orderly): nothing      *)
(* ahead of the players has begun, so that only the puzzle they are at can *)
(* have heard the button, and its title is on or has ended (Talks).        *)
(***************************************************************************)
EXTENDS Scenario, TLAPS

USE DEF Silence, Effect, END

Flags ==
  /\ mode \in {"OFF", "STOP", "ARM", "RUN"} /\ at \in 1..END
  /\ puzzle \in [1..N -> PuzzleFlags]
  /\ power \in BOOLEAN /\ loaded \in BOOLEAN
  /\ ~loaded => at = END

Quiet ==
  loaded /\ mode \in {"OFF", "STOP"} =>
    /\ at = END /\ \A p \in 1..N : puzzle[p] = StoppedPuzzle
    /\ magnet = {} /\ ~music /\ lamp = {} /\ (lost \/ door = "open")

Plain ==
  /\ Intros = {} => ~music
  /\ Doors = {} => lost \/ door = "open"

Shut == loaded /\ ~lost => \A p \in Doors : ~puzzle[p].solved => door = "closed"

Orderly ==
  clean /\ loaded =>
    \/ /\ mode = "ARM" /\ at = END /\ talk = {}
       /\ \A p \in 1..N : ~puzzle[p].solved /\ ~puzzle[p].running
    \/ /\ mode = "RUN"
       /\ \A p \in 1..N : p > at => ~puzzle[p].solved /\ ~puzzle[p].running
       /\ \A p \in 1..N : puzzle[p].running => p = at /\ ~puzzle[p].solved
       /\ \A p \in talk : p <= at

Talks ==
  clean /\ loaded /\ at \in talk /\ ~puzzle[at].solved =>
    title = at \/ (title = Silence /\ told = at)

IInv == /\ Flags /\ RoomTypeOK /\ LockedUntilSolved /\ Quiet /\ Plain
        /\ Shut /\ Orderly /\ HeardOnce /\ Talks

-----------------------------------------------------------------------------
\* The sets of puzzles of a kind are what their names say.
LEMMA KindSets ==
  /\ Locked \subseteq 1..N /\ Listeners \subseteq 1..N /\ Doors \subseteq Locked
  /\ Aquas \subseteq Listeners /\ Intros \subseteq 1..N
  /\ Lamps = Doors \cup Aquas
BY DEF OfKind, Locked, Listeners, Doors, Aquas, Intros, Lamps

\* The operations of a puzzle keep its type and do to it what their names say.
LEMMA PuzzleSteps ==
  ASSUME NEW z \in PuzzleFlags
  PROVE  /\ SolvePuzzle(z) \in PuzzleFlags /\ RunPuzzle(z) \in PuzzleFlags
         /\ StopPuzzle(z) = StoppedPuzzle /\ StoppedPuzzle \in PuzzleFlags
         /\ ArmPuzzle(z) \in PuzzleFlags
         /\ SolvePuzzle(z).solved
         /\ SolvePuzzle(z).running => z.running /\ z.solved
         /\ RunPuzzle(z).solved = z.solved /\ RunPuzzle(z).running
         /\ ~ArmPuzzle(z).solved /\ ~ArmPuzzle(z).running
         /\ StoppedPuzzle.solved /\ ~StoppedPuzzle.running
BY DEF SolvePuzzle, RunPuzzle, StopPuzzle, StoppedPuzzle, ArmPuzzle, PuzzleFlags

\* A quest that has just been loaded is in a room that is open and silent.
LEMMA InitIInv == RoomInit => IInv
<1> SUFFICES ASSUME RoomInit PROVE IInv
  OBVIOUS
<1> USE DEF RoomInit, Init
<1>1. at \in 1..END
  BY GameAssumption
<1>2. \A p \in 1..N : puzzle[p] = StoppedPuzzle
  OBVIOUS
<1>3. Flags
  BY <1>1 DEF Flags, PuzzleFlags, StoppedPuzzle
<1>4. Quiet
  BY <1>2 DEF Quiet
<1>5. RoomTypeOK
  BY DEF RoomTypeOK, Down
<1>6. LockedUntilSolved /\ Shut
  BY <1>2, KindSets DEF LockedUntilSolved, Shut, StoppedPuzzle
<1>7. Plain /\ Orderly /\ Talks /\ HeardOnce
  BY DEF Plain, Orderly, Talks, HeardOnce, IsPressed, Down
<1> QED
  BY <1>3, <1>4, <1>5, <1>6, <1>7 DEF IInv

-----------------------------------------------------------------------------
\* off() and stop() open the room, whatever was in play.
LEMMA StopStep ==
  ASSUME IInv, RoomOff \/ RoomStop
  PROVE  IInv'
<1> USE DEF IInv
<1>1. /\ mode' \in {"OFF", "STOP"} /\ at' = END /\ loaded' = loaded /\ clean' = FALSE
      /\ puzzle' = [p \in 1..N |-> IF p \in Present THEN StopPuzzle(puzzle[p])
                                                    ELSE puzzle[p]]
      /\ power' \in BOOLEAN /\ OnStop(Present)
  BY DEF RoomOff, RoomStop, SwitchOff, StopAll, Flags
<1>2. Flags'
  BY <1>1, PuzzleSteps, GameAssumption DEF Flags
<1>3. ASSUME loaded PROVE \A p \in 1..N : puzzle'[p] = StoppedPuzzle
  BY <1>1, <1>3, PuzzleSteps DEF Present, Flags
<1>4. RoomTypeOK'
  BY <1>1 DEF OnStop, MusicAfterStop, WriteDoor, StoppedDoor, tips, RoomTypeOK
<1>5. ASSUME loaded PROVE magnet' = {} /\ lamp' = {} /\ ~music' /\ (lost' \/ door' = "open")
  <2>1. Present = 1..N
    BY <1>5 DEF Present
  <2>2. magnet' = {} /\ lamp' = {}
    BY <1>1, <2>1, KindSets DEF OnStop, RoomTypeOK
  <2>3. ~music'
    BY <1>1, <2>1, KindSets DEF OnStop, MusicAfterStop, Plain
  <2>4. lost' \/ door' = "open"
    BY <1>1, <2>1, KindSets DEF OnStop, WriteDoor, StoppedDoor, Plain
  <2> QED
    BY <2>2, <2>3, <2>4
<1>6. Quiet'
  BY <1>1, <1>3, <1>5 DEF Quiet
<1>7. LockedUntilSolved' /\ Shut'
  <2>1. CASE loaded
    <3>1. \A p \in 1..N : puzzle'[p].solved
      BY <1>3, <2>1 DEF StoppedPuzzle
    <3> QED
      BY <1>1, <1>5, <2>1, <3>1, KindSets DEF LockedUntilSolved, Shut
  <2>2. CASE ~loaded
    BY <1>1, <2>2 DEF LockedUntilSolved, Shut
  <2> QED
    BY <2>1, <2>2
<1>8. Plain'
  BY <1>1 DEF OnStop, MusicAfterStop, WriteDoor, Plain
<1>9. Orderly' /\ Talks' /\ HeardOnce'
  BY <1>1 DEF Orderly, Talks, HeardOnce, IsPressed, Down, OnStop, tips
<1> QED
  BY <1>2, <1>4, <1>6, <1>7, <1>8, <1>9

\* arm() locks every compartment and shuts the door.
LEMMA ArmStep ==
  ASSUME IInv, RoomArm
  PROVE  IInv'
<1> USE DEF IInv
<1>1. /\ mode' = "ARM" /\ at' = at /\ loaded' = loaded /\ clean' = (at = END)
      /\ puzzle' = [p \in 1..N |-> IF p \in Present THEN ArmPuzzle(puzzle[p])
                                                    ELSE puzzle[p]]
      /\ power' = power /\ OnArm(Present)
  BY DEF RoomArm, ArmAll
<1>2. Flags'
  BY <1>1, PuzzleSteps DEF Flags
<1>3. ASSUME loaded
      PROVE \A p \in 1..N : ~puzzle'[p].solved /\ ~puzzle'[p].running
  BY <1>1, <1>3, PuzzleSteps DEF Present, Flags
<1>4. RoomTypeOK'
  BY <1>1, KindSets DEF OnArm, Held, WriteDoor, ArmedDoor, RoomTypeOK
<1>5. LockedUntilSolved'
  BY <1>1, <1>3, KindSets DEF OnArm, Held, Present, LockedUntilSolved, RoomTypeOK
<1>6. Shut'
  BY <1>1, KindSets DEF OnArm, WriteDoor, ArmedDoor, Present, Shut
<1>7. Quiet' /\ Plain'
  BY <1>1 DEF OnArm, WriteDoor, Quiet, Plain
<1>8. ASSUME loaded PROVE talk' = {}
  BY <1>1, <1>8, KindSets DEF OnArm, Present, RoomTypeOK
<1>9. Orderly' /\ Talks'
  BY <1>1, <1>3, <1>8 DEF Orderly, Talks
<1>10. HeardOnce'
  BY <1>1 DEF OnArm, HeardOnce, IsPressed, Down
<1> QED
  BY <1>2, <1>4, <1>5, <1>6, <1>7, <1>9, <1>10

\* run() moves the players to the first puzzle; nothing is solved by it.
LEMMA StartStep ==
  ASSUME IInv, RoomStart
  PROVE  IInv'
<1> USE DEF IInv
<1>1. /\ mode' = "RUN" /\ loaded' = loaded /\ power' = power
      /\ clean' = (clean /\ mode = "ARM" /\ at = END)
      /\ at' = IF 1 \in Present THEN 1 ELSE END
      /\ puzzle' = [p \in 1..N |-> IF p = at' THEN RunPuzzle(puzzle[p]) ELSE puzzle[p]]
      /\ OnSolveThenRun({}, {1} \cap Present)
  BY DEF RoomStart, Start
<1>2. at' \in 1..END
  BY <1>1, GameAssumption
<1>3. Flags'
  BY <1>1, <1>2, PuzzleSteps DEF Flags, Present
<1>4. \A p \in 1..N : /\ puzzle'[p].solved = puzzle[p].solved
                      /\ p # at' => puzzle'[p] = puzzle[p]
  BY <1>1, PuzzleSteps DEF Flags
<1>5. /\ magnet' = magnet /\ door' = door /\ lost' = lost
      /\ title' = title /\ told' = told
      /\ button' = button /\ domush' = domush /\ talk' = talk
  BY <1>1 DEF OnSolveThenRun, Released, WriteDoor
<1>6. RoomTypeOK'
  BY <1>1, <1>5, KindSets DEF OnSolveThenRun, RoomTypeOK
<1>7. LockedUntilSolved' /\ Shut'
  BY <1>1, <1>4, <1>5, KindSets DEF LockedUntilSolved, Shut
<1>8. Quiet' /\ Plain' /\ HeardOnce'
  <2>1. Quiet'
    BY <1>1 DEF Quiet
  <2>2. Plain'
    BY <1>1, <1>5 DEF OnSolveThenRun, Plain
  <2>3. HeardOnce'
    BY <1>5 DEF HeardOnce, IsPressed, Down
  <2> QED
    BY <2>1, <2>2, <2>3
<1>9. ASSUME clean', loaded'
      PROVE  /\ talk' = {}
             /\ \A p \in 1..N : ~puzzle'[p].solved
             /\ \A p \in 1..N : p # at' => ~puzzle'[p].running
  BY <1>1, <1>4, <1>5, <1>9 DEF Orderly
<1>10. Orderly' /\ Talks'
  BY <1>1, <1>2, <1>9, GameAssumption DEF Orderly, Talks
<1> QED
  BY <1>3, <1>6, <1>7, <1>8, <1>10

\* What next() and a sensor do to the room: they open what they solve.
LEMMA SolvedRoom ==
  ASSUME IInv, InPlay, NEW ps \in SUBSET (1..N), NEW qs \in SUBSET (1..N),
         ps \subseteq {at}, OnSolveThenRun(ps, qs),
         mode' = mode, loaded' = loaded, clean' = clean,
         \A p \in 1..N : puzzle'[p].solved = (puzzle[p].solved \/ p \in ps)
  PROVE  RoomTypeOK' /\ LockedUntilSolved' /\ Quiet' /\ Plain' /\ Shut' /\ HeardOnce'
<1> USE DEF IInv, OnSolveThenRun
<1>1. RoomTypeOK'
  <2>1. magnet' \subseteq Locked /\ lamp' \subseteq Lamps /\ talk' \subseteq Aquas
    BY KindSets DEF Released, RoomTypeOK
  <2>2. lost' \in BOOLEAN /\ door' \in {"open", "closed"}
    BY DEF WriteDoor, StoppedDoor, RoomTypeOK
  <2>3. title' \in Listeners \cup {Silence, Effect} /\ told' \in Listeners \cup {0}
    BY DEF RoomTypeOK
  <2>4. clean' \in BOOLEAN /\ music' \in BOOLEAN
    BY DEF RoomTypeOK
  <2> QED
    BY <2>1, <2>2, <2>3, <2>4 DEF RoomTypeOK
<1>2. LockedUntilSolved'
  BY KindSets DEF Released, LockedUntilSolved
<1>3. Quiet'
  BY DEF InPlay, Quiet
<1>4. Plain'
  BY DEF WriteDoor, Plain
<1>5. Shut'
  <2>1. CASE ps \cap Doors = {}
    BY <2>1, KindSets DEF WriteDoor, Shut
  <2>2. CASE ps \cap Doors # {}
    BY <2>2, KindSets, ScenarioAssumption DEF Shut
  <2> QED
    BY <2>1, <2>2
<1>6. HeardOnce'
  BY DEF HeardOnce, IsPressed, Down
<1> QED
  BY <1>1, <1>2, <1>3, <1>4, <1>5, <1>6

\* next() solves the current puzzle, if need be, and starts the one after it.
LEMMA GoOnStep ==
  ASSUME IInv, RoomGoOn
  PROVE  IInv'
<1> USE DEF IInv
<1> DEFINE ps == Unsolved({at})
           qs == {at + 1} \cap 1..N
<1>1. /\ InPlay /\ at' = at + 1 /\ mode' = mode /\ power' = power
      /\ loaded' = loaded /\ clean' = clean /\ OnSolveThenRun(ps, qs)
      /\ puzzle' = [p \in 1..N |-> CASE p = at  -> SolvePuzzle(puzzle[p])
                                     [] p = at' -> RunPuzzle(puzzle[p])
                                     [] OTHER   -> puzzle[p]]
  BY DEF RoomGoOn, GoOn, MoveOn
<1>2. at \in 1..N /\ at' \in 1..END /\ at' # at
  BY <1>1, GameAssumption DEF InPlay, Flags
<1>3. /\ puzzle' [at] = SolvePuzzle(puzzle[at])
      /\ \A p \in 1..N : p = at' => puzzle'[p] = RunPuzzle(puzzle[p])
      /\ \A p \in 1..N : p # at /\ p # at' => puzzle'[p] = puzzle[p]
  BY <1>1, <1>2
<1>4. Flags'
  <2>1. \A p \in 1..N : puzzle'[p] \in PuzzleFlags
    BY <1>2, <1>3, PuzzleSteps DEF Flags
  <2> QED
    BY <1>1, <1>2, <2>1 DEF Flags
<1>5. \A p \in 1..N : puzzle'[p].solved = (puzzle[p].solved \/ p \in ps)
  BY <1>2, <1>3, PuzzleSteps DEF Flags, Unsolved, PuzzleFlags
<1>6. RoomTypeOK' /\ LockedUntilSolved' /\ Quiet' /\ Plain' /\ Shut' /\ HeardOnce'
  BY <1>1, <1>5, SolvedRoom DEF Unsolved
<1>7. ASSUME clean, loaded
      PROVE  /\ mode = "RUN" /\ talk' = talk
             /\ \A p \in 1..N : p > at' => ~puzzle'[p].solved /\ ~puzzle'[p].running
             /\ \A p \in 1..N : puzzle'[p].running => p = at' /\ ~puzzle'[p].solved
             /\ \A p \in talk : p <= at
  <2>1. /\ mode = "RUN"
        /\ \A p \in 1..N : p > at => ~puzzle[p].solved /\ ~puzzle[p].running
        /\ \A p \in 1..N : puzzle[p].running => p = at /\ ~puzzle[p].solved
        /\ \A p \in talk : p <= at
    BY <1>1, <1>7 DEF Orderly, InPlay
  <2>2. talk' = talk
    BY <1>1 DEF OnSolveThenRun
  <2>3. \A p \in 1..N : p > at' => ~puzzle'[p].solved /\ ~puzzle'[p].running
    BY <1>1, <1>2, <1>3, <2>1
  <2>4. \A p \in 1..N : puzzle'[p].running => p = at' /\ ~puzzle'[p].solved
    <3>1. ~puzzle'[at].running
      BY <1>2, <1>3, <2>1, PuzzleSteps DEF Flags
    <3>2. \A p \in 1..N : p = at' => ~puzzle'[p].solved
      BY <1>1, <1>2, <1>3, <2>1, PuzzleSteps DEF Flags
    <3> QED
      BY <1>2, <1>3, <2>1, <3>1, <3>2
  <2> QED
    BY <2>1, <2>2, <2>3, <2>4
<1>8. Orderly'
  <2>1. ASSUME clean, loaded PROVE \A p \in talk' : p <= at'
    BY <1>1, <1>2, <1>7, <2>1, KindSets DEF RoomTypeOK
  <2> QED
    BY <1>1, <1>7, <2>1 DEF Orderly
<1>9. Talks'
  <2>1. ASSUME clean, loaded PROVE at' \notin talk'
    BY <1>1, <1>2, <1>7, <2>1
  <2> QED
    BY <1>1, <2>1 DEF Talks
<1> QED
  BY <1>4, <1>6, <1>8, <1>9

\* A sensor solves the current puzzle and leaves the players where they are.
LEMMA SenseStep ==
  ASSUME IInv, RoomSense
  PROVE  IInv'
<1> USE DEF IInv
<1>1. /\ InPlay /\ at' = at /\ mode' = mode /\ power' = power
      /\ loaded' = loaded /\ clean' = clean /\ OnSolveThenRun({at}, {})
      /\ puzzle' = [puzzle EXCEPT ![at] = SolvePuzzle(puzzle[at])]
      /\ ~puzzle[at].solved
  BY DEF RoomSense, Sense, SolveHere
<1>2. at \in 1..N
  BY <1>1, GameAssumption DEF InPlay, Flags
<1>3. /\ puzzle'[at] = SolvePuzzle(puzzle[at])
      /\ \A p \in 1..N : p # at => puzzle'[p] = puzzle[p]
  BY <1>1, <1>2 DEF Flags
<1>4. Flags'
  BY <1>1, <1>2, PuzzleSteps DEF Flags
<1>5. puzzle'[at].solved /\ ~puzzle'[at].running
  BY <1>1, <1>2, <1>3, PuzzleSteps DEF Flags
<1>6. \A p \in 1..N : puzzle'[p].solved = (puzzle[p].solved \/ p \in {at})
  BY <1>2, <1>3, <1>5, PuzzleSteps DEF Flags, PuzzleFlags
<1>7. RoomTypeOK' /\ LockedUntilSolved' /\ Quiet' /\ Plain' /\ Shut' /\ HeardOnce'
  BY <1>1, <1>2, <1>6, SolvedRoom
<1>8. Orderly'
  <2>1. talk' = talk
    BY <1>1 DEF OnSolveThenRun
  <2>2. ASSUME clean, loaded PROVE mode = "RUN" /\ at # END
    BY <1>1, <2>2 DEF Orderly, InPlay
  <2> QED
    BY <1>1, <1>2, <1>3, <1>5, <2>1, <2>2 DEF Orderly
<1>9. Talks'
  BY <1>1, <1>5 DEF Talks
<1> QED
  BY <1>4, <1>7, <1>8, <1>9

\* A tip: only a puzzle that is running starts one.
LEMMA LookStep ==
  ASSUME IInv, NEW p \in Listeners, Look(p)
  PROVE  IInv'
<1> USE DEF IInv, Look, game, devices
<1>1. Flags' /\ LockedUntilSolved' /\ Quiet' /\ Plain' /\ Shut'
  BY DEF Flags, LockedUntilSolved, Quiet, Plain, Shut
<1>2. RoomTypeOK'
  BY DEF RoomTypeOK, Down
<1>3. HeardOnce'
  BY DEF HeardOnce, IsPressed, Down
<1>4. ASSUME clean, loaded PROVE p = at /\ ~puzzle[p].solved /\ mode = "RUN"
  BY <1>4, KindSets DEF Orderly
<1>5. Orderly'
  <2>1. ASSUME clean, loaded PROVE \A q \in talk' : q <= at
    BY <1>4, <2>1, GameAssumption DEF Orderly, Flags
  <2> QED
    BY <1>4, <2>1 DEF Orderly
<1>6. Talks'
  <2>1. SUFFICES ASSUME clean, loaded, at \in talk', ~puzzle[at].solved
                 PROVE  title' = at \/ (title' = Silence /\ told' = at)
    BY DEF Talks
  <2>2. CASE IsPressed
    BY <1>4, <2>1, <2>2
  <2>3. CASE ~IsPressed
    BY <2>1, <2>3 DEF Talks
  <2> QED
    BY <2>2, <2>3
<1> QED
  BY <1>1, <1>2, <1>3, <1>5, <1>6

\* Every title is on until it ends.
LEMMA TitleStep ==
  ASSUME IInv, TitleEnds
  PROVE  IInv'
<1> USE DEF IInv, TitleEnds, game, devices
<1>1. Flags' /\ LockedUntilSolved' /\ Quiet' /\ Plain' /\ Shut' /\ Orderly'
  BY DEF Flags, LockedUntilSolved, Quiet, Plain, Shut, Orderly
<1>2. RoomTypeOK' /\ HeardOnce'
  BY DEF RoomTypeOK, HeardOnce, IsPressed, Down
<1>3. Talks'
  BY KindSets DEF Talks, RoomTypeOK
<1> QED
  BY <1>1, <1>2, <1>3

\* The button itself, the unloading, and a step of something else.
LEMMA OtherStep ==
  ASSUME IInv, Press \/ Release \/ RoomUnload \/ UNCHANGED roomVars
  PROVE  IInv'
<1> USE DEF IInv
<1>1. CASE Press \/ Release
  <2>1. UNCHANGED <<game, devices, domush, talk, title, told, clean>>
    BY <1>1 DEF Press, Release
  <2>2. Flags' /\ LockedUntilSolved' /\ Quiet' /\ Plain' /\ Shut'
    BY <2>1 DEF Flags, LockedUntilSolved, Quiet, Plain, Shut, game, devices
  <2>3. Orderly' /\ Talks'
    BY <2>1 DEF Orderly, Talks, game, devices
  <2>4. RoomTypeOK' /\ HeardOnce'
    BY <1>1, <2>1 DEF Press, Release, game, devices, RoomTypeOK, HeardOnce, IsPressed, Down
  <2> QED
    BY <2>2, <2>3, <2>4
<1>2. CASE RoomUnload
  <2> USE <1>2 DEF RoomUnload, Unload, devices, tips
  <2>1. END \in 1..END
    BY GameAssumption
  <2>2. Flags'
    BY <2>1 DEF Flags
  <2>3. LockedUntilSolved' /\ Quiet' /\ Shut' /\ Orderly' /\ Talks'
    BY DEF LockedUntilSolved, Quiet, Shut, Orderly, Talks
  <2>4. RoomTypeOK' /\ HeardOnce' /\ Plain'
    BY DEF RoomTypeOK, HeardOnce, IsPressed, Down, Plain
  <2> QED
    BY <2>2, <2>3, <2>4
<1>3. CASE UNCHANGED roomVars
  BY <1>3 DEF roomVars, game, devices, tips, Flags, LockedUntilSolved, Quiet, Plain, Shut,
              Orderly, Talks, RoomTypeOK, HeardOnce, IsPressed, Down
<1> QED
  BY <1>1, <1>2, <1>3

\* The invariant is inductive.
THEOREM Invariance == RoomSpec => []IInv
<1>1. RoomInit => IInv
  BY InitIInv
<1>2. IInv /\ [RoomNext]_roomVars => IInv'
  BY StopStep, ArmStep, StartStep, GoOnStep, SenseStep, LookStep, TitleStep, OtherStep
     DEF RoomNext
<1> QED
  BY <1>1, <1>2, PTL DEF RoomSpec

-----------------------------------------------------------------------------
\* A stopped room is open because it is Quiet.
LEMMA Consequences ==
  IInv => /\ RoomTypeOK /\ LockedUntilSolved /\ StoppedRoomIsOpen /\ DoorAheadIsShut
          /\ OnlyCurrentListens /\ HeardOnce
<1> SUFFICES ASSUME IInv
             PROVE StoppedRoomIsOpen /\ DoorAheadIsShut /\ OnlyCurrentListens
  BY DEF IInv
<1> USE DEF IInv
<1>1. StoppedRoomIsOpen
  BY DEF Quiet, StoppedRoomIsOpen
<1>2. DoorAheadIsShut
  BY DEF Shut, DoorAheadIsShut
<1>3. OnlyCurrentListens
  BY DEF Orderly, OnlyCurrentListens
<1> QED
  BY <1>1, <1>2, <1>3

\* The devices keep their types.
THEOREM TypeCorrect == RoomSpec => []RoomTypeOK
BY Invariance, Consequences, PTL

\* A compartment is locked exactly while its puzzle is not solved.
THEOREM Locks == RoomSpec => []LockedUntilSolved
BY Invariance, Consequences, PTL

\* off() and stop() leave a room that is open and silent.
THEOREM Opens == RoomSpec => []StoppedRoomIsOpen
BY Invariance, Consequences, PTL

\* In a quest that RUNs the door ahead of the players is shut.
THEOREM Shuts == RoomSpec => []DoorAheadIsShut
BY Invariance, Consequences, PTL

\* In a game armed and started once only the current puzzle gives tips.
THEOREM Listens == RoomSpec => []OnlyCurrentListens
BY Invariance, Consequences, PTL

\* A press of the button is heard once.
THEOREM Hears == RoomSpec => []HeardOnce
BY Invariance, Consequences, PTL

\* The aquarium is solved by the end of its own tip.
THEOREM Tells == RoomSpec => TipBeforeAqua
<1> DEFINE Told == clean /\ at \in Aquas /\ at' = at /\ puzzle'[at].solved
                     /\ ~puzzle[at].solved => told = at
<1>1. ASSUME IInv, [RoomNext]_roomVars PROVE [Told]_roomVars
  <2> SUFFICES ASSUME RoomNext, clean, at \in Aquas, at' = at, puzzle'[at].solved,
                      ~puzzle[at].solved
               PROVE  told = at
    BY <1>1
  <2>1. at \in 1..N /\ at # END
    BY KindSets, GameAssumption
  <2>2. puzzle[at] \in PuzzleFlags /\ loaded
    BY <1>1, <2>1 DEF IInv, Flags
  <2>3. CASE RoomSense
    <3>1. OnTest(at)
      BY <2>3 DEF RoomSense
    <3>2. at \in talk /\ title = Silence
      BY <3>1 DEF OnTest, TalkOver, Aquas, OfKind
    <3>3. title # at
      BY <3>2, <2>1
    <3> QED
      BY <1>1, <2>2, <3>2, <3>3 DEF IInv, Talks
  <2>4. ~RoomOff /\ ~RoomStop /\ ~RoomGoOn /\ ~RoomUnload
    <3>1. at' # END /\ at' # at + 1
      BY <2>1
    <3> QED
      BY <3>1 DEF RoomOff, RoomStop, RoomGoOn, RoomUnload, SwitchOff, StopAll, GoOn, MoveOn, Unload
  <2>5. ~RoomArm
    <3>1. ~ArmPuzzle(puzzle[at]).solved
      BY <2>2, PuzzleSteps
    <3> QED
      BY <2>1, <3>1 DEF RoomArm, ArmAll
  <2>6. ~RoomStart
    <3>1. ~RunPuzzle(puzzle[at]).solved
      BY <2>2, PuzzleSteps
    <3> QED
      BY <2>1, <3>1 DEF RoomStart, Start
  <2>7. puzzle' # puzzle
    OBVIOUS
  <2>8. ~(\E p \in Listeners : Look(p)) /\ ~Press /\ ~Release /\ ~TitleEnds
    BY <2>7 DEF Look, Press, Release, TitleEnds, game
  <2> QED
    BY <2>3, <2>4, <2>5, <2>6, <2>8 DEF RoomNext
<1> QED
  BY <1>1, Invariance, PTL DEF RoomSpec, TipBeforeAqua

-----------------------------------------------------------------------------
\* What the players of a quest that RUNs have passed is solved.
Passed == mode = "RUN" /\ loaded => \A p \in 1..N : p < at => puzzle[p].solved

LEMMA PassedStep ==
  ASSUME IInv, Passed, [RoomNext]_roomVars
  PROVE  Passed'
<1> USE DEF IInv, Passed
<1>1. CASE RoomOff \/ RoomStop \/ RoomArm \/ RoomUnload
  BY <1>1 DEF RoomOff, RoomStop, RoomArm, RoomUnload, SwitchOff, StopAll, ArmAll, Unload
<1>2. CASE RoomStart
  <2>1. at' = 1 \/ ~loaded' \/ N = 0
    BY <1>2, GameAssumption DEF RoomStart, Start, Present
  <2> QED
    BY <2>1, GameAssumption
<1>3. ASSUME RoomGoOn \/ RoomSense, NEW p \in 1..N, puzzle[p].solved
      PROVE  puzzle'[p].solved
  <2>1. puzzle[p] \in PuzzleFlags
    BY DEF Flags
  <2>2. puzzle'[p] \in {SolvePuzzle(puzzle[p]), RunPuzzle(puzzle[p]), puzzle[p]}
    <3>1. CASE RoomGoOn
      BY <3>1 DEF RoomGoOn, GoOn, MoveOn
    <3>2. CASE RoomSense
      BY <3>2 DEF RoomSense, Sense, SolveHere, Flags
    <3> QED
      BY <1>3, <3>1, <3>2
  <2> QED
    BY <1>3, <2>1, <2>2, PuzzleSteps
<1>4. CASE RoomGoOn
  <2>1. /\ at \in 1..N /\ at' = at + 1 /\ puzzle'[at] = SolvePuzzle(puzzle[at])
        /\ UNCHANGED <<mode, loaded>>
    BY <1>4, GameAssumption DEF RoomGoOn, GoOn, MoveOn, InPlay, Flags
  <2>2. puzzle'[at].solved
    BY <2>1, PuzzleSteps DEF Flags
  <2>3. \A p \in 1..N : p < at + 1 => p < at \/ p = at
    BY <2>1
  <2> QED
    BY <1>3, <1>4, <2>1, <2>2, <2>3
<1>5. CASE RoomSense
  BY <1>3, <1>5 DEF RoomSense, Sense, SolveHere
<1>6. CASE \/ (\E p \in Listeners : Look(p)) \/ Press \/ Release \/ TitleEnds
           \/ UNCHANGED roomVars
  BY <1>6 DEF Look, Press, Release, TitleEnds, roomVars, game
<1> QED
  BY <1>1, <1>2, <1>4, <1>5, <1>6 DEF RoomNext

\* In a quest that RUNs every compartment behind the players is open, and from
\* there on compartments open one at a time, each when the players are at its
\* puzzle, and none shuts again: whoever moves the quest on, by key, timer, sensor
\* or web page, shows nothing out of order.
OpenBehind ==
  mode = "RUN" /\ loaded => \A p \in Locked : p < at => p \notin magnet

OpensOnlyHere ==
  [][mode = "RUN" /\ mode' = "RUN" =>
       magnet' \subseteq magnet /\ magnet \ magnet' \subseteq {at}]_roomVars

THEOREM OpensInOrder == RoomSpec => []OpenBehind /\ OpensOnlyHere
<1> DEFINE Here == mode = "RUN" /\ mode' = "RUN" =>
                     magnet' \subseteq magnet /\ magnet \ magnet' \subseteq {at}
<1>1. RoomInit => Passed
  BY DEF RoomInit, Init, Passed
<1>2. IInv /\ Passed /\ [RoomNext]_roomVars => Passed'
  BY PassedStep
<1>3. IInv /\ Passed => OpenBehind
  BY KindSets DEF IInv, LockedUntilSolved, Passed, OpenBehind
<1>4. [RoomNext]_roomVars => [Here]_roomVars
  <2> SUFFICES ASSUME RoomNext, mode = "RUN", mode' = "RUN" PROVE Here
    OBVIOUS
  <2>1. CASE RoomStart
    BY <2>1 DEF RoomStart, OnSolveThenRun, Released
  <2>2. CASE RoomGoOn
    BY <2>2 DEF RoomGoOn, OnSolveThenRun, Released, Unsolved
  <2>3. CASE RoomSense
    BY <2>3 DEF RoomSense, OnSolveThenRun, Released
  <2>4. ~RoomOff /\ ~RoomStop /\ ~RoomArm
    BY DEF RoomOff, RoomStop, RoomArm, SwitchOff, StopAll, ArmAll
  <2>5. CASE RoomUnload \/ (\E p \in Listeners : Look(p)) \/ Press \/ Release \/ TitleEnds
    BY <2>5 DEF RoomUnload, Look, Press, Release, TitleEnds, devices
  <2> QED
    BY <2>1, <2>2, <2>3, <2>4, <2>5 DEF RoomNext
<1> QED
  BY <1>1, <1>2, <1>3, <1>4, Invariance, PTL DEF RoomSpec, OpensOnlyHere
=============================================================================
