------------------------------ MODULE Scenario ------------------------------
(***************************************************************************)
(* The room of examples/scenario.py: a quest as Game promises it, and the  *)
(* devices the callbacks of the script's puzzles drive.  The engine calls  *)
(* back under _currentPuzzleLock, so the callbacks of one step of the game *)
(* are one step with it.                                                   *)
(*                                                                         *)
(* The classes of the script fall into these kinds:                        *)
(*   intro   PuzzleIntro: background music from onRun() to onStop()        *)
(*   desk    PuzzleDesk: writes to a board and tests nothing               *)
(*   wait    PuzzleWaitDesk: polls that board while it runs                *)
(*   box     PuzzleHanger, PuzzleClock: a magnet and a sensor              *)
(*   exit    PuzzleExit: a magnet                                          *)
(*   door    PuzzleLibrary: a magnet, a sensor, a lamp, and a door behind  *)
(*           a Modbus board                                                *)
(*   shelf   PuzzleDomushFlipBook, ...Amulet: a magnet and a tip           *)
(*   bust    PuzzleDomushCandle, ...Canary, ...Art: these and a sensor     *)
(*   aqua    PuzzleDomushAqua: a lamp that lights when it is solved, and a *)
(*           tip whose end solves it                                       *)
(* All tips are asked for with one button, and with all other sounds of    *)
(* solved puzzles they share one player.                                   *)
(***************************************************************************)
EXTENDS Game

CONSTANT Kind  \* Kind[p]: the kind of puzzle p

Kinds == {"intro", "desk", "wait", "box", "exit", "door", "shelf", "bust", "aqua"}

OfKind(ks) == {p \in 1..N : Kind[p] \in ks}
Intros == OfKind({"intro"})
Doors  == OfKind({"door"})
Aquas  == OfKind({"aqua"})
Locked == OfKind({"box", "exit", "door", "shelf", "bust"})
Lamps  == Doors \cup Aquas
Listeners == OfKind({"shelf", "bust", "aqua"})

\* The script has one PuzzleLibrary: two would share the register of the door.
ASSUME ScenarioAssumption ==
  /\ Kind \in [1..N -> Kinds]
  /\ \A p, q \in Doors : p = q

VARIABLES
  magnet,  \* the puzzles whose magnet holds (its pin is HIGH)
  lamp,    \* the puzzles whose lamp is lit
  music,   \* backgroundPlayer plays
  door,    \* register 0 of board 1: the door is "open" or "closed"
  lost,    \* history: the last WriteRegister() to the door failed
  button,  \* the tip button: "up", or held; history: its press has been heard
  domush,  \* domushButton._domushState: the button was down when last looked at
  talk,    \* the puzzles whose _talk is True
  title,   \* what oneShotPlayer plays: the tip of a puzzle, Effect or Silence
  told,    \* history: whose tip was played last and has come to its end, or 0
  clean    \* history: armed out of a stopped quest, then started once

devices == <<magnet, lamp, music, door, lost>>
tips == <<button, domush, talk, title, told>>
roomVars == <<game, devices, tips, clean>>

Silence == 0
Effect == END

-----------------------------------------------------------------------------
(***************************************************************************)
(* Callbacks, each for the set of puzzles it is called for.                *)
(***************************************************************************)
StoppedDoor == "open"
ArmedDoor == "closed"

\* MODBUS.WriteRegister(1, 0, ...): the result is not looked at.  A call that
\* fails may have moved the door or not.
WriteDoor(ps, position) ==
  IF ps \cap Doors = {}
    THEN UNCHANGED <<door, lost>>
    ELSE \/ door' = position /\ lost' = FALSE
         \/ door' \in {door, position} /\ lost' = TRUE

HeldEverywhere(ps) == magnet \cup ps
Held(ps) == magnet \cup (ps \cap Locked)

OnArm(ps) ==
  /\ magnet' = Held(ps)
  /\ lamp' = lamp \ (ps \cap Aquas)
  /\ talk' = talk \ ps
  /\ WriteDoor(ps, ArmedDoor)
  /\ UNCHANGED <<music, button, domush, title, told>>

MusicGoesOn(ps) == music
MusicAfterStop(ps) == music /\ ps \cap Intros = {}

OnStop(ps) ==
  /\ magnet' = magnet \ ps
  /\ lamp' = lamp \ ps
  /\ music' = MusicAfterStop(ps)
  /\ WriteDoor(ps, StoppedDoor)
  /\ UNCHANGED tips

StillHeld(solved) == magnet
Released(solved) == magnet \ solved

\* onSolve() of one set of puzzles, then onRun() of another.  What is locked ends
\* its onSolve() with its own onStop().
OnSolveThenRun(solved, started) ==
  /\ magnet' = Released(solved)
  /\ lamp' = (lamp \ (solved \cap Doors)) \cup (solved \cap Aquas)
               \cup (started \cap Doors)
  /\ music' = (music \/ started \cap Intros # {})
  /\ WriteDoor(solved, StoppedDoor)
  /\ title' = IF solved = {} THEN title ELSE Effect
  /\ told' = IF solved = {} THEN told ELSE 0
  /\ UNCHANGED <<button, domush, talk>>

TalkHeard(p) == p \in talk
\* oneShotPlayer.isPlaying() is true while a title is played; when none is, it may
\* be true as well (the pid has been given to another process).
TalkOver(p) == p \in talk /\ title = Silence

\* What onTest() of the puzzles that are not only listeners can return.
OnTest(p) ==
  \/ Kind[p] \in {"box", "door", "bust"}
  \/ Kind[p] = "wait" /\ puzzle[p].running
  \/ Kind[p] = "aqua" /\ TalkOver(p)

-----------------------------------------------------------------------------
Unsolved(ps) == {p \in ps \cap 1..N : ~puzzle[p].solved}

RoomOff  == SwitchOff /\ OnStop(Present) /\ clean' = FALSE
RoomStop == StopAll /\ OnStop(Present) /\ clean' = FALSE
RoomArm  == ArmAll /\ OnArm(Present) /\ clean' = (at = END)
RoomStart ==
  /\ Start /\ OnSolveThenRun({}, {1} \cap Present)
  /\ clean' = (clean /\ mode = "ARM" /\ at = END)
RoomGoOn ==
  GoOn /\ OnSolveThenRun(Unsolved({at}), {at + 1} \cap 1..N) /\ UNCHANGED clean
RoomSense ==
  Sense /\ OnTest(at) /\ OnSolveThenRun({at}, {}) /\ UNCHANGED clean
RoomUnload == Unload /\ UNCHANGED <<devices, tips, clean>>

(***************************************************************************)
(* The button is polled only by onTest() of listeners that are running: of *)
(* every one in each pass of loop(), and of the current one once more.     *)
(* Which of two comes first is the order of the script; it is left open.   *)
(***************************************************************************)
Down == button # "up"

LevelIsPress == Down
IsPressed == Down /\ ~domush

Look(p) ==
  /\ loaded /\ mode # "OFF"
  /\ p \in Listeners /\ puzzle[p].running
  /\ domush' = Down
  /\ IF IsPressed
       THEN /\ button' = "heard"
            /\ title' = p /\ told' = 0
            /\ talk' = talk \cup ({p} \cap Aquas)
       ELSE UNCHANGED <<button, title, told, talk>>
  /\ UNCHANGED <<game, devices, clean>>

Press ==
  /\ button = "up"
  /\ button' = "fresh"
  /\ UNCHANGED <<game, devices, domush, talk, title, told, clean>>

Release ==
  /\ Down
  /\ button' = "up"
  /\ UNCHANGED <<game, devices, domush, talk, title, told, clean>>

TitleEnds ==
  /\ title # Silence
  /\ title' = Silence
  /\ told' = IF title \in Listeners THEN title ELSE 0
  /\ UNCHANGED <<game, devices, button, domush, talk, clean>>

RoomInit ==
  /\ Init
  /\ magnet = {} /\ lamp = {} /\ music = FALSE
  /\ lost \in BOOLEAN
  /\ door \in IF lost THEN {"open", "closed"} ELSE {"open"}
  /\ button \in {"up", "heard"} /\ domush = Down
  /\ talk = {} /\ title = Silence /\ told = 0 /\ clean = FALSE

RoomNext ==
  \/ RoomOff \/ RoomStop \/ RoomArm \/ RoomStart \/ RoomGoOn \/ RoomSense
  \/ RoomUnload
  \/ (\E p \in Listeners : Look(p)) \/ Press \/ Release \/ TitleEnds

RoomSpec == RoomInit /\ [][RoomNext]_roomVars

-----------------------------------------------------------------------------
\* Type invariant.
RoomTypeOK ==
  /\ magnet \subseteq Locked /\ lamp \subseteq Lamps /\ talk \subseteq Aquas
  /\ music \in BOOLEAN /\ lost \in BOOLEAN
  /\ domush \in BOOLEAN /\ clean \in BOOLEAN
  /\ door \in {"open", "closed"} /\ button \in {"up", "fresh", "heard"}
  /\ title \in Listeners \cup {Silence, Effect}
  /\ told \in Listeners \cup {0}

\* A compartment is locked exactly while its puzzle is not solved: no order of
\* arming, stopping, solving by a sensor, by the key or by the timer opens one
\* early or leaves one shut that the quest believes to be open.
LockedUntilSolved ==
  loaded => magnet = {p \in Locked : ~puzzle[p].solved}

\* In a stopped or switched-off quest nothing holds the players: every magnet is
\* released, the music is silent, no lamp is lit, and the door is open, unless
\* the last write to its board failed.
StoppedRoomIsOpen ==
  loaded /\ mode \in {"OFF", "STOP"} =>
    magnet = {} /\ ~music /\ lamp = {} /\ (lost \/ door = "open")

\* While the quest RUNs, the door the players have not come to yet is shut, when
\* its puzzle was armed and no write to the board has failed.
DoorAheadIsShut ==
  loaded /\ mode = "RUN" /\ ~lost =>
    \A p \in Doors : ~puzzle[p].solved => door = "closed"

\* In a game armed out of a stopped quest and started once, only the puzzle the
\* players are at is running, so that a tip is the tip of that puzzle, however
\* the sensors, the key and the timer have moved the quest on.
OnlyCurrentListens ==
  loaded /\ mode = "RUN" /\ clean =>
    \A p \in 1..N : puzzle[p].running => p = at

\* One press of the tip button starts one tip: a press that has been heard is not
\* heard again, although several puzzles may poll it, the current one twice in
\* each pass, and nobody polls it in between.
HeardOnce == IsPressed => button = "fresh"

\* scenario.py:271: in such a game the aquarium is solved by its test only when
\* its own tip has come to its end, not when it is cut off or never began.
TipBeforeAqua ==
  [][clean /\ at \in Aquas /\ at' = at /\ puzzle'[at].solved /\ ~puzzle[at].solved
       => told = at]_roomVars
=============================================================================
