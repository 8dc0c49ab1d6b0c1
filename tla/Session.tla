------------------------------ MODULE Session ------------------------------
(***************************************************************************)
(* How questomatic/main.cpp loads, replaces and unloads a quest: main(),   *)
(* QuestBase::loadQuest() and stopQuest(), set_script and the signals.     *)
(*                                                                         *)
(* Quest models what happens inside one loaded quest; here one critical    *)
(* region with one call into Python stands for any of its operations, and  *)
(* what matters is who holds what: the quest's lock, the GIL of the Python *)
(* interpreter, the interpreter itself, and the script file on the flash   *)
(* card.  A pass of loop() and a request of a client take the lock and     *)
(* then, for each callback, the GIL; the thread that loads a script owns   *)
(* the GIL and takes the lock.                                             *)
(*                                                                         *)
(* A callback or a script may raise an exception at any time (a missing    *)
(* attribute, a pin that cannot be opened), and the power may fail.        *)
(***************************************************************************)
EXTENDS Integers

CONSTANTS
  Scripts,     \* the scripts a client may send
  MaxObjects,  \* bound on the puzzles and special puzzles a script registers
  Clients,     \* the RPC threads
  Main,        \* the thread of main()
  None         \* no thread, no script

Empty == "empty"  \* a file that has been truncated
Torn == "torn"    \* one that holds a part of a script, or parts of two

ASSUME SessionAssumption ==
  /\ MaxObjects \in Nat
  /\ Main \notin Clients
  /\ None \notin Clients \cup {Main} \cup Scripts \cup {Empty, Torn}
  /\ Scripts \cap {Empty, Torn} = {}

Contents == Scripts \cup {Empty, Torn}

Threads == Clients \cup {Main}

VARIABLES
  file,      \* python_file as other threads read it
  disk,      \* what of it is on the flash card
  script,    \* python_script: what main() has read and loadQuest() executes
  objects,   \* how many Python objects _puzzles and the specials point to
  stale,     \* _currentPuzzle was taken before the last addPuzzle()
  isRunning, \* isRunning
  g_running, \* g_running
  interp,    \* the interpreter is initialized
  gil,       \* who holds the GIL
  lock,      \* who holds _currentPuzzleLock
  pc,        \* where each thread is
  after,     \* where it goes when it has given the lock back
  ret,       \* where Main goes after stopQuest()
  arg,       \* the script each client is setting
  mixed,     \* history: the clients whose set_script found, or was found by,
             \* another one that had not finished with the file
  saved      \* history: the script of the last set_script that is through with
             \* write() and sync(), from its sync() to the next open()

store  == <<file, disk, mixed, saved>>
quest  == <<objects, stale>>
stops  == <<isRunning, g_running>>
python == <<interp, gil>>
calls  == <<after, ret>>
vars   == <<store, script, quest, stops, python, lock, pc, calls, arg>>

Goto(t, l) == pc' = [pc EXCEPT ![t] = l]
\* Take the lock for one operation, and continue at l.
Operate(t, l) == Goto(t, "lock") /\ after' = [after EXCEPT ![t] = l]
Alive == pc[Main] # "crashed"

\* off() and its callbacks.
NoOffThen(l) == Goto(Main, l) /\ UNCHANGED after

OffThen(l) == Operate(Main, l)

\* stopQuest(), called by Main.
NoStopQuestThen(l) == Goto(Main, l) /\ UNCHANGED calls

StopQuestThen(l) == Operate(Main, "clear") /\ ret' = l

\* The process ends, with all its threads.
Crash == pc' = [t \in Threads |-> "crashed"]

-----------------------------------------------------------------------------
(***************************************************************************)
(* An operation under the lock, by any thread.                             *)
(***************************************************************************)

Unlocked == TRUE

LockFree == lock = None

\* unique_lock; no callback when nothing is registered.  off(), run() and stop()
\* assign _currentPuzzle, arm() and a pass of loop() need not.  What Main calls
\* outside loop() is off().
Lock(t) ==
  /\ pc[t] = "lock" /\ LockFree
  /\ lock' = t
  /\ stale' \in IF t = Main /\ after[t] # "while" THEN {FALSE} ELSE {FALSE, stale}
  /\ Goto(t, IF objects = 0 THEN "unlock" ELSE "call")
  /\ UNCHANGED <<store, script, objects, stops, python, calls, arg>>

\* next() of a client: it compares _currentPuzzle with end() and follows it.
LockNext(t) ==
  /\ pc[t] = "next" /\ LockFree
  /\ \/ /\ lock' = t
        /\ Goto(t, IF objects = 0 THEN "unlock" ELSE "call")
     \/ /\ stale
        /\ Crash /\ UNCHANGED lock
  /\ UNCHANGED <<store, script, quest, stops, python, calls, arg>>

\* PYBIND11_OVERLOAD: gil_scoped_acquire around the call of the method.
Enter(t) ==
  /\ pc[t] = "call" /\ gil \in {None, t}
  /\ gil' = t
  /\ Goto(t, IF gil = t THEN "nested" ELSE "python")
  /\ UNCHANGED <<store, script, quest, stops, interp, lock, calls, arg>>

Exit(t) ==
  /\ pc[t] \in {"python", "nested"}
  /\ gil' = IF pc[t] = "nested" THEN t ELSE None
  /\ Goto(t, "unlock")
  /\ UNCHANGED <<store, script, quest, stops, interp, lock, calls, arg>>

(***************************************************************************)
(* A callback calls a method of GPIO, Modbus or Mpg123Player: the          *)
(* call_guard of the binding gives the GIL back for as long as it runs.    *)
(***************************************************************************)
Bind(t) ==
  /\ pc[t] \in {"python", "nested"}
  /\ gil' = None
  /\ Goto(t, IF pc[t] = "nested" THEN "nestedBinding" ELSE "binding")
  /\ UNCHANGED <<store, script, quest, stops, interp, lock, calls, arg>>

EndBinding(t) ==
  /\ pc[t] \in {"binding", "nestedBinding"} /\ gil = None
  /\ gil' = t
  /\ Goto(t, IF pc[t] = "nestedBinding" THEN "nested" ELSE "python")
  /\ UNCHANGED <<store, script, quest, stops, interp, lock, calls, arg>>

(***************************************************************************)
(* An exception leaves the operation and gives the lock back.  The RPC     *)
(* server catches it for a client; for Main it ends in the catch of        *)
(* loadQuest(), where the GIL has been taken again, or, when it is raised  *)
(* by the stopQuest() of that catch, in std::terminate().                  *)
(***************************************************************************)
Raise(t) ==
  /\ pc[t] \in {"python", "nested"}
  /\ gil' = IF pc[t] = "nested" THEN t ELSE None
  /\ lock' = None
  /\ \/ t \in Clients /\ Goto(t, "idle")
     \/ /\ t = Main
        /\ IF pc[t] = "python" THEN Goto(t, "unwind")
           ELSE IF after[t] = "clear" THEN Crash ELSE Goto(t, "catch")
  /\ UNCHANGED <<store, script, quest, stops, interp, calls, arg>>

Unlock(t) ==
  /\ pc[t] = "unlock"
  /\ lock' = None
  /\ Goto(t, after[t])
  /\ UNCHANGED <<store, script, quest, stops, python, calls, arg>>

PoppedBack == objects - 1

Cleared == 0

\* stopQuest() after off(), and for a client the answer of set_script.
Clear(t) ==
  /\ pc[t] = "clear" /\ lock = None
  /\ isRunning' = FALSE
  /\ objects' = Cleared /\ stale' = FALSE
  /\ Goto(t, IF t = Main THEN ret ELSE "idle")
  /\ UNCHANGED <<store, script, g_running, python, lock, calls, arg>>

Step(t) == \/ Lock(t) \/ LockNext(t) \/ Enter(t) \/ Exit(t)
           \/ Bind(t) \/ EndBinding(t) \/ Raise(t) \/ Unlock(t) \/ Clear(t)

-----------------------------------------------------------------------------
(***************************************************************************)
(* The script file.  set_script opens it, which truncates it, writes and   *)
(* closes it, and calls sync(); the quest's lock has no part in that.      *)
(***************************************************************************)
Writing(c) == pc[c] = "write"

\* What a read() or a write-back of the file may meet: while somebody is writing
\* it also a part of what is being written.
Readable == {file} \cup IF \E c \in Clients : Writing(c) THEN {Torn} ELSE {}

NotTruncated == file

Truncated == Empty

\* Who is writing when c opens the file goes on at the place it has reached, and
\* whoever is not past sync() may sync what c leaves.
Open(c) ==
  LET others == Clients \ {c} IN
  /\ file' = Truncated /\ saved' = None
  /\ mixed' = (mixed \ {c}) \cup {d \in others : pc[d] \in {"write", "sync"}}
                           \cup {d \in {c} : \E o \in others : Writing(o)}

\* write() and close(): c has the whole file, or its text is laid over another's.
Written(c) ==
  IF file = Empty /\ \A d \in Clients \ {c} : ~Writing(d) THEN {arg[c]} ELSE {arg[c], Torn}

Synced == Readable

-----------------------------------------------------------------------------
(***************************************************************************)
(* main() and loadQuest().                                                 *)
(***************************************************************************)

\* From the installation of the signal handlers to make_shared<QuestBase>.
MakeQuest ==
  /\ pc[Main] = "start"
  /\ Goto(Main, "top")
  /\ UNCHANGED <<store, script, quest, stops, python, lock, calls, arg>>

Top ==
  /\ pc[Main] = "top"
  /\ Goto(Main, IF g_running THEN "open" ELSE "done")
  /\ UNCHANGED <<store, script, quest, stops, python, lock, calls, arg>>

\* Read the file, or fail to open it; loadQuest() begins with a stopQuest().
ReadScript ==
  /\ pc[Main] = "open"
  /\ \/ /\ script' \in Readable
        /\ StopQuestThen("init")
     \/ /\ Goto(Main, "sleep")
        /\ UNCHANGED <<script, calls>>
  /\ UNCHANGED <<store, quest, stops, python, lock, arg>>

Sleep ==
  /\ pc[Main] = "sleep"
  /\ Goto(Main, "top")
  /\ UNCHANGED <<store, script, quest, stops, python, lock, calls, arg>>

InitInterpreter ==
  /\ pc[Main] = "init"
  /\ interp' = TRUE /\ gil' = Main
  /\ Goto(Main, "exec")
  /\ UNCHANGED <<store, script, quest, stops, lock, calls, arg>>

\* py::exec(): the script registers one more object (the binding gives the GIL
\* back meanwhile), raises an exception, or ends.
Exec ==
  /\ pc[Main] = "exec"
  /\ \/ objects < MaxObjects /\ Goto(Main, "add") /\ gil' = None
     \/ Goto(Main, "catch") /\ UNCHANGED gil
     \/ Goto(Main, "running") /\ UNCHANGED gil
  /\ UNCHANGED <<store, script, quest, stops, interp, lock, calls, arg>>

\* addPuzzle() and setSpecialPuzzles(): push_back(), then stop() and onStop().
Add ==
  /\ pc[Main] = "add" /\ lock = None
  /\ lock' = Main
  /\ objects' = objects + 1 /\ stale' = TRUE
  /\ Goto(Main, "call") /\ after' = [after EXCEPT ![Main] = "regain"]
  /\ UNCHANGED <<store, script, stops, python, ret, arg>>

\* The end of a gil_scoped_release, after the call or while unwinding.
Regain ==
  /\ pc[Main] \in {"regain", "unwind"} /\ gil = None
  /\ gil' = Main
  /\ Goto(Main, IF pc[Main] = "regain" THEN "exec" ELSE "catch")
  /\ UNCHANGED <<store, script, quest, stops, interp, lock, calls, arg>>

\* `isRunning = true; off();', with the GIL.
StartRunning ==
  /\ pc[Main] = "running"
  /\ isRunning' = TRUE
  /\ OffThen("release")
  /\ UNCHANGED <<store, script, quest, g_running, python, lock, ret, arg>>

GilKept == gil

GilReleased == None

Release ==
  /\ pc[Main] = "release"
  /\ gil' = GilReleased
  /\ Goto(Main, "while")
  /\ UNCHANGED <<store, script, quest, stops, interp, lock, calls, arg>>

LoopsForEver == TRUE

LoopsOn == isRunning

\* One pass of loop(), or the stopQuest() after the loop.
While ==
  /\ pc[Main] = "while"
  /\ IF LoopsOn
       THEN Operate(Main, "while") /\ UNCHANGED ret
       ELSE StopQuestThen("finalize")
  /\ UNCHANGED <<store, script, quest, stops, python, lock, arg>>

\* The catch of loadQuest(): stopQuest() with the GIL held.
Catch ==
  /\ pc[Main] = "catch"
  /\ StopQuestThen("finalize")
  /\ UNCHANGED <<store, script, quest, stops, python, lock, arg>>

\* finalize_interpreter().  On the normal path Main does not hold the GIL, which
\* CPython leaves undefined: the process survives it or does not.
Finalize ==
  /\ pc[Main] = "finalize"
  /\ \/ /\ interp' = FALSE /\ gil' = None
        /\ Goto(Main, "sleep")
     \/ /\ gil # Main
        /\ Crash /\ UNCHANGED python
  /\ UNCHANGED <<store, script, quest, stops, lock, calls, arg>>

MainStep == \/ MakeQuest \/ Top \/ ReadScript \/ Sleep \/ InitInterpreter \/ Exec
            \/ Add \/ Regain \/ StartRunning \/ Release \/ While \/ Catch \/ Finalize

-----------------------------------------------------------------------------
(***************************************************************************)
(* Clients, signals, power.                                                *)
(***************************************************************************)
Serving == pc[Main] \notin {"start", "done"}

\* set_state or next.
Request(c) ==
  /\ Serving /\ pc[c] = "idle"
  /\ pc' \in {[pc EXCEPT ![c] = "lock"], [pc EXCEPT ![c] = "next"]}
  /\ after' = [after EXCEPT ![c] = "idle"]
  /\ UNCHANGED <<store, script, quest, stops, python, lock, ret, arg>>

\* set_script, as far as the opening of the file; when it cannot be opened nothing
\* is done, `error' stays empty, and the answer is OK.
SetScript(c, s) ==
  /\ Serving /\ pc[c] = "idle"
  /\ arg' = [arg EXCEPT ![c] = s]
  /\ \/ Open(c) /\ Goto(c, "write")
     \/ UNCHANGED <<file, mixed, saved, pc>>
  /\ UNCHANGED <<disk, script, quest, stops, python, lock, calls>>

Write(c) ==
  /\ Writing(c)
  /\ file' \in Written(c)
  /\ Goto(c, "sync")
  /\ UNCHANGED <<disk, mixed, saved, script, quest, stops, python, lock, calls, arg>>

\* sync(), then stopQuest().
Sync(c) ==
  /\ pc[c] = "sync"
  /\ disk' \in Synced
  /\ saved' = IF c \in mixed THEN saved ELSE arg[c]
  /\ Operate(c, "clear")
  /\ UNCHANGED <<file, mixed, script, quest, stops, python, lock, ret, arg>>

\* sig_interceptor(): qb is a null pointer until MakeQuest.
Signal ==
  /\ g_running /\ pc[Main] \notin {"done", "crashed"}
  /\ IF pc[Main] = "start"
       THEN Crash /\ UNCHANGED stops
       ELSE isRunning' = FALSE /\ g_running' = FALSE /\ UNCHANGED pc
  /\ UNCHANGED <<store, script, quest, python, lock, calls, arg>>

\* The operating system writes a dirty file back whenever it likes.
WriteBack ==
  /\ \E f \in Readable \ {disk} : disk' = f
  /\ UNCHANGED <<file, mixed, saved, script, quest, stops, python, lock, pc, calls, arg>>

-----------------------------------------------------------------------------
\* The static and global variables of a process that has just started.
BootPoints == [t \in Threads |-> IF t = Main THEN "start" ELSE "idle"]
BootAfter  == [t \in Threads |-> "idle"]

Init ==
  /\ saved \in Scripts
  /\ file = saved /\ disk = saved /\ mixed = {}
  /\ script = None
  /\ objects = 0 /\ stale = FALSE
  /\ isRunning = FALSE /\ g_running = TRUE
  /\ interp = FALSE /\ gil = None /\ lock = None
  /\ pc = BootPoints /\ after = BootAfter /\ ret = "init"
  /\ arg = [c \in Clients |-> saved]

\* Power loss, or the end of the process, and a new start: what was not on the
\* flash card is gone.
Restart ==
  /\ file' = disk /\ mixed' = {}
  /\ script' = None
  /\ objects' = 0 /\ stale' = FALSE
  /\ isRunning' = FALSE /\ g_running' = TRUE
  /\ interp' = FALSE /\ gil' = None /\ lock' = None
  /\ pc' = BootPoints /\ after' = BootAfter /\ ret' = "init"
  /\ UNCHANGED <<disk, saved, arg>>

Next ==
  \/ \E t \in Threads : Step(t)
  \/ MainStep
  \/ \E c \in Clients :
       \/ Request(c) \/ Write(c) \/ Sync(c)
       \/ \E s \in Scripts : SetScript(c, s)
  \/ Signal \/ WriteBack \/ Restart

Spec == Init /\ [][Next]_vars

(***************************************************************************)
(* Fairness.  A thread that can go on does, and one that waits for the     *)
(* lock or for the GIL is not passed over for ever (SF): between two of    *)
(* its critical regions every other thread gives both back, and Main       *)
(* sleeps or ticks.  Scripts, writes and callbacks return, these however   *)
(* many bindings they call; a reboot, a signal, a request need not come.   *)
(***************************************************************************)
FairSpec == /\ Spec
            /\ SF_vars(MainStep)
            /\ \A t \in Threads : SF_vars(Step(t)) /\ SF_vars(Exit(t) \/ Raise(t))
            /\ \A c \in Clients : WF_vars(Write(c) \/ Sync(c))

-----------------------------------------------------------------------------
Points == {"start", "top", "open", "sleep", "init", "exec", "add", "regain",
           "unwind", "running", "release", "while", "catch", "finalize", "done",
           "crashed", "idle", "write", "sync", "lock", "next", "call", "python",
           "nested", "binding", "nestedBinding", "unlock", "clear"}

\* Type invariant.
TypeOK ==
  /\ file \in Contents /\ disk \in Contents
  /\ script \in Contents \cup {None}
  /\ objects \in 0..MaxObjects /\ stale \in BOOLEAN
  /\ isRunning \in BOOLEAN /\ g_running \in BOOLEAN /\ interp \in BOOLEAN
  /\ gil \in Threads \cup {None} /\ lock \in Threads \cup {None}
  /\ pc \in [Threads -> Points]
  /\ after \in [Threads -> {"idle", "clear", "regain", "release", "while"}]
  /\ ret \in {"init", "finalize"}
  /\ arg \in [Clients -> Scripts]
  /\ mixed \subseteq Clients /\ saved \in Scripts \cup {None}

\* Where Main is while a quest is loaded and loop() repeats.
Looping ==
  \/ pc[Main] = "while"
  \/ /\ pc[Main] \in {"lock", "call", "python", "binding", "unlock"}
     /\ after[Main] = "while"

\* The script of a set_script that is past its sync(), and that no other one ran
\* into, is what main() reads and what a new process finds after a power loss, for
\* as long as nobody opens the file again.
SavedSurvives == saved # None => Readable = {saved} /\ disk = saved

\* Where a thread is inside a callback, or about to enter it.
InCall(t) == pc[t] \in {"call", "python", "nested", "binding", "nestedBinding"}

\* The quest points to Python objects, or a thread is about to call one, only
\* while the interpreter that owns them is initialized: stopQuest() empties
\* _puzzles before every finalize_interpreter(), and a client in the middle of
\* an operation keeps it waiting.
PythonNeedsInterpreter ==
  ~interp =>
    objects = 0 /\ \A t \in Threads : ~InCall(t)

\* A quest that has been loaded cannot deadlock: Main waits for
\* _currentPuzzleLock in loop() without the GIL (gil_scoped_release of
\* loadQuest()), so a client that has the lock can always finish its callback.
LoopYieldsGil ==
  Looping /\ gil = Main => pc[Main] = "python"

\* loop() never follows an iterator that push_back() has invalidated, although
\* clients call methods that move _currentPuzzle while the script still adds
\* puzzles: the off() of loadQuest() comes after the last addPuzzle().
LoopIteratorValid == Looping => ~stale

\* The bindings of ReadRegisters() and WriteRegisters() make and read Python
\* objects after their call_guard has given the GIL back.  Once a quest loops no
\* other thread runs Python meanwhile: whoever would has to have the quest's lock.
BindingAlone ==
  Looping =>
    \A t \in Threads : pc[t] \in {"binding", "nestedBinding"} => gil = None

\* Client and Main wait for each other: one has the lock and wants the GIL for or
\* in a callback, the other the GIL and wants the lock for off() or stopQuest(), in loadQuest().
Stuck == \E c \in Clients : /\ lock = c /\ pc[c] \in {"call", "binding"}
                            /\ gil = Main /\ pc[Main] \in {"lock", "clear"}

(***************************************************************************)
(* Who waits for whom.  There are two things to wait for, the lock and the *)
(* GIL, so threads that wait for each other in a circle are one that waits *)
(* for itself (std::mutex is not recursive) or two.                        *)
(***************************************************************************)
WaitsForLock(t) == pc[t] \in {"lock", "next", "clear", "add"}

WaitsForGil(t) == \/ pc[t] = "call" /\ gil # t
                  \/ pc[t] \in {"binding", "nestedBinding", "regain", "unwind"}

WaitsFor(t, u) == (WaitsForLock(t) /\ lock = u) \/ (WaitsForGil(t) /\ gil = u)

\* No thread ever waits for itself, and no two for each other but Main in
\* loadQuest(), with the GIL, and a client in an operation, with the lock: nothing
\* can be stuck in a quest that loops, and Stuck is the only deadlock there is.
OnlyLoadingBlocks ==
  \A t, u \in Threads :
    WaitsFor(t, u) /\ WaitsFor(u, t) => t # u /\ Stuck /\ ~Looping

\* When isRunning is cleared under a quest that loops, the quest is unloaded and
\* its interpreter finalized, whatever the clients do and its callbacks raise,
\* unless the catch of loadQuest() deadlocks.
Unloads == (pc[Main] = "while" /\ ~isRunning) ~> (~interp \/ ~Alive \/ Stuck)

(***************************************************************************)
(* What the code says and does not keep; see the README.                   *)
(***************************************************************************)

\* main.cpp:373 "Saving quest contents to ": stopQuest() in set_script makes main()
\* load what has been saved, so once no set_script is under way the quest that
\* goes on looping is the saved one.
SavedScriptRuns ==
  Looping /\ isRunning /\ saved # None /\ (\A c \in Clients : pc[c] = "idle") =>
    script = saved
=============================================================================
