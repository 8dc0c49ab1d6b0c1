---------------------------- MODULE SessionProofs ----------------------------
(***************************************************************************)
(* Theorems about Session, for any clients, scripts and numbers of objects.*)
(* The inductive invariant says where Main can be for what the interpreter,*)
(* the GIL, the lock and the objects are:                                  *)
(*   Owners    a thread inside an operation has the lock;                  *)
(*   Callees   a thread calls into Python only for a registered object;    *)
(*   Initialized  there are objects, and Main is between the start of a    *)
(*             script and its end, only while the interpreter is up;       *)
(*   Emptied   what is finalized has been emptied;                         *)
(*   Bounded   Main adds an object only below the bound;                   *)
(*   Yields    Main never waits for the lock in loop() with the GIL;       *)
(*   Valid     nothing between the off() of loadQuest() and the end of the *)
(*             loop makes _currentPuzzle stale.                            *)
(***************************************************************************)
EXTENDS Session, TLAPS

InOperation == {"lock", "call", "python", "nested", "binding", "nestedBinding",
                "unlock"}

\* Between py::exec() and the last stopQuest().
ScriptPoints == {"exec", "add", "regain", "unwind", "running", "release",
                 "while", "catch"}

Owners == \A t \in Threads : InCall(t) \/ pc[t] = "unlock" => lock = t

Callees == objects = 0 => \A t \in Threads : ~InCall(t)

Initialized ==
  /\ objects # 0 => interp
  /\ pc[Main] \in ScriptPoints => interp
  /\ pc[Main] \in InOperation /\ after[Main] \in ScriptPoints => interp

Emptied == pc[Main] = "finalize" => objects = 0

Bounded == pc[Main] = "add" => objects < MaxObjects

Yields ==
  /\ LoopYieldsGil
  /\ pc[Main] \in {"nested", "nestedBinding"} => after[Main] # "while"
  /\ pc[Main] # "next"

Valid ==
  /\ LoopIteratorValid
  /\ pc[Main] = "release" => ~stale
  /\ pc[Main] \in InOperation \ {"lock"} /\ after[Main] = "release" => ~stale
  /\ pc[Main] \in {"nested", "nestedBinding"} /\ after[Main] = "while" => ~stale

IInv == /\ TypeOK /\ Owners /\ Callees /\ Initialized
        /\ Emptied /\ Bounded /\ Yields /\ Valid

-----------------------------------------------------------------------------
\* Goto changes the place of one thread to one that exists.
LEMMA GotoType ==
  ASSUME TypeOK, NEW t \in Threads, NEW l \in Points, Goto(t, l)
  PROVE  /\ pc' \in [Threads -> Points]
         /\ pc'[t] = l
         /\ \A u \in Threads \ {t} : pc'[u] = pc[u]
  BY DEF TypeOK, Goto

LEMMA MainIsThread == Main \in Threads /\ Clients \subseteq Threads /\ Main \notin Clients
  BY SessionAssumption DEF Threads

\* What anybody may read of the file.
LEMMA ReadableType == TypeOK => file \in Readable /\ Readable \subseteq Contents
  BY DEF TypeOK, Readable, Contents

LEMMA InitIInv == Init => IInv
<1> SUFFICES ASSUME Init PROVE IInv
  OBVIOUS
<1>1. TypeOK
  <2>1. pc \in [Threads -> Points]
    BY DEF Init, BootPoints, Points
  <2>2. after \in [Threads -> {"idle", "clear", "regain", "release", "while"}]
    BY DEF Init, BootAfter
  <2>3. objects \in 0..MaxObjects /\ arg \in [Clients -> Scripts]
    BY SessionAssumption DEF Init
  <2> QED
    BY <2>1, <2>2, <2>3 DEF Init, TypeOK, Contents
<1>2. \A t \in Threads : pc[t] \in {"start", "idle"}
  BY DEF Init, BootPoints
<1>3. pc[Main] = "start"
  BY MainIsThread DEF Init, BootPoints
<1> QED
  BY <1>1, <1>2, <1>3
     DEF Init, IInv, Owners, Callees, Initialized, Emptied, Bounded, Yields,
         Valid, InCall, InOperation, ScriptPoints, LoopYieldsGil,
         LoopIteratorValid, Looping

\* The dead take no step, so a crash keeps the invariant as long as it leaves
\* the interpreter, the objects and the lock alone.
LEMMA CrashStep ==
  ASSUME IInv, TypeOK', Crash, objects' = objects, interp' = interp
  PROVE  IInv'
  BY MainIsThread
     DEF Crash, IInv, Owners, Callees, Initialized, Emptied, Bounded, Yields,
         Valid, InCall, InOperation, ScriptPoints, LoopYieldsGil,
         LoopIteratorValid, Looping

-----------------------------------------------------------------------------
LEMMA LockStep ==
  ASSUME IInv, NEW t \in Threads, Lock(t)
  PROVE  IInv'
<1> USE MainIsThread DEF Lock, LockFree, IInv
<1> DEFINE l == IF objects = 0 THEN "unlock" ELSE "call"
<1>1. l \in Points /\ Goto(t, l) /\ lock' = t /\ lock = None /\ l \in {"unlock", "call"}
  BY DEF Points
<1> HIDE DEF l
<1>2. /\ pc' \in [Threads -> Points] /\ pc'[t] = l
      /\ \A u \in Threads \ {t} : pc'[u] = pc[u]
  BY <1>1, GotoType
<1>3. TypeOK'
  BY <1>2 DEF TypeOK, store, stops, python, calls
<1>4. Owners'
  BY <1>1, <1>2, SessionAssumption DEF Owners, InCall, Threads
<1>5. Callees'
  BY <1>1, <1>2 DEF l, Callees, InCall, Points
<1>6. Initialized' /\ Emptied' /\ Bounded'
  BY <1>1, <1>2 DEF Initialized, Emptied, Bounded, InOperation, ScriptPoints,
                    python, calls, TypeOK
<1>7. Yields'
  BY <1>1, <1>2 DEF Yields, LoopYieldsGil, Looping, python, calls
<1>8. Valid'
  BY <1>1, <1>2 DEF Valid, LoopIteratorValid, Looping, InOperation, calls, TypeOK
<1> QED
  BY <1>3, <1>4, <1>5, <1>6, <1>7, <1>8

LEMMA NextMethodStep ==
  ASSUME IInv, NEW t \in Threads, LockNext(t)
  PROVE  IInv'
<1> USE MainIsThread DEF LockNext, LockFree, IInv
<1>1. CASE Crash
  <2>1. TypeOK'
    BY <1>1 DEF Crash, TypeOK, store, quest, stops, python, calls, Points
  <2> QED
    BY <1>1, <2>1, CrashStep DEF quest, python
<1>2. CASE Goto(t, IF objects = 0 THEN "unlock" ELSE "call") /\ lock' = t
  <2>1. /\ pc' \in [Threads -> Points]
        /\ pc'[t] = IF objects = 0 THEN "unlock" ELSE "call"
        /\ \A u \in Threads \ {t} : pc'[u] = pc[u]
    BY <1>2, GotoType DEF Points
  <2>2. TypeOK'
    BY <1>2, <2>1 DEF TypeOK, store, quest, stops, python, calls
  <2>3. Owners' /\ Callees'
    BY <1>2, <2>1, SessionAssumption DEF Owners, Callees, InCall, Threads, quest
  <2>4. t # Main
    BY DEF Yields
  <2>5. Initialized' /\ Emptied' /\ Bounded' /\ Yields' /\ Valid'
    BY <2>1, <2>4 DEF Initialized, Emptied, Bounded, Yields, Valid,
       LoopYieldsGil, LoopIteratorValid, Looping, quest, python, calls
  <2> QED
    BY <2>2, <2>3, <2>5
<1> QED
  BY <1>1, <1>2

\* The GIL is taken and given back inside an operation: only Main itself can get
\* it for Main, and in loop() it is never nested.
LEMMA CallStep ==
  ASSUME IInv, NEW t \in Threads, Enter(t) \/ Exit(t) \/ Bind(t) \/ EndBinding(t)
  PROVE  IInv'
<1> USE MainIsThread DEF IInv
<1>1. PICK l \in {"python", "nested", "binding", "nestedBinding", "unlock"} : Goto(t, l)
  BY DEF Enter, Exit, Bind, EndBinding
<1>2. /\ pc' \in [Threads -> Points] /\ pc'[t] = l
      /\ \A u \in Threads \ {t} : pc'[u] = pc[u]
  BY <1>1, GotoType DEF Points
<1>3. InCall(t) /\ UNCHANGED <<store, script, quest, stops, interp, lock, calls, arg>>
  BY DEF Enter, Exit, Bind, EndBinding, InCall
<1>4. gil' \in {t, None}
  BY DEF Enter, Exit, Bind, EndBinding
<1>5. TypeOK'
  BY <1>2, <1>3, <1>4 DEF TypeOK, store, quest, stops, calls
<1>6. Owners' /\ Callees'
  BY <1>2, <1>3 DEF Owners, Callees, InCall, quest
<1>7. Initialized' /\ Emptied' /\ Bounded'
  BY <1>2, <1>3 DEF Initialized, Emptied, Bounded, InOperation, ScriptPoints, InCall,
                    quest, calls
<1>8. CASE t = Main
  <2>1. after[Main] = "while" => gil' # Main \/ pc'[Main] = "python"
    BY <1>1, <1>2, <1>8, SessionAssumption
       DEF Enter, Exit, Bind, EndBinding, Goto, Yields, LoopYieldsGil, Looping, Threads, TypeOK
  <2>2. pc'[Main] \in {"nested", "nestedBinding"} => after[Main] # "while"
    BY <1>2, <1>8 DEF Enter, Exit, Bind, EndBinding, Goto, Yields, LoopYieldsGil, Looping, TypeOK
  <2>3. Yields'
    BY <1>2, <1>3, <1>8, <2>1, <2>2 DEF Yields, LoopYieldsGil, Looping, calls
  <2>4. Valid'
    BY <1>2, <1>3, <1>8, <2>2
       DEF Valid, LoopIteratorValid, Looping, InOperation, InCall, quest, calls
  <2> QED
    BY <1>5, <1>6, <1>7, <2>3, <2>4
<1>9. CASE t # Main
  <2>1. Yields' /\ Valid'
    BY <1>2, <1>3, <1>4, <1>9, SessionAssumption
       DEF Yields, LoopYieldsGil, Valid, LoopIteratorValid, Looping, quest, calls,
           Threads
  <2> QED
    BY <1>5, <1>6, <1>7, <2>1
<1> QED
  BY <1>8, <1>9

\* A thread that leaves its operation by an exception gives back what it has.
LEMMA RaiseStep ==
  ASSUME IInv, NEW t \in Threads, Raise(t)
  PROVE  IInv'
<1> USE MainIsThread DEF IInv
<1>1. /\ pc[t] \in {"python", "nested"} /\ InCall(t) /\ objects # 0 /\ interp
      /\ lock = t /\ lock' = None /\ gil' \in {t, None}
      /\ UNCHANGED <<store, script, quest, stops, interp, calls, arg>>
  BY DEF Raise, InCall, Callees, Initialized, Owners
<1>2. CASE Crash
  <2>1. TypeOK'
    BY <1>1, <1>2 DEF Crash, TypeOK, store, quest, stops, calls, Points
  <2> QED
    BY <1>1, <1>2, <2>1, CrashStep DEF quest
<1>3. CASE ~Crash
  <2>1. PICK l \in {"idle", "unwind", "catch"} :
          Goto(t, l) /\ (t = Main => l # "idle")
    BY <1>3 DEF Raise
  <2>2. /\ pc' \in [Threads -> Points] /\ pc'[t] = l
        /\ \A u \in Threads \ {t} : pc'[u] = pc[u]
    BY <2>1, GotoType DEF Points
  <2>3. TypeOK'
    BY <1>1, <2>2 DEF TypeOK, store, quest, stops, calls
  <2>4. \A u \in Threads \ {t} : ~InCall(u) /\ pc[u] # "unlock"
    BY <1>1 DEF Owners
  <2>5. Owners' /\ Callees'
    BY <1>1, <2>2, <2>4 DEF Owners, Callees, InCall
  <2>6. Initialized' /\ Emptied' /\ Bounded'
    BY <1>1, <2>1, <2>2 DEF Initialized, Emptied, Bounded, InOperation, quest, calls
  <2>7. Yields' /\ Valid'
    BY <1>1, <2>1, <2>2, SessionAssumption
       DEF Yields, LoopYieldsGil, Valid, LoopIteratorValid, Looping, InOperation,
           quest, calls, Threads
  <2> QED
    BY <2>3, <2>5, <2>6, <2>7
<1> QED
  BY <1>2, <1>3

LEMMA UnlockStep ==
  ASSUME IInv, NEW t \in Threads, Unlock(t)
  PROVE  IInv'
<1> USE MainIsThread DEF Unlock, IInv
<1> DEFINE l == after[t]
<1>1. l \in Points /\ l \in {"idle", "clear", "regain", "release", "while"}
  BY DEF TypeOK, Points
<1>2. /\ pc' \in [Threads -> Points] /\ pc'[t] = l
      /\ \A u \in Threads \ {t} : pc'[u] = pc[u]
  BY <1>1, GotoType
<1>3. TypeOK'
  BY <1>2 DEF TypeOK, store, quest, stops, python, calls
<1>4. \A u \in Threads \ {t} : ~InCall(u) /\ pc[u] # "unlock"
  BY DEF Owners
<1>5. Owners' /\ Callees'
  BY <1>1, <1>2, <1>4 DEF Owners, Callees, InCall, quest
<1>6. Initialized' /\ Emptied' /\ Bounded'
  BY <1>1, <1>2 DEF Initialized, Emptied, Bounded, InOperation, ScriptPoints,
                    quest, python, calls
<1>7. Yields' /\ Valid'
  BY <1>1, <1>2 DEF Yields, LoopYieldsGil, Valid, LoopIteratorValid, Looping,
                    InOperation, quest, python, calls
<1> QED
  BY <1>3, <1>5, <1>6, <1>7

\* stopQuest() empties the quest when no thread is inside an operation.
LEMMA ClearStep ==
  ASSUME IInv, NEW t \in Threads, Clear(t)
  PROVE  IInv'
<1> USE MainIsThread DEF Clear, Cleared, IInv
<1> DEFINE l == IF t = Main THEN ret ELSE "idle"
<1>1. l \in Points /\ l \in {"idle", "init", "finalize"} /\ Goto(t, l)
  BY DEF TypeOK, Points
<1> HIDE DEF l
<1>2. /\ pc' \in [Threads -> Points] /\ pc'[t] = l
      /\ \A u \in Threads \ {t} : pc'[u] = pc[u]
  BY <1>1, GotoType
<1>3. TypeOK'
  <2>1. objects' \in 0..MaxObjects
    BY SessionAssumption
  <2> QED
    BY <1>2, <2>1 DEF TypeOK, store, python, calls
<1>4. \A u \in Threads : ~InCall(u) /\ pc[u] # "unlock"
  BY SessionAssumption DEF Owners, Threads
<1>5. Owners' /\ Callees'
  BY <1>1, <1>2, <1>4 DEF Owners, Callees, InCall
<1>6. Initialized' /\ Emptied' /\ Bounded'
  BY <1>1, <1>2, SessionAssumption
     DEF Initialized, Emptied, Bounded, InOperation, ScriptPoints, python, calls,
         TypeOK
<1>7. Yields' /\ Valid'
  BY <1>1, <1>2 DEF Yields, LoopYieldsGil, Valid, LoopIteratorValid, Looping,
                    InOperation, python, calls
<1> QED
  BY <1>3, <1>5, <1>6, <1>7

-----------------------------------------------------------------------------
\* A thread that moves outside every critical region disturbs neither the lock
\* nor the callbacks of the others.
LEMMA Outside ==
  ASSUME IInv, NEW t \in Threads, NEW l \in Points, Goto(t, l),
         l \notin InOperation \ {"lock"}, pc[t] \notin InOperation \ {"lock"},
         UNCHANGED <<objects, lock>>
  PROVE  Owners' /\ Callees'
<1>1. /\ pc' \in [Threads -> Points] /\ pc'[t] = l
      /\ \A u \in Threads \ {t} : pc'[u] = pc[u]
  BY GotoType DEF IInv
<1> QED
  BY <1>1 DEF IInv, Owners, Callees, InCall, InOperation

\* main() before and after a quest.
LEMMA IdleMainStep ==
  ASSUME IInv, MakeQuest \/ Top \/ Sleep
  PROVE  IInv'
<1> USE MainIsThread DEF IInv
<1>1. PICK l \in {"top", "open", "done"} : Goto(Main, l)
  BY DEF MakeQuest, Top, Sleep
<1>2. /\ pc' \in [Threads -> Points] /\ pc'[Main] = l
      /\ \A u \in Threads \ {Main} : pc'[u] = pc[u]
  BY <1>1, GotoType DEF Points
<1>3. TypeOK'
  BY <1>2 DEF MakeQuest, Top, Sleep, TypeOK, store, quest, stops, python, calls
<1>4. Owners' /\ Callees'
  BY <1>1, Outside DEF InOperation, MakeQuest, Top, Sleep, Points, quest
<1>5. Initialized' /\ Emptied' /\ Bounded'
  BY <1>2 DEF MakeQuest, Top, Sleep, Initialized, Emptied, Bounded, InOperation,
     ScriptPoints, quest, python, calls
<1>6. Yields'
  BY <1>2, SessionAssumption
     DEF MakeQuest, Top, Sleep, Yields, LoopYieldsGil, Looping, quest, python, calls
<1>7. Valid'
  BY <1>2 DEF MakeQuest, Top, Sleep, Valid, LoopIteratorValid, Looping, InOperation,
     quest, python, calls
<1> QED
  BY <1>3, <1>4, <1>5, <1>6, <1>7

\* loadQuest() begins with a stopQuest(), without the GIL.
LEMMA ReadScriptStep ==
  ASSUME IInv, ReadScript
  PROVE  IInv'
<1> USE MainIsThread DEF IInv
<1>1. PICK l \in {"lock", "sleep"} :
        Goto(Main, l) /\ (l = "lock" => after' = [after EXCEPT ![Main] = "clear"])
  BY DEF ReadScript, StopQuestThen, Operate
<1>2. /\ pc' \in [Threads -> Points] /\ pc'[Main] = l
      /\ \A u \in Threads \ {Main} : pc'[u] = pc[u]
  BY <1>1, GotoType DEF Points
<1>3. l = "lock" => after'[Main] = "clear"
  BY <1>1 DEF TypeOK
<1>4. UNCHANGED <<store, quest, stops, python, lock, arg>>
  BY DEF ReadScript, StopQuestThen
<1>5. TypeOK'
  BY <1>2, <1>4, ReadableType
     DEF ReadScript, StopQuestThen, Operate, TypeOK, store, quest, stops, python, calls
<1>6. Owners' /\ Callees'
  BY <1>1, <1>4, Outside DEF InOperation, ReadScript, StopQuestThen, Points, quest
<1>7. Initialized' /\ Emptied' /\ Bounded'
  BY <1>2, <1>3, <1>4
     DEF Initialized, Emptied, Bounded, InOperation, ScriptPoints, quest, python
<1>8. Yields' /\ Valid'
  BY <1>2, <1>3, <1>4
     DEF Yields, LoopYieldsGil, Valid, LoopIteratorValid, Looping, InOperation
<1> QED
  BY <1>5, <1>6, <1>7, <1>8

\* The script registers an object only below the bound.
LEMMA ExecStep ==
  ASSUME IInv, Exec
  PROVE  IInv'
<1> USE MainIsThread DEF IInv
<1>1. PICK l \in {"add", "catch", "running"} :
        Goto(Main, l) /\ (l = "add" => objects < MaxObjects)
  BY DEF Exec
<1>2. /\ pc' \in [Threads -> Points] /\ pc'[Main] = l
      /\ \A u \in Threads \ {Main} : pc'[u] = pc[u]
  BY <1>1, GotoType DEF Points
<1>3. /\ UNCHANGED <<store, script, quest, stops, interp, lock, calls, arg>>
      /\ interp /\ gil' \in {gil, None}
  BY DEF Exec, Initialized, ScriptPoints
<1>4. TypeOK'
  BY <1>2, <1>3 DEF TypeOK, store, quest, stops, calls
<1>5. Owners' /\ Callees'
  BY <1>1, <1>3, Outside DEF InOperation, Exec, Points, quest
<1>6. Initialized' /\ Emptied' /\ Bounded'
  BY <1>1, <1>2, <1>3 DEF Initialized, Emptied, Bounded, quest
<1>7. Yields' /\ Valid'
  BY <1>2, <1>3
     DEF Yields, LoopYieldsGil, Valid, LoopIteratorValid, Looping, InOperation
<1> QED
  BY <1>4, <1>5, <1>6, <1>7

LEMMA InterpreterStep ==
  ASSUME IInv, InitInterpreter
  PROVE  IInv'
<1> USE MainIsThread DEF IInv
<1>1. PICK l \in {"exec"} : Goto(Main, l)
  BY DEF InitInterpreter
<1>2. /\ pc' \in [Threads -> Points] /\ pc'[Main] = l
      /\ \A u \in Threads \ {Main} : pc'[u] = pc[u]
  BY <1>1, GotoType DEF Points
<1>3. TypeOK'
  BY <1>2 DEF InitInterpreter, TypeOK, store, quest, stops, calls
<1>4. Owners' /\ Callees'
  BY <1>1, Outside DEF InOperation, InitInterpreter, Points, quest
<1>5. Initialized' /\ Emptied' /\ Bounded'
  BY <1>2 DEF InitInterpreter, Initialized, Emptied, Bounded, InOperation,
     ScriptPoints, quest, calls
<1>6. Yields'
  BY <1>2, SessionAssumption
     DEF InitInterpreter, Yields, LoopYieldsGil, Looping, quest, calls
<1>7. Valid'
  BY <1>2 DEF InitInterpreter, Valid, LoopIteratorValid, Looping, InOperation,
     quest, calls
<1> QED
  BY <1>3, <1>4, <1>5, <1>6, <1>7

\* The GIL is taken again on the way back into loadQuest(), never in loop().
LEMMA RegainStep ==
  ASSUME IInv, Regain
  PROVE  IInv'
<1> USE MainIsThread DEF IInv
<1>1. PICK l \in {"exec", "catch"} : Goto(Main, l)
  BY DEF Regain
<1>2. /\ pc' \in [Threads -> Points] /\ pc'[Main] = l
      /\ \A u \in Threads \ {Main} : pc'[u] = pc[u]
  BY <1>1, GotoType DEF Points
<1>3. TypeOK'
  BY <1>2 DEF Regain, TypeOK, store, quest, stops, calls
<1>4. Owners' /\ Callees'
  BY <1>1, Outside DEF InOperation, Regain, Points, quest
<1>5. Initialized' /\ Emptied' /\ Bounded'
  BY <1>2 DEF Regain, Initialized, Emptied, Bounded, InOperation,
     ScriptPoints, quest, calls
<1>6. Yields'
  BY <1>2, SessionAssumption
     DEF Regain, Yields, LoopYieldsGil, Looping, quest, calls
<1>7. Valid'
  BY <1>2 DEF Regain, Valid, LoopIteratorValid, Looping, InOperation,
     quest, calls
<1> QED
  BY <1>3, <1>4, <1>5, <1>6, <1>7

\* Main wants the lock while it has the GIL, before it loops.
LEMMA StartRunningStep ==
  ASSUME IInv, StartRunning
  PROVE  IInv'
<1> USE MainIsThread DEF IInv
<1>1. PICK l \in {"lock"} : Goto(Main, l)
  BY DEF StartRunning, OffThen, Operate
<1>2. /\ pc' \in [Threads -> Points] /\ pc'[Main] = l
      /\ \A u \in Threads \ {Main} : pc'[u] = pc[u]
  BY <1>1, GotoType DEF Points
<1>3. TypeOK'
  BY <1>2 DEF StartRunning, OffThen, Operate, TypeOK, store, quest, python
<1>4. Owners' /\ Callees'
  BY <1>1, Outside DEF InOperation, StartRunning, OffThen, Points, quest
<1>5. Initialized' /\ Emptied' /\ Bounded'
  BY <1>2 DEF StartRunning, OffThen, Operate, TypeOK, Initialized, Emptied, Bounded, InOperation,
     ScriptPoints, quest, python
<1>6. Yields'
  BY <1>2, SessionAssumption
     DEF StartRunning, OffThen, Operate, TypeOK, Yields, LoopYieldsGil, Looping, quest, python
<1>7. Valid'
  BY <1>2 DEF StartRunning, OffThen, Operate, TypeOK, Valid, LoopIteratorValid, Looping, InOperation,
     quest, python
<1> QED
  BY <1>3, <1>4, <1>5, <1>6, <1>7

\* After this Main has no GIL of its own.
LEMMA ReleaseStep ==
  ASSUME IInv, Release
  PROVE  IInv'
<1> USE MainIsThread DEF IInv
<1>1. PICK l \in {"while"} : Goto(Main, l)
  BY DEF Release, GilReleased
<1>2. /\ pc' \in [Threads -> Points] /\ pc'[Main] = l
      /\ \A u \in Threads \ {Main} : pc'[u] = pc[u]
  BY <1>1, GotoType DEF Points
<1>3. TypeOK'
  BY <1>2 DEF Release, GilReleased, TypeOK, store, quest, stops, calls
<1>4. Owners' /\ Callees'
  BY <1>1, Outside DEF InOperation, Release, GilReleased, Points, quest
<1>5. Initialized' /\ Emptied' /\ Bounded'
  BY <1>2 DEF Release, GilReleased, Initialized, Emptied, Bounded, InOperation,
     ScriptPoints, quest, calls
<1>6. Yields'
  BY <1>2, SessionAssumption
     DEF Release, GilReleased, Yields, LoopYieldsGil, Looping, quest, calls
<1>7. Valid'
  BY <1>2 DEF Release, GilReleased, Valid, LoopIteratorValid, Looping, InOperation,
     quest, calls
<1> QED
  BY <1>3, <1>4, <1>5, <1>6, <1>7

LEMMA WhileStep ==
  ASSUME IInv, While
  PROVE  IInv'
<1> USE MainIsThread DEF IInv
<1>1. PICK l \in {"lock"} : Goto(Main, l)
  BY DEF While, LoopsOn, StopQuestThen, Operate
<1>2. /\ pc' \in [Threads -> Points] /\ pc'[Main] = l
      /\ \A u \in Threads \ {Main} : pc'[u] = pc[u]
  BY <1>1, GotoType DEF Points
<1>3. TypeOK'
  BY <1>2 DEF While, LoopsOn, StopQuestThen, Operate, TypeOK, store, quest, stops, python
<1>4. Owners' /\ Callees'
  BY <1>1, Outside DEF InOperation, While, LoopsOn, StopQuestThen, Points, quest
<1>5. Initialized' /\ Emptied' /\ Bounded'
  BY <1>2 DEF While, LoopsOn, StopQuestThen, Operate, TypeOK, Initialized, Emptied, Bounded, InOperation,
     ScriptPoints, quest, python
<1>6. Yields'
  BY <1>2, SessionAssumption
     DEF While, LoopsOn, StopQuestThen, Operate, TypeOK, Yields, LoopYieldsGil, Looping, quest, python
<1>7. Valid'
  BY <1>2 DEF While, LoopsOn, StopQuestThen, Operate, TypeOK, Valid, LoopIteratorValid, Looping, InOperation,
     quest, python
<1> QED
  BY <1>3, <1>4, <1>5, <1>6, <1>7

\* Main wants the lock while it has the GIL, after it has looped.
LEMMA CatchStep ==
  ASSUME IInv, Catch
  PROVE  IInv'
<1> USE MainIsThread DEF IInv
<1>1. PICK l \in {"lock"} : Goto(Main, l)
  BY DEF Catch, StopQuestThen, Operate
<1>2. /\ pc' \in [Threads -> Points] /\ pc'[Main] = l
      /\ \A u \in Threads \ {Main} : pc'[u] = pc[u]
  BY <1>1, GotoType DEF Points
<1>3. TypeOK'
  BY <1>2 DEF Catch, StopQuestThen, Operate, TypeOK, store, quest, stops, python
<1>4. Owners' /\ Callees'
  BY <1>1, Outside DEF InOperation, Catch, StopQuestThen, Points, quest
<1>5. Initialized' /\ Emptied' /\ Bounded'
  BY <1>2 DEF Catch, StopQuestThen, Operate, TypeOK, Initialized, Emptied, Bounded, InOperation,
     ScriptPoints, quest, python
<1>6. Yields'
  BY <1>2, SessionAssumption
     DEF Catch, StopQuestThen, Operate, TypeOK, Yields, LoopYieldsGil, Looping, quest, python
<1>7. Valid'
  BY <1>2 DEF Catch, StopQuestThen, Operate, TypeOK, Valid, LoopIteratorValid, Looping, InOperation,
     quest, python
<1> QED
  BY <1>3, <1>4, <1>5, <1>6, <1>7

\* push_back() and the call of onStop(): the interpreter is up, the lock was free.
LEMMA AddStep ==
  ASSUME IInv, Add
  PROVE  IInv'
<1> USE MainIsThread DEF IInv, Add
<1>1. /\ pc' \in [Threads -> Points] /\ pc'[Main] = "call"
      /\ \A u \in Threads \ {Main} : pc'[u] = pc[u]
  BY GotoType DEF Points
<1>2. objects' \in 0..MaxObjects /\ objects' # 0
  BY SessionAssumption DEF TypeOK, Bounded
<1>3. after' \in [Threads -> {"idle", "clear", "regain", "release", "while"}]
      /\ after'[Main] = "regain"
  BY DEF TypeOK
<1>4. TypeOK'
  BY <1>1, <1>2, <1>3 DEF TypeOK, store, stops, python
<1>5. Owners' /\ Callees'
  BY <1>1, <1>2, SessionAssumption DEF Owners, Callees, InCall, Threads
<1>6. Initialized' /\ Emptied' /\ Bounded'
  BY <1>1 DEF Initialized, Emptied, Bounded, ScriptPoints, python
<1>7. Yields' /\ Valid'
  BY <1>1, <1>3 DEF Yields, LoopYieldsGil, Valid, LoopIteratorValid, Looping
<1> QED
  BY <1>4, <1>5, <1>6, <1>7

\* finalize_interpreter() comes when the quest is empty, or ends the process.
LEMMA FinalizeStep ==
  ASSUME IInv, Finalize
  PROVE  IInv'
<1> USE MainIsThread DEF IInv, Finalize
<1>1. CASE Crash /\ UNCHANGED python
  <2>1. TypeOK'
    BY <1>1 DEF Crash, TypeOK, store, quest, stops, python, calls, Points
  <2> QED
    BY <1>1, <2>1, CrashStep DEF quest, python
<1>2. CASE interp' = FALSE /\ gil' = None /\ Goto(Main, "sleep")
  <2>1. /\ pc' \in [Threads -> Points] /\ pc'[Main] = "sleep"
        /\ \A u \in Threads \ {Main} : pc'[u] = pc[u]
    BY <1>2, GotoType DEF Points
  <2>2. TypeOK'
    BY <1>2, <2>1 DEF TypeOK, store, quest, stops, calls
  <2>3. Owners' /\ Callees'
    BY <1>2, Outside DEF InOperation, Points, quest
  <2>4. Initialized' /\ Emptied' /\ Bounded'
    BY <2>1 DEF Initialized, Emptied, Bounded, InOperation, ScriptPoints, quest
  <2>5. Yields' /\ Valid'
    BY <2>1 DEF Yields, LoopYieldsGil, Valid, LoopIteratorValid, Looping, InOperation
  <2> QED
    BY <2>2, <2>3, <2>4, <2>5
<1> QED
  BY <1>1, <1>2

-----------------------------------------------------------------------------
\* A client leaves scripts, parts of scripts or nothing in the file.
LEMMA StoreType ==
  ASSUME TypeOK, NEW c \in Clients,
         Request(c) \/ Write(c) \/ Sync(c) \/ \E s \in Scripts : SetScript(c, s)
  PROVE  /\ file' \in Contents /\ disk' \in Contents
         /\ mixed' \subseteq Clients /\ saved' \in Scripts \cup {None}
<1>1. CASE Request(c)
  BY <1>1 DEF Request, store, TypeOK
<1>2. CASE Write(c)
  BY <1>2 DEF Write, Written, TypeOK, Contents
<1>3. CASE Sync(c)
  BY <1>3, ReadableType DEF Sync, Synced, TypeOK
<1>4. ASSUME NEW s \in Scripts, SetScript(c, s)
      PROVE  /\ file' \in Contents /\ disk' \in Contents
             /\ mixed' \subseteq Clients /\ saved' \in Scripts \cup {None}
  BY <1>4 DEF SetScript, Open, Truncated, TypeOK, Contents
<1> QED
  BY <1>1, <1>2, <1>3, <1>4

\* Requests and the writing of the file change nothing Main relies on.
LEMMA ClientStep ==
  ASSUME IInv, NEW c \in Clients,
         Request(c) \/ Write(c) \/ Sync(c) \/ \E s \in Scripts : SetScript(c, s)
  PROVE  IInv'
<1> USE MainIsThread DEF IInv
<1>1. PICK l \in {"lock", "next", "idle", "write", "sync"} : Goto(c, l)
  <2>1. CASE Request(c)
    BY <2>1 DEF Request, Goto
  <2>2. CASE Write(c) \/ Sync(c)
    BY <2>2 DEF Write, Sync, Operate
  <2>3. CASE \E s \in Scripts : SetScript(c, s)
    <3>1. pc' = [pc EXCEPT ![c] = "idle"] \/ Goto(c, "write")
      BY <2>3 DEF SetScript, TypeOK
    <3> QED
      BY <3>1 DEF Goto
  <2> QED
    BY <2>1, <2>2, <2>3
<1>2. /\ pc' \in [Threads -> Points] /\ pc'[c] = l
      /\ \A u \in Threads \ {c} : pc'[u] = pc[u]
  BY <1>1, GotoType DEF Points
<1>3. UNCHANGED <<script, quest, stops, python, lock, ret>>
  BY DEF Request, Write, Sync, SetScript, calls
<1>4. /\ after' \in [Threads -> {"idle", "clear", "regain", "release", "while"}]
      /\ after'[Main] = after[Main]
  BY DEF Request, Write, Sync, Operate, SetScript, TypeOK, calls
<1>5. TypeOK'
  <2>1. arg' \in [Clients -> Scripts]
    BY DEF Request, Write, Sync, SetScript, TypeOK
  <2> QED
    BY <1>2, <1>3, <1>4, <2>1, StoreType DEF TypeOK, quest, stops, python
<1>6. Owners' /\ Callees'
  <2>1. pc[c] \in {"idle", "write", "sync"}
    BY DEF Request, Write, Sync, SetScript, Writing
  <2> QED
    BY <1>1, <1>3, <2>1, Outside DEF InOperation, Points, quest
<1>7. pc'[Main] = pc[Main]
  BY <1>2
<1>8. Initialized' /\ Emptied' /\ Bounded'
  BY <1>3, <1>4, <1>7 DEF Initialized, Emptied, Bounded, quest, python
<1>9. Yields' /\ Valid'
  BY <1>3, <1>4, <1>7
     DEF Yields, LoopYieldsGil, Valid, LoopIteratorValid, Looping, quest, python
<1> QED
  BY <1>5, <1>6, <1>8, <1>9

LEMMA SignalStep ==
  ASSUME IInv, Signal
  PROVE  IInv'
<1> USE MainIsThread DEF IInv, Signal
<1>1. CASE Crash
  <2>1. TypeOK'
    BY <1>1 DEF Crash, TypeOK, store, quest, stops, python, calls, Points
  <2> QED
    BY <1>1, <2>1, CrashStep DEF quest, python
<1>2. CASE isRunning' = FALSE /\ g_running' = FALSE /\ UNCHANGED pc
  <2>1. TypeOK'
    BY <1>2 DEF TypeOK, store, quest, python, calls
  <2>2. Owners' /\ Callees' /\ Initialized' /\ Emptied' /\ Bounded'
    BY <1>2 DEF Owners, Callees, InCall, Initialized, Emptied, Bounded, quest, python,
       calls
  <2>3. Yields' /\ Valid'
    BY <1>2 DEF Yields, LoopYieldsGil, Valid, LoopIteratorValid, Looping, quest, python,
       calls
  <2> QED
    BY <2>1, <2>2, <2>3
<1> QED
  BY <1>1, <1>2

LEMMA WriteBackStep ==
  ASSUME IInv, WriteBack
  PROVE  IInv'
  BY ReadableType
  DEF WriteBack, IInv, TypeOK, Owners, Callees, InCall, Initialized, Emptied, Bounded,
     Yields, LoopYieldsGil, Valid, LoopIteratorValid, Looping, quest, stops,
     python, calls

\* A new process starts where Init does, whatever the old one was doing.
LEMMA RestartStep ==
  ASSUME IInv, Restart
  PROVE  IInv'
<1> USE MainIsThread DEF IInv, Restart
<1>1. TypeOK'
  <2>1. pc' \in [Threads -> Points]
    BY DEF BootPoints, Points
  <2>2. after' \in [Threads -> {"idle", "clear", "regain", "release", "while"}]
    BY DEF BootAfter
  <2>3. objects' \in 0..MaxObjects
    BY SessionAssumption
  <2> QED
    BY <2>1, <2>2, <2>3 DEF TypeOK
<1>2. \A t \in Threads : pc'[t] \in {"start", "idle"}
  BY DEF BootPoints
<1>3. pc'[Main] = "start"
  BY DEF BootPoints
<1> QED
  BY <1>1, <1>2, <1>3
     DEF Owners, Callees, Initialized, Emptied, Bounded, Yields,
         Valid, InCall, InOperation, ScriptPoints, LoopYieldsGil,
         LoopIteratorValid, Looping

LEMMA StepIInv == IInv /\ [Next]_vars => IInv'
<1> SUFFICES ASSUME IInv, [Next]_vars PROVE IInv'
  OBVIOUS
<1>1. ASSUME NEW t \in Threads, Step(t) PROVE IInv'
  BY <1>1, LockStep, NextMethodStep, CallStep, RaiseStep, UnlockStep, ClearStep
     DEF Step
<1>2. CASE MainStep
  BY <1>2, IdleMainStep, ReadScriptStep, InterpreterStep, ExecStep, AddStep,
             RegainStep, StartRunningStep, ReleaseStep, WhileStep, CatchStep, FinalizeStep
     DEF MainStep
<1>3. CASE Signal \/ WriteBack \/ Restart
  BY <1>3, SignalStep, WriteBackStep, RestartStep
<1>4. CASE UNCHANGED vars
  BY <1>4 DEF vars, IInv, TypeOK, Owners, Callees, InCall, Initialized, Emptied,
     Bounded, Yields, LoopYieldsGil, Valid, LoopIteratorValid, Looping, store, quest,
     stops, python, calls
<1> QED
  BY <1>1, <1>2, <1>3, <1>4, ClientStep DEF Next

LEMMA Invariance == Spec => []IInv
  BY InitIInv, StepIInv, PTL DEF Spec

-----------------------------------------------------------------------------
\* The types; in particular the objects a script registers stay below the bound.
THEOREM TypeCorrect == Spec => []TypeOK
  BY Invariance, PTL DEF IInv

\* No object and no call into Python without an interpreter, whatever clients,
\* signals, exceptions and reloads do.
THEOREM InterpreterCorrect == Spec => []PythonNeedsInterpreter
<1>1. IInv => PythonNeedsInterpreter
  BY DEF IInv, Callees, Initialized, InCall, PythonNeedsInterpreter
<1> QED
  BY <1>1, Invariance, PTL

\* A quest that loops cannot deadlock on the lock and the GIL.
THEOREM GilCorrect == Spec => []LoopYieldsGil
  BY Invariance, PTL DEF IInv, Yields

\* loop() never follows an invalid iterator.
THEOREM IteratorCorrect == Spec => []LoopIteratorValid
  BY Invariance, PTL DEF IInv, Valid

(***************************************************************************)
(* A client that has the GIL is inside a callback: it takes the GIL in one *)
(* and gives it back before it leaves it, and it never takes it twice.     *)
(***************************************************************************)
Holders ==
  \A c \in Clients : /\ gil = c => pc[c] \in {"python", "crashed"}
                     /\ pc[c] = "crashed" <=> ~Alive
                     /\ pc[c] \notin {"nested", "nestedBinding"}

LEMMA HoldersStep ==
  ASSUME TypeOK, Holders, [Next]_vars
  PROVE  Holders'
<1> USE MainIsThread DEF Holders, Alive
<1>1. ASSUME NEW t \in Threads, Step(t) PROVE Holders'
  <2>1. CASE Enter(t) \/ Exit(t) \/ Bind(t) \/ EndBinding(t)
    BY <1>1, <2>1, SessionAssumption
       DEF Enter, Exit, Bind, EndBinding, Goto, TypeOK, Threads
  <2>2. CASE Raise(t)
    BY <1>1, <2>2, SessionAssumption DEF Raise, Crash, Goto, TypeOK, Threads
  <2>3. CASE Lock(t) \/ LockNext(t)
    BY <1>1, <2>3 DEF Lock, LockNext, Crash, Goto, TypeOK, python
  <2>4. CASE Unlock(t) \/ Clear(t)
    BY <1>1, <2>4 DEF Unlock, Clear, Goto, TypeOK, python
  <2> QED
    BY <1>1, <2>1, <2>2, <2>3, <2>4 DEF Step
<1>2. CASE MainStep
  <2>1. gil' \in {gil, Main, None}
    BY <1>2 DEF MainStep, MakeQuest, Top, ReadScript, Sleep, InitInterpreter, Exec, Add,
       Regain, StartRunning, Release, GilReleased, While, Catch, Finalize, python
  <2>2. /\ Alive
        /\ \/ Crash
           \/ pc'[Main] # "crashed" /\ \A c \in Clients : pc'[c] = pc[c]
    BY <1>2 DEF MainStep, MakeQuest, Top, ReadScript, Sleep, InitInterpreter, Exec, Add,
       Regain, StartRunning, Release, While, Catch, Finalize, Goto, Operate, OffThen,
       StopQuestThen, TypeOK
  <2> QED
    BY <2>1, <2>2, SessionAssumption DEF Crash, Threads
<1>3. ASSUME NEW c \in Clients,
             Request(c) \/ Write(c) \/ Sync(c) \/ \E s \in Scripts : SetScript(c, s)
      PROVE  Holders'
  BY <1>3 DEF Request, Write, Writing, Sync, SetScript, Operate, Goto, TypeOK, python
<1>4. CASE Signal \/ WriteBack \/ Restart
  BY <1>4, SessionAssumption
     DEF Signal, WriteBack, Restart, Crash, BootPoints, Threads, python
<1>5. CASE UNCHANGED vars
  BY <1>5 DEF vars, python
<1> QED
  BY <1>1, <1>2, <1>3, <1>4, <1>5 DEF Next

\* In a looping quest the bindings that touch Python without the GIL are alone:
\* whoever else had the GIL would be in a callback, and have the same lock.
THEOREM BindingCorrect == Spec => []BindingAlone
<1>1. Init => Holders
  BY SessionAssumption DEF Init, Holders, BootPoints, Threads, Alive
<1>2. IInv /\ Holders /\ [Next]_vars => Holders'
  BY HoldersStep DEF IInv
<1>3. IInv /\ Holders => BindingAlone
  <2> SUFFICES ASSUME IInv, Holders, Looping, NEW t \in Threads,
                      pc[t] \in {"binding", "nestedBinding"}, gil # None
               PROVE  FALSE
    BY DEF BindingAlone
  <2>1. gil \in Threads /\ lock = t
    BY DEF IInv, TypeOK, Owners, InCall
  <2>2. CASE gil = Main
    BY <2>1, <2>2 DEF IInv, Yields, LoopYieldsGil, Owners, InCall
  <2>3. CASE gil # Main
    <3>1. gil \in Clients
      BY <2>1, <2>3 DEF Threads
    <3>2. pc[gil] = "python"
      BY <3>1, MainIsThread DEF Holders, Looping, Alive
    <3> QED
      BY <2>1, <3>1, <3>2 DEF IInv, Owners, InCall
  <2> QED
    BY <2>2, <2>3
<1> QED
  BY <1>1, <1>2, <1>3, Invariance, PTL DEF Spec

\* Nobody keeps the lock outside an operation, and Main has not got the GIL where
\* it is about to take it back.
Apart ==
  /\ \A t \in Threads : lock = t => InCall(t) \/ pc[t] \in {"unlock", "crashed"}
  /\ pc[Main] \in {"add", "regain", "unwind", "binding", "nestedBinding"} => gil # Main
  /\ pc[Main] \in {"lock", "call", "unlock"} /\ after[Main] = "regain" => gil # Main
  /\ pc[Main] \in {"nested", "nestedBinding"} => after[Main] # "regain"

\* Apart is inductive: an operation of a thread.
LEMMA ApartOperation ==
  ASSUME TypeOK, Yields, Apart, NEW t \in Threads, Step(t)
  PROVE  Apart'
<1> USE MainIsThread, SessionAssumption DEF Apart, InCall
<1>1. CASE Lock(t)
  BY <1>1 DEF Lock, Goto, TypeOK, Threads, python, calls
<1>2. CASE LockNext(t)
  <2>1. CASE Crash
    BY <1>2, <2>1 DEF Crash
  <2>2. CASE ~Crash
    <3>1. lock' = t /\ pc[t] = "next" /\ UNCHANGED <<gil, after>>
      BY <1>2, <2>2 DEF LockNext, python, calls
    <3>2. PICK l \in {"unlock", "call"} : Goto(t, l)
      BY <1>2, <2>2 DEF LockNext
    <3>3. pc'[t] = l /\ \A u \in Threads \ {t} : pc'[u] = pc[u]
      BY <3>2 DEF Goto, TypeOK
    <3>4. t # Main
      BY <3>1 DEF Yields
    <3> QED
      BY <3>1, <3>3, <3>4
  <2> QED
    BY <2>1, <2>2
<1>3. CASE Enter(t)
  BY <1>3 DEF Enter, Goto, TypeOK, Threads, calls
<1>4. CASE Exit(t)
  BY <1>4 DEF Exit, Goto, TypeOK, Threads, calls
<1>5. CASE Bind(t) \/ EndBinding(t)
  BY <1>5 DEF Bind, EndBinding, Goto, TypeOK, Threads, calls
<1>6. CASE Raise(t)
  BY <1>6 DEF Raise, Crash, Goto, TypeOK, Threads, calls
<1>7. CASE Unlock(t)
  BY <1>7 DEF Unlock, Goto, TypeOK, Threads, python, calls
<1>8. CASE Clear(t)
  BY <1>8 DEF Clear, Goto, TypeOK, Threads, python, calls
<1> QED
  BY <1>1, <1>2, <1>3, <1>4, <1>5, <1>6, <1>7, <1>8 DEF Step

\* Apart is inductive: the rest.
LEMMA ApartStep ==
  ASSUME TypeOK, Yields, Apart, [Next]_vars
  PROVE  Apart'
<1> USE MainIsThread, SessionAssumption DEF Apart, InCall
<1>1. ASSUME NEW t \in Threads, Step(t) PROVE Apart'
  BY <1>1, ApartOperation
<1>2. CASE Add \/ Regain
  BY <1>2 DEF Add, Regain, Goto, TypeOK, Threads, python, calls
<1>3. CASE Exec
  BY <1>3 DEF Exec, Goto, TypeOK, Threads, calls
<1>4. CASE MainStep /\ ~Add /\ ~Regain /\ ~Exec
  <2>1. CASE Crash
    BY <1>4, <2>1 DEF Crash
  <2>2. CASE ~Crash
    <3>1. /\ UNCHANGED lock
          /\ \A c \in Clients : pc'[c] = pc[c]
      BY <1>4, <2>2 DEF MainStep, MakeQuest, Top, ReadScript, Sleep, InitInterpreter,
         StartRunning, Release, While, Catch, Finalize, Goto, Operate, OffThen,
         StopQuestThen, TypeOK
    <3>2. lock # Main
      BY <1>4 DEF MainStep, MakeQuest, Top, ReadScript, Sleep, InitInterpreter,
         StartRunning, Release, While, Catch, Finalize
    <3>3. \/ pc'[Main] \in {"top", "open", "done", "sleep", "exec", "while"}
          \/ pc'[Main] = "lock" /\ after'[Main] # "regain"
      BY <1>4, <2>2 DEF MainStep, MakeQuest, Top, ReadScript, Sleep, InitInterpreter,
         StartRunning, Release, While, Catch, Finalize, Goto, Operate, OffThen,
         StopQuestThen, TypeOK
    <3> QED
      BY <3>1, <3>2, <3>3 DEF Threads
  <2> QED
    BY <2>1, <2>2
<1>5. ASSUME NEW c \in Clients,
             Request(c) \/ Write(c) \/ Sync(c) \/ \E s \in Scripts : SetScript(c, s)
      PROVE  Apart'
  BY <1>5 DEF Request, Write, Writing, Sync, SetScript, Operate, Goto, TypeOK, Threads, python, calls
<1>6. CASE Signal \/ WriteBack \/ Restart
  BY <1>6 DEF Signal, WriteBack, Restart, Crash, BootPoints, Threads, python, calls
<1>7. CASE UNCHANGED vars
  BY <1>7 DEF vars, python, calls
<1> QED
  BY <1>1, <1>2, <1>3, <1>4, <1>5, <1>6, <1>7 DEF Next

\* Whatever waits in a circle is Main in loadQuest() and a client: a quest that
\* loops cannot be stuck, and no thread waits for what it has itself.
THEOREM DeadlockCorrect == Spec => []OnlyLoadingBlocks
<1>1. Init => Holders /\ Apart
  BY SessionAssumption
     DEF Init, Holders, Apart, InCall, BootPoints, BootAfter, Threads, Alive
<1>2. IInv /\ Holders /\ Apart /\ [Next]_vars => Holders' /\ Apart'
  BY HoldersStep, ApartStep DEF IInv
<1>3. IInv /\ Holders /\ Apart => OnlyLoadingBlocks
  <2> SUFFICES ASSUME IInv, Holders, Apart, NEW t \in Threads, NEW u \in Threads,
                      WaitsFor(t, u), WaitsFor(u, t)
               PROVE  t # u /\ Stuck /\ ~Looping
    BY DEF OnlyLoadingBlocks
  <2>1. \A v \in Threads : WaitsForLock(v) => lock # v /\ ~WaitsForGil(v)
    BY DEF Apart, WaitsForLock, WaitsForGil, InCall
  <2>2. \A v \in Threads : WaitsForGil(v) => gil # v
    BY MainIsThread DEF Apart, Holders, WaitsForGil, IInv, TypeOK, Threads
  <2>3. ASSUME NEW v \in Threads, NEW w \in Threads, WaitsForLock(v), lock = w,
               WaitsForGil(w), gil = v
        PROVE  Stuck /\ ~Looping
    <3>1. v \notin Clients
      BY <2>3 DEF Holders, WaitsForLock
    <3>2. v = Main /\ w \in Clients
      BY <2>1, <2>3, <3>1 DEF Threads
    <3>3. pc[w] \in {"call", "binding"}
      BY <2>3, <3>2 DEF Apart, Holders, InCall, WaitsForGil
    <3>4. pc[Main] \in {"lock", "clear"}
      BY <2>3, <3>2 DEF Apart, IInv, Yields, WaitsForLock
    <3>5. ~Looping
      BY <2>3, <3>2, <3>4 DEF IInv, Yields, LoopYieldsGil
    <3> QED
      BY <2>3, <3>2, <3>3, <3>4, <3>5 DEF Stuck
  <2>4. \/ WaitsForLock(t) /\ lock = u /\ WaitsForGil(u) /\ gil = t
        \/ WaitsForLock(u) /\ lock = t /\ WaitsForGil(t) /\ gil = u
    BY <2>1, <2>2 DEF WaitsFor
  <2> QED
    BY <2>1, <2>3, <2>4
<1> QED
  BY <1>1, <1>2, <1>3, Invariance, PTL DEF Spec

(***************************************************************************)
(* Why a saved script stays: from a sync() to the next open() nobody is    *)
(* writing, and a set_script that nobody runs into has the file to itself  *)
(* from its open() to its sync().                                          *)
(***************************************************************************)
Kept == saved # None => file = saved /\ disk = saved /\ \A c \in Clients : ~Writing(c)

Begun ==
  \A c \in Clients \ mixed :
    Writing(c) => file = Empty /\ \A d \in Clients \ {c} : ~Writing(d)

Complete ==
  \A c \in Clients \ mixed :
    pc[c] = "sync" => file = arg[c] /\ \A d \in Clients : ~Writing(d)

Safe == Kept /\ Begun /\ Complete

\* Nobody else writes or syncs.
LEMMA SafeElsewhere ==
  ASSUME Safe, UNCHANGED <<file, mixed, saved, arg>>, disk' \in Readable \cup {disk},
         \A c \in Clients : pc'[c] \in {"write", "sync"} => pc'[c] = pc[c]
  PROVE  Safe'
  BY DEF Safe, Kept, Begun, Complete, Readable, Writing

LEMMA OpenSafe ==
  ASSUME TypeOK, Safe, NEW c \in Clients, NEW s \in Scripts, SetScript(c, s)
  PROVE  Safe'
<1> USE DEF Safe, Kept, Begun, Complete, Writing
<1>1. \A d \in Clients \ {c} : arg'[d] = arg[d]
  BY DEF SetScript, TypeOK
<1>2. CASE UNCHANGED <<file, mixed, saved, pc>>
  BY <1>1, <1>2 DEF SetScript
<1>3. CASE Open(c) /\ Goto(c, "write")
  <2>1. pc'[c] = "write" /\ \A d \in Clients \ {c} : pc'[d] = pc[d]
    BY <1>3, MainIsThread DEF Goto, TypeOK
  <2>2. file' = Empty /\ saved' = None
    BY <1>3 DEF Open, Truncated
  <2>3. \A d \in Clients \ {c} : pc[d] \in {"write", "sync"} => d \in mixed'
    BY <1>3 DEF Open
  <2>4. c \notin mixed' => \A d \in Clients \ {c} : ~Writing(d)
    BY <1>3 DEF Open
  <2> QED
    BY <2>1, <2>2, <2>3, <2>4
<1> QED
  BY <1>2, <1>3 DEF SetScript

LEMMA WriteSafe ==
  ASSUME TypeOK, Safe, NEW c \in Clients, Write(c)
  PROVE  Safe'
<1> USE DEF Safe, Kept, Begun, Complete, Writing
<1>1. pc[c] = "write" /\ pc'[c] = "sync" /\ \A d \in Clients \ {c} : pc'[d] = pc[d]
  BY MainIsThread DEF Write, Goto, TypeOK
<1>2. saved' = None
  BY <1>1 DEF Write
<1>3. \A d \in Clients \ {c} : d \notin mixed => pc[d] \notin {"write", "sync"}
  BY <1>1
<1>4. c \notin mixed => file' = arg[c]
  BY <1>1 DEF Write, Written
<1> QED
  BY <1>1, <1>2, <1>3, <1>4 DEF Write

LEMMA SyncSafe ==
  ASSUME TypeOK, Safe, NEW c \in Clients, Sync(c)
  PROVE  Safe'
<1>1. pc[c] = "sync" /\ pc'[c] = "lock" /\ \A d \in Clients \ {c} : pc'[d] = pc[d]
  BY MainIsThread DEF Sync, Operate, Goto, TypeOK
<1>2. disk' \in Readable /\ UNCHANGED <<file, mixed, arg>>
  BY DEF Sync, Synced
<1>3. CASE c \in mixed
  BY <1>1, <1>2, <1>3, SafeElsewhere DEF Sync
<1>4. CASE c \notin mixed
  BY <1>1, <1>2, <1>4 DEF Sync, Safe, Kept, Begun, Complete, Readable, Writing
<1> QED
  BY <1>3, <1>4

\* No thread but a client in set_script comes to write() or sync().
LEMMA NotWriting ==
  ASSUME TypeOK, [Next]_vars,
         ~ \E c \in Clients : Write(c) \/ Sync(c) \/ \E s \in Scripts : SetScript(c, s)
  PROVE  \A c \in Clients : pc'[c] \in {"write", "sync"} => pc'[c] = pc[c]
<1> USE MainIsThread
<1>1. ASSUME NEW t \in Threads, Step(t)
      PROVE  \A c \in Clients : pc'[c] \in {"write", "sync"} => pc'[c] = pc[c]
  <2>1. \/ Crash
        \/ \E l \in {"idle", "call", "python", "nested", "binding", "nestedBinding", "unlock",
                     "unwind", "catch", "clear", "regain", "release", "while", "init",
                     "finalize"} : Goto(t, l)
    BY <1>1 DEF Step, Lock, LockNext, Enter, Exit, Bind, EndBinding, Raise, Unlock, Clear,
       TypeOK
  <2> QED
    BY <2>1 DEF Crash, Goto, TypeOK
<1>2. CASE MainStep
  <2>1. Crash \/ \E l : Goto(Main, l)
    BY <1>2 DEF MainStep, MakeQuest, Top, ReadScript, Sleep, InitInterpreter, Exec, Add,
       Regain, StartRunning, Release, While, Catch, Finalize, Operate, OffThen,
       StopQuestThen
  <2> QED
    BY <2>1 DEF Crash, Goto, TypeOK
<1>3. ASSUME NEW c \in Clients, Request(c)
      PROVE  \A d \in Clients : pc'[d] \in {"write", "sync"} => pc'[d] = pc[d]
  BY <1>3 DEF Request, TypeOK
<1>4. CASE Signal \/ WriteBack \/ Restart
  BY <1>4 DEF Signal, WriteBack, Restart, Crash, BootPoints
<1>5. CASE UNCHANGED vars
  BY <1>5 DEF vars
<1> QED
  BY <1>1, <1>2, <1>3, <1>4, <1>5 DEF Next

\* What leaves the script file alone, a power loss apart.
LEMMA StoreKept ==
  ASSUME TypeOK, [Next]_vars, ~Restart,
         ~ \E c \in Clients : Write(c) \/ Sync(c) \/ \E s \in Scripts : SetScript(c, s)
  PROVE  UNCHANGED <<file, mixed, saved, arg>> /\ disk' \in Readable \cup {disk}
<1>1. ASSUME NEW t \in Threads, Step(t) PROVE UNCHANGED <<store, arg>>
  BY <1>1 DEF Step, Lock, LockNext, Enter, Exit, Bind, EndBinding, Raise, Unlock, Clear
<1>2. CASE MainStep
  BY <1>2 DEF MainStep, MakeQuest, Top, ReadScript, Sleep, InitInterpreter, Exec, Add, Regain,
      StartRunning, Release, While, Catch, Finalize, store
<1>3. CASE Signal \/ UNCHANGED vars
  BY <1>3 DEF Signal, vars, store
<1>4. CASE WriteBack
  BY <1>4 DEF WriteBack
<1>5. CASE \E c \in Clients : Request(c)
  BY <1>5 DEF Request, store
<1> QED
  BY <1>1, <1>2, <1>3, <1>4, <1>5 DEF Next, store

\* A script that has been saved with nobody in the way is what every later read
\* finds, in this process or, after a power loss, in the next, until the next open().
THEOREM SavedCorrect == Spec => []SavedSurvives
<1>1. Init => Safe
  BY SessionAssumption
     DEF Init, Safe, Kept, Begun, Complete, Writing, BootPoints, Threads
<1>2. IInv /\ Safe /\ [Next]_vars => Safe'
  <2> SUFFICES ASSUME IInv, Safe, [Next]_vars PROVE Safe'
    OBVIOUS
  <2>1. CASE \E c \in Clients : Write(c) \/ Sync(c) \/ \E s \in Scripts : SetScript(c, s)
    BY <2>1, OpenSafe, WriteSafe, SyncSafe DEF IInv
  <2>2. CASE Restart
    BY <2>2, SessionAssumption
       DEF Restart, Safe, Kept, Begun, Complete, Writing, BootPoints, Threads
  <2>3. CASE /\ ~Restart
             /\ ~ \E c \in Clients :
                    Write(c) \/ Sync(c) \/ \E s \in Scripts : SetScript(c, s)
    BY <2>3, StoreKept, NotWriting, SafeElsewhere DEF IInv
  <2> QED
    BY <2>1, <2>2, <2>3
<1>3. Safe => SavedSurvives
  BY DEF Safe, Kept, SavedSurvives, Readable
<1> QED
  BY <1>1, <1>2, <1>3, Invariance, PTL DEF Spec
=============================================================================
