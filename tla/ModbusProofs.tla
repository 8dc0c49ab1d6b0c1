---------------------------- MODULE ModbusProofs ----------------------------
(***************************************************************************)
(* Theorems about Modbus, for any number of callers, boards, values and    *)
(* attempts.  None of the invariants is inductive by itself: each rests on *)
(* who has _accessMutex (Holder), on the attempts a call has left (Budget) *)
(* and on what a call that waits has not done yet (Fresh).                 *)
(***************************************************************************)
EXTENDS Modbus, TLAPS

\* The thread that tries is the one that has _accessMutex, and the only one.
Holder == \A t \in Threads : pc[t] \in {"try", "check"} <=> mutex = t

\* A call that is under way has at least one attempt left.
Budget == \A t \in Threads : pc[t] # "idle" => retries[t] > 0

\* No board has seen anything of a call that still waits for the mutex.
Fresh == \A t \in Threads : pc[t] = "lock" => ~done[t]

Basis == TypeOK /\ Holder /\ Budget /\ Fresh

IInv == Basis /\ OwnSlave /\ SuccessIsReal /\ WriteIsolated /\ RetriesUsed

LEMMA InitIInv == Init => IInv
<1> SUFFICES ASSUME Init PROVE IInv
  OBVIOUS
<1>1. TypeOK
  BY ModbusAssumption DEF Init, TypeOK
<1>2. Holder /\ Budget /\ Fresh /\ OwnSlave
  BY ModbusAssumption DEF Init, Holder, Budget, Fresh, OwnSlave
<1>3. SuccessIsReal /\ WriteIsolated /\ RetriesUsed
  BY DEF Init, SuccessIsReal, WriteIsolated, RetriesUsed
<1> QED
  BY <1>1, <1>2, <1>3 DEF IInv, Basis

\* A new call touches nothing of the other callers, the line or the mutex.
LEMMA BeginStep ==
  ASSUME IInv, NEW t \in Threads, NEW c \in Calls, Begin(t, c)
  PROVE  IInv'
<1> USE DEF Begin, Put, line, IInv, Basis
<1>1. TypeOK'
  BY ModbusAssumption DEF TypeOK
<1>2. Holder' /\ Budget' /\ Fresh'
  BY ModbusAssumption DEF TypeOK, Holder, Budget, Fresh
<1>3. OwnSlave' /\ WriteIsolated'
  BY DEF TypeOK, OwnSlave, WriteIsolated
<1>4. SuccessIsReal' /\ RetriesUsed'
  BY DEF TypeOK, SuccessIsReal, RetriesUsed
<1> QED
  BY <1>1, <1>2, <1>3, <1>4

\* A caller that gets the mutex puts its board's address where no other caller
\* is using it.
LEMMA EnterStep ==
  ASSUME IInv, NEW t \in Threads, Enter(t)
  PROVE  IInv'
<1> USE DEF Enter, LockFree, NewAddress, Put, IInv, Basis
<1>1. TypeOK'
  BY DEF TypeOK, Calls
<1>2. Holder' /\ Budget' /\ Fresh'
  BY ModbusAssumption DEF TypeOK, Holder, Budget, Fresh
<1>3. \A u \in Threads : pc[u] \notin {"try", "check"}
  BY ModbusAssumption DEF Holder
<1>4. OwnSlave'
  BY <1>3 DEF TypeOK, OwnSlave
<1>5. WriteIsolated'
  BY <1>3 DEF TypeOK, WriteIsolated, Fresh
<1>6. SuccessIsReal' /\ RetriesUsed'
  BY DEF TypeOK, SuccessIsReal, RetriesUsed
<1> QED
  BY <1>1, <1>2, <1>4, <1>5, <1>6

\* An attempt reaches the caller's own board.
LEMMA AttemptStep ==
  ASSUME IInv, NEW t \in Threads, Attempt(t)
  PROVE  IInv'
<1> USE DEF IInv, Basis
<1>1. address = call[t].slave /\ address \in Slaves /\ call[t] \in Calls
  BY DEF Attempt, OwnSlave, TypeOK
<1>2. TypeOK'
  <2>1. call[t].what = Reading \/ call[t].what \in Values
    BY <1>1 DEF Calls
  <2>2. reg' \in [Slaves -> Values]
    BY <1>1, <2>1 DEF Attempt, Execute, TypeOK
  <2>3. done' \in [Threads -> BOOLEAN]
    BY DEF Attempt, Execute, Put, TypeOK
  <2>4. data' \in [Threads -> Values \cup {Garbage}]
    BY <1>1 DEF Attempt, Put, TypeOK
  <2>5. count' \in [Threads -> {-1, 1}]
    BY DEF Attempt, Put, TypeOK
  <2>6. pc' \in [Threads -> {"idle", "lock", "try", "check"}]
    BY DEF Attempt, Put, TypeOK
  <2> QED
    BY <2>2, <2>3, <2>4, <2>5, <2>6 DEF Attempt, TypeOK
<1>3. Holder' /\ Budget' /\ Fresh'
  BY DEF Attempt, Execute, Put, TypeOK, Holder, Budget, Fresh
<1>4. OwnSlave'
  BY DEF Attempt, Put, TypeOK, OwnSlave
<1>5. SuccessIsReal'
  <2> SUFFICES ASSUME NEW u \in Threads, pc'[u] \in {"check", "idle"}, count'[u] = 1
               PROVE  /\ done'[u]
                      /\ call'[u].what = Reading => data'[u] \in Values
    BY DEF SuccessIsReal
  <2>1. CASE u = t
    <3>1. Execute(t) /\ data' = IF call[t].what = Reading
                                 THEN Put(data, t, reg[address]) ELSE data
      BY <2>1 DEF Attempt, Put, TypeOK
    <3>2. done'[t]
      BY <1>1, <3>1 DEF Execute, Put, TypeOK
    <3>3. call[t].what = Reading => data'[t] \in Values
      BY <1>1, <3>1 DEF Put, TypeOK
    <3> QED
      BY <2>1, <3>2, <3>3 DEF Attempt
  <2>2. CASE u # t
    <3>1. pc'[u] = pc[u] /\ count'[u] = count[u] /\ data'[u] = data[u]
      BY <2>2 DEF Attempt, Put, TypeOK
    <3>2. done'[u] = done[u]
      BY <2>2 DEF Attempt, Execute, Put, TypeOK
    <3> QED
      BY <3>1, <3>2 DEF Attempt, SuccessIsReal
  <2> QED
    BY <2>1, <2>2
<1>6. \A u \in Threads \ {t} : pc[u] \notin {"try", "check"}
  BY DEF Attempt, Holder
<1>7. WriteIsolated'
  BY <1>1, <1>6 DEF Attempt, Execute, Put, TypeOK, WriteIsolated
<1>8. RetriesUsed'
  BY DEF Attempt, Put, TypeOK, RetriesUsed
<1> QED
  BY <1>2, <1>3, <1>4, <1>5, <1>7, <1>8

\* A call ends by success or with its last attempt.
LEMMA CheckStep ==
  ASSUME IInv, NEW t \in Threads, Check(t)
  PROVE  IInv'
<1> USE DEF Check, Retry, Counted, TryAgain, Put, line, IInv, Basis
<1>1. retries[t] \in 1..RetryCount /\ RetryCount \in Nat
  BY ModbusAssumption DEF TypeOK, Budget
<1>2. TypeOK'
  BY <1>1 DEF TypeOK
<1>3. Budget' /\ Fresh' /\ RetriesUsed'
  BY <1>1 DEF TypeOK, Budget, Fresh, RetriesUsed
<1>4. Holder'
  BY ModbusAssumption DEF TypeOK, Holder
<1>5. OwnSlave' /\ WriteIsolated'
  BY DEF TypeOK, OwnSlave, WriteIsolated
<1>6. SuccessIsReal'
  BY DEF TypeOK, SuccessIsReal
<1> QED
  BY <1>2, <1>3, <1>4, <1>5, <1>6

\* A board that acts changes its register under no write that counts on it.
LEMMA BoardStep ==
  ASSUME IInv, NEW s \in Active, BoardActs(s)
  PROVE  IInv'
<1> USE DEF BoardActs, locals, IInv, Basis
<1>1. TypeOK'
  BY DEF TypeOK
<1>2. Holder' /\ Budget' /\ Fresh' /\ OwnSlave' /\ SuccessIsReal' /\ RetriesUsed'
  BY DEF Holder, Budget, Fresh, OwnSlave, SuccessIsReal, RetriesUsed
<1>3. WriteIsolated'
  BY DEF TypeOK, WriteIsolated
<1> QED
  BY <1>1, <1>2, <1>3

LEMMA StepIInv == IInv /\ [Next]_vars => IInv'
<1> SUFFICES ASSUME IInv, [Next]_vars PROVE IInv'
  OBVIOUS
<1>1. CASE UNCHANGED vars
  BY <1>1 DEF vars, line, locals, IInv, Basis, TypeOK, Holder, Budget, Fresh,
              OwnSlave, SuccessIsReal, WriteIsolated, RetriesUsed
<1>2. CASE Next
  BY <1>2, BeginStep, EnterStep, AttemptStep, CheckStep, BoardStep DEF Next, Work
<1> QED
  BY <1>1, <1>2

LEMMA Invariance == Spec => []IInv
  BY InitIInv, StepIInv, PTL DEF Spec

\* The types: in particular `retries' never goes below 0.
THEOREM TypeCorrect == Spec => []TypeOK
  BY Invariance, PTL DEF IInv, Basis

\* Every attempt goes to the board its caller named.
THEOREM SlaveCorrect == Spec => []OwnSlave
  BY Invariance, PTL DEF IInv

\* A call that returns 1 has been executed by its board; a read that returns 1
\* has read a value.
THEOREM SuccessCorrect == Spec => []SuccessIsReal
  BY Invariance, PTL DEF IInv

\* No other write comes between the attempts of a write.
THEOREM IsolationCorrect == Spec => []WriteIsolated
  BY Invariance, PTL DEF IInv

\* A call that fails has used all its attempts.
THEOREM RetriesCorrect == Spec => []RetriesUsed
  BY Invariance, PTL DEF IInv

-----------------------------------------------------------------------------
\* The refinement.  A step of one caller is a move of its own phase.
LEMMA OwnMove ==
  ASSUME NEW t \in Threads, NEW from, NEW to, Phase(t) \in from, Phase(t)' = to,
         \A u \in Threads \ {t} : Phase(u)' = Phase(u)
  PROVE  Promise!Move(t, from, to)
BY DEF Promise!Move

\* ... or no step at all, when no phase moves.
LEMMA NoMove ==
  ASSUME \A u \in Threads : Phase(u)' = Phase(u), UNCHANGED <<reg, call, data>>
  PROVE  UNCHANGED Promise!vars
<1>1. [u \in Threads |-> Phase(u)]' = [u \in Threads |-> Phase(u)]
  OBVIOUS
<1> QED
  BY <1>1 DEF Promise!vars

\* A call is asked for as in Line.
LEMMA BeginAsks ==
  ASSUME IInv, NEW t \in Threads, NEW c \in Calls, Begin(t, c)
  PROVE  Promise!Ask(t, c)
<1> USE DEF Begin, Put, line, IInv, Basis, TypeOK, Phase
<1>1. Phase(t) \in Promise!Returned
  BY DEF Promise!Returned
<1>2. Phase(t)' = "asked"
  BY DEF Calls, Reading
<1>3. \A u \in Threads \ {t} : Phase(u)' = Phase(u)
  OBVIOUS
<1>4. Promise!Move(t, Promise!Returned, "asked")
  BY <1>1, <1>2, <1>3, OwnMove
<1> QED
  BY <1>4 DEF Promise!Ask

\* Waiting for the mutex is invisible.
LEMMA EnterStutters ==
  ASSUME IInv, NEW t \in Threads, Enter(t)
  PROVE  UNCHANGED Promise!vars
<1>1. \A u \in Threads : Phase(u)' = Phase(u)
  BY DEF Enter, Put, IInv, Basis, TypeOK, Phase
<1> QED
  BY <1>1, NoMove DEF Enter

\* The first attempt a board executes is the moment of a write; the one that is
\* answered is the moment of a read.  An attempt that repeats a write changes
\* nothing, for the board still holds the value (WriteIsolated), unless the board
\* is one that changes it.
LEMMA AttemptTakes ==
  ASSUME IInv, NEW t \in Threads, Attempt(t)
  PROVE  Promise!TakeWrite(t) \/ Promise!TakeRead(t) \/ UNCHANGED Promise!vars
<1>1. /\ address = call[t].slave /\ address \in Slaves
      /\ pc[t] = "try" /\ pc' = Put(pc, t, "check") /\ call' = call
  BY DEF Attempt, IInv, Basis, OwnSlave, TypeOK
<1>2. \A u \in Threads \ {t} : Phase(u)' = Phase(u)
  BY DEF Attempt, Execute, Put, IInv, Basis, TypeOK, Phase
<1>3. CASE Execute(t) /\ call[t].what # Reading /\ data' = data
  <2>1. /\ reg' = [reg EXCEPT ![call[t].slave] = call[t].what]
        /\ Phase(t)' = "taken"
    BY <1>1, <1>3 DEF Execute, Put, IInv, Basis, TypeOK, Phase
  <2>2. CASE done[t] /\ call[t].slave \notin Active
    <3>1. Phase(t) = "taken" /\ reg[call[t].slave] = call[t].what
      BY <1>1, <1>3, <2>2 DEF IInv, Basis, WriteIsolated, Phase
    <3>2. reg' = reg
      BY <1>1, <2>1, <3>1 DEF IInv, Basis, TypeOK
    <3> QED
      BY <1>1, <1>2, <1>3, <2>1, <3>1, <3>2, NoMove
  <2>3. CASE ~done[t] \/ call[t].slave \in Active
    <3>1. Phase(t) \in IF call[t].slave \in Active THEN {"asked", "taken"} ELSE {"asked"}
      BY <1>1, <1>3, <2>3 DEF Phase
    <3>2. Promise!Move(t, IF call[t].slave \in Active THEN {"asked", "taken"} ELSE {"asked"},
                       "taken")
      BY <1>2, <2>1, <3>1, OwnMove
    <3> QED
      BY <1>1, <1>3, <2>1, <3>2 DEF Promise!TakeWrite, Promise!Reading, Reading
  <2> QED
    BY <2>2, <2>3
<1>4. CASE /\ call[t].what = Reading /\ reg' = reg /\ count' = Put(count, t, 1)
           /\ data' = Put(data, t, reg[address])
  <2>1. Phase(t) = "asked" /\ Phase(t)' = "taken"
    BY <1>1, <1>4 DEF Put, IInv, Basis, TypeOK, Phase
  <2>2. Promise!Move(t, {"asked"}, "taken")
    BY <1>2, <2>1, OwnMove
  <2> QED
    BY <1>1, <1>4, <2>2 DEF Promise!TakeRead, Promise!Reading, Reading, Put
<1>5. CASE /\ call[t].what = Reading /\ reg' = reg /\ count' = Put(count, t, -1)
           /\ data' = data
  <2>1. Phase(t)' = Phase(t)
    BY <1>1, <1>5 DEF Put, IInv, Basis, TypeOK, Phase
  <2> QED
    BY <1>1, <1>2, <1>5, <2>1, NoMove
<1>6. CASE call[t].what # Reading /\ UNCHANGED <<reg, done, data>>
  <2>1. Phase(t)' = Phase(t)
    BY <1>1, <1>6 DEF Put, IInv, Basis, TypeOK, Phase
  <2> QED
    BY <1>1, <1>2, <1>6, <2>1, NoMove
<1> QED
  BY <1>3, <1>4, <1>5, <1>6 DEF Attempt, Execute

\* Between two attempts nothing happens; after the last one the call returns.
LEMMA CheckReturns ==
  ASSUME IInv, NEW t \in Threads, Check(t)
  PROVE  Promise!Succeed(t) \/ Promise!Fail(t) \/ UNCHANGED Promise!vars
<1>1. pc[t] = "check" /\ UNCHANGED <<reg, call, count, data, done>>
  BY DEF Check, line
<1>2. \A u \in Threads \ {t} : Phase(u)' = Phase(u)
  BY DEF Check, Retry, Put, line, IInv, Basis, TypeOK, Phase
<1>3. CASE pc' = Put(pc, t, "idle") /\ count[t] = 1
  <2>1. Phase(t) = "taken" /\ Phase(t)' = "ok"
    BY <1>1, <1>3 DEF Put, IInv, Basis, TypeOK, SuccessIsReal, Phase
  <2> QED
    BY <1>1, <1>2, <2>1, OwnMove DEF Promise!Succeed
<1>4. CASE pc' = Put(pc, t, "idle") /\ count[t] # 1
  <2>1. Phase(t) \in IF call[t].what = Reading THEN {"asked"} ELSE {"asked", "taken"}
    BY <1>1, <1>4 DEF Phase
  <2>2. Phase(t)' = "failed"
    BY <1>1, <1>4 DEF Put, IInv, Basis, TypeOK, Phase
  <2>3. Promise!Move(t, IF call[t].what = Reading THEN {"asked"} ELSE {"asked", "taken"},
                     "failed")
    BY <1>2, <2>1, <2>2, OwnMove
  <2> QED
    BY <1>1, <2>3 DEF Promise!Fail, Promise!Reading, Reading
<1>5. CASE pc' = Put(pc, t, "try") /\ count[t] # 1
  <2>1. Phase(t)' = Phase(t)
    BY <1>1, <1>5 DEF Put, IInv, Basis, TypeOK, Phase
  <2> QED
    BY <1>1, <1>2, <2>1, NoMove
<1> QED
  BY <1>3, <1>4, <1>5 DEF Check, Retry

\* Nobody's call notices that a board acts.
LEMMA BoardActsAsWell ==
  ASSUME NEW s \in Active, BoardActs(s)
  PROVE  Promise!BoardActs(s)
<1>1. [u \in Threads |-> Phase(u)]' = [u \in Threads |-> Phase(u)]
  BY DEF BoardActs, locals, Phase
<1> QED
  BY <1>1 DEF BoardActs, locals, Promise!BoardActs

\* The initial states are initial states of Line.
LEMMA InitAsLine == Init => Promise!Init
BY DEF Init, Phase, Promise!Init, Promise!Calls, Promise!Reading, Calls, Reading

\* Every step is a step of Line or invisible in it.
LEMMA StepAsLine == IInv /\ [Next]_vars => [Promise!Next]_(Promise!vars)
<1> SUFFICES ASSUME IInv, [Next]_vars PROVE [Promise!Next]_(Promise!vars)
  OBVIOUS
<1>1. Calls = Promise!Calls
  BY DEF Calls, Reading, Promise!Calls, Promise!Reading
<1>2. CASE UNCHANGED vars
  BY <1>2, NoMove DEF vars, line, locals, Phase
<1>3. ASSUME NEW t \in Threads, NEW c \in Calls, Begin(t, c) PROVE Promise!Next
  BY <1>1, <1>3, BeginAsks DEF Promise!Next
<1>4. ASSUME NEW t \in Threads, Work(t) PROVE [Promise!Next]_(Promise!vars)
  BY <1>4, EnterStutters, AttemptTakes, CheckReturns DEF Work, Promise!Next
<1>5. ASSUME NEW s \in Active, BoardActs(s) PROVE Promise!Next
  BY <1>5, BoardActsAsWell DEF Promise!Next
<1> QED
  BY <1>2, <1>3, <1>4, <1>5 DEF Next

\* Modbus, with its mutex, its shared context and its attempts, implements the
\* atomic calls of Line.
THEOREM Atomicity == Spec => ImplementsLine
<1>1. Spec => Promise!Init /\ [][Promise!Next]_(Promise!vars)
  BY InitAsLine, StepAsLine, Invariance, PTL DEF Spec
<1> QED
  BY <1>1 DEF ImplementsLine, Promise!Spec

-----------------------------------------------------------------------------
\* The steps a call has left at most: two for each attempt, one for the lock.
StepsLeft(t) ==
  CASE pc[t] = "idle"  -> 0
    [] pc[t] = "lock"  -> 2 * RetryCount + 1
    [] pc[t] = "try"   -> 2 * retries[t]
    [] pc[t] = "check" -> 2 * retries[t] - 1

\* A caller that waits for the mutex has all its attempts before it.
LEMMA RankType ==
  ASSUME IInv, NEW t \in Threads
  PROVE  StepsLeft(t) \in 0..(2 * RetryCount + 1) /\ (StepsLeft(t) = 0 <=> pc[t] = "idle")
BY ModbusAssumption DEF IInv, Basis, TypeOK, Budget, StepsLeft

\* Each step of a call is one of the steps it had left.
LEMMA StepCounts ==
  ASSUME IInv, NEW t \in Threads, Work(t)
  PROVE  StepsLeft(t)' < StepsLeft(t)
<1>1. RetryCount \in Nat \ {0} /\ retries[t] \in 0..RetryCount /\ (pc[t] # "idle" => retries[t] > 0)
  BY ModbusAssumption DEF IInv, Basis, TypeOK, Budget
<1>2. CASE Enter(t)
  <2>1. pc[t] = "lock" /\ pc'[t] = "try" /\ retries'[t] = retries[t]
    BY <1>2 DEF Enter, Put, IInv, Basis, TypeOK
  <2> QED
    BY <1>1, <2>1 DEF StepsLeft
<1>3. CASE Attempt(t)
  <2>1. pc[t] = "try" /\ pc'[t] = "check" /\ retries'[t] = retries[t]
    BY <1>3 DEF Attempt, Put, IInv, Basis, TypeOK
  <2> QED
    BY <1>1, <2>1 DEF StepsLeft
<1>4. CASE Check(t)
  <2>1. pc[t] = "check" /\ (pc'[t] = "idle" \/ (pc'[t] = "try" /\ retries'[t] = retries[t] - 1))
    BY <1>4 DEF Check, Retry, Counted, Put, IInv, Basis, TypeOK
  <2> QED
    BY <1>1, <2>1 DEF StepsLeft
<1> QED
  BY <1>2, <1>3, <1>4 DEF Work

\* No step of another caller changes what a call has left.
LEMMA OthersKeep ==
  ASSUME IInv, NEW t \in Threads, NEW u \in Threads \ {t},
         Work(u) \/ \E c \in Calls : Begin(u, c)
  PROVE  StepsLeft(t)' = StepsLeft(t)
<1>1. pc'[t] = pc[t] /\ retries'[t] = retries[t]
  BY DEF Work, Enter, Attempt, Check, Retry, Begin, Put, IInv, Basis, TypeOK
<1> QED
  BY <1>1 DEF StepsLeft

\* While a call is under way, each of its steps brings its return nearer and no
\* step of anybody else puts it off.
Approach(t) ==
  pc[t] # "idle" => /\ StepsLeft(t)' \in 0..StepsLeft(t)
                    /\ Work(t) => StepsLeft(t)' < StepsLeft(t)

\* A call is over after 2 * RetryCount + 1 steps of its own, RetryCount attempts
\* among them, whatever the board answers and whatever other callers do: what
\* CallsReturn needs of the code beyond fairness.
THEOREM CallsAreBounded == Spec => [][\A t \in Threads : Approach(t)]_vars
<1>1. ASSUME IInv, IInv', Next, NEW t \in Threads PROVE Approach(t)
  <2>1. StepsLeft(t) \in Nat /\ StepsLeft(t)' \in Nat
    <3>1. StepsLeft(t)' \in 0..(2 * RetryCount + 1)
      BY <1>1, ModbusAssumption DEF IInv, Basis, TypeOK, Budget, StepsLeft
    <3> QED
      BY <1>1, <3>1, RankType, ModbusAssumption
  <2>2. ASSUME NEW u \in Threads \ {t}, Work(u) \/ \E c \in Calls : Begin(u, c)
        PROVE  Approach(t)
    BY <1>1, <2>1, <2>2, OthersKeep, StepCounts DEF Approach
  <2>3. CASE Work(t) \/ \E c \in Calls : Begin(t, c)
    <3>1. Work(t) \/ pc[t] = "idle"
      BY <2>3 DEF Begin
    <3> QED
      BY <1>1, <2>1, <3>1, StepCounts DEF Approach
  <2>4. ASSUME NEW s \in Active, BoardActs(s) PROVE Approach(t)
    <3>1. StepsLeft(t)' = StepsLeft(t)
      BY <2>4 DEF BoardActs, locals, StepsLeft
    <3> QED
      BY <1>1, <2>1, <3>1, StepCounts DEF Approach
  <2> QED
    BY <1>1, <2>2, <2>3, <2>4 DEF Next
<1>2. IInv /\ IInv' /\ [Next]_vars => [\A t \in Threads : Approach(t)]_vars
  BY <1>1
<1> QED
  BY <1>2, Invariance, PTL DEF Spec
=============================================================================
