------------------------------- MODULE Modbus -------------------------------
(***************************************************************************)
(* class Modbus of questomatic/modbus.cpp: the master of an RS-485 line    *)
(* with the slave boards of a quest (doors, the spiritualist's board).     *)
(* WriteRegister, WriteRegisters and ReadRegisters have the same shape:    *)
(* take _accessMutex, set the slave address in the shared context, try up  *)
(* to _defaultRetryCount times, return what the last attempt returned.     *)
(*                                                                         *)
(* libmodbus and the boards are outside src/.  An attempt either fails     *)
(* before the board has seen the request, or is executed and its answer is *)
(* lost, or is executed and answered; a failed attempt returns -1 after a  *)
(* response timeout of 500 ms.  One register per board stands for its      *)
(* registers.                                                              *)
(***************************************************************************)
EXTENDS Integers

CONSTANTS
  Threads,     \* the threads on which callbacks of the script run
  Slaves,      \* the boards
  Active,      \* the boards that change their register themselves
  Values,      \* what a register can hold
  RetryCount,  \* _defaultRetryCount
  Free,        \* nobody has _accessMutex
  Garbage      \* what an uninitialized variable holds

ASSUME ModbusAssumption ==
  /\ RetryCount \in Nat \ {0}
  /\ Active \subseteq Slaves
  /\ Free \notin Threads
  /\ Garbage \notin Values

VARIABLES
  reg,      \* the register of each board
  address,  \* the slave address in _ctx
  mutex,    \* who has _accessMutex
  pc,       \* where each thread is
  call,     \* what it has called: the board, and the value or "read"
  retries,  \* its local `retries'
  count,    \* its writeCount or readCount, and what the call returned last
  data,     \* its `dest'
  done      \* history: the board has executed an attempt of the current call

line == <<reg, address>>
locals == <<call, retries, count, data, done>>
vars == <<line, mutex, pc, locals>>

Reading == "read"
Calls == [slave : Slaves, what : Values \cup {Reading}]

Put(f, t, x) == [f EXCEPT ![t] = x]

-----------------------------------------------------------------------------
Begin(t, c) ==
  /\ pc[t] = "idle"
  /\ pc' = Put(pc, t, "lock")
  /\ call' = Put(call, t, c)
  /\ retries' = Put(retries, t, RetryCount)
  /\ data' = Put(data, t, Garbage)
  /\ done' = Put(done, t, FALSE)
  /\ UNCHANGED <<line, mutex, count>>

Unlocked == TRUE

LockFree == mutex = Free

OldAddress(t) == address

NewAddress(t) == call[t].slave

\* The lock and modbus_set_slave().
Enter(t) ==
  /\ pc[t] = "lock" /\ LockFree
  /\ mutex' = t
  /\ address' = NewAddress(t)
  /\ count' = Put(count, t, -1)
  /\ pc' = Put(pc, t, "try")
  /\ UNCHANGED <<reg, call, retries, data, done>>

\* The board at `address' executes the request of t.
Execute(t) ==
  /\ reg' = IF call[t].what = Reading THEN reg
            ELSE [reg EXCEPT ![address] = call[t].what]
  /\ done' = Put(done, t, done[t] \/ address = call[t].slave)

\* modbus_write_register(), modbus_write_registers(), modbus_read_registers().
Attempt(t) ==
  /\ pc[t] = "try"
  /\ \/ /\ Execute(t)
        /\ count' = Put(count, t, 1)
        /\ data' = IF call[t].what = Reading THEN Put(data, t, reg[address]) ELSE data
     \/ /\ Execute(t)
        /\ count' = Put(count, t, -1) /\ UNCHANGED data
     \/ /\ count' = Put(count, t, -1) /\ UNCHANGED <<reg, done, data>>
  /\ pc' = Put(pc, t, "check")
  /\ UNCHANGED <<address, mutex, call, retries>>

\* A board has done what its register asked for, and says so in it.
BoardActs(s) ==
  /\ \E v \in Values : reg' = [reg EXCEPT ![s] = v]
  /\ UNCHANGED <<address, mutex, pc, locals>>

Uncounted(r) == r

Counted(r) == r - 1

TryAtZero(r) == r >= 0

TryOnceMore(r) == r = RetryCount - 1

TryAgain(r) == r > 0

RetryUnlocked(t) == pc' = Put(pc, t, "lock") /\ mutex' = Free

Retry(t) == pc' = Put(pc, t, "try") /\ UNCHANGED mutex

\* `while(count != nb && --retries > 0)', and the return that gives the lock back.
Check(t) ==
  /\ pc[t] = "check"
  /\ retries' = IF count[t] = 1 THEN retries ELSE Put(retries, t, Counted(retries[t]))
  /\ IF count[t] # 1 /\ TryAgain(retries'[t])
       THEN Retry(t)
       ELSE pc' = Put(pc, t, "idle") /\ mutex' = Free
  /\ UNCHANGED <<line, call, count, data, done>>

Init ==
  /\ reg \in [Slaves -> Values]
  /\ address \in Slaves
  /\ mutex = Free
  /\ pc = [t \in Threads |-> "idle"]
  /\ call \in [Threads -> Calls]
  /\ retries = [t \in Threads |-> 0]
  /\ count = [t \in Threads |-> -1]
  /\ data = [t \in Threads |-> Garbage]
  /\ done = [t \in Threads |-> FALSE]

Work(t) == Enter(t) \/ Attempt(t) \/ Check(t)

Next ==
  \/ \E t \in Threads : Work(t) \/ \E c \in Calls : Begin(t, c)
  \/ \E s \in Active : BoardActs(s)

Spec == Init /\ [][Next]_vars

\* Every attempt ends, by an answer or by the response timeout, and a thread that
\* waits for the mutex is not passed over for ever.  Nobody need call.
FairSpec == Spec /\ \A t \in Threads : SF_vars(Work(t))

-----------------------------------------------------------------------------
\* Type invariant.
TypeOK ==
  /\ reg \in [Slaves -> Values] /\ address \in Slaves
  /\ mutex \in Threads \cup {Free}
  /\ pc \in [Threads -> {"idle", "lock", "try", "check"}]
  /\ call \in [Threads -> Calls]
  /\ retries \in [Threads -> 0..RetryCount]
  /\ count \in [Threads -> {-1, 1}]
  /\ data \in [Threads -> Values \cup {Garbage}]
  /\ done \in [Threads -> BOOLEAN]

\* An attempt is sent to the board its caller named, although the address is a
\* field of the context all callers share (_accessMutex).
OwnSlave ==
  \A t \in Threads : pc[t] \in {"try", "check"} => address = call[t].slave

\* A call that returns 1 has been executed by its board, and a read that returns
\* 1 has put a value of the board where its caller looks, never the
\* uninitialized variable of the ReadRegisters binding.
SuccessIsReal ==
  \A t \in Threads : pc[t] \in {"check", "idle"} /\ count[t] = 1 =>
    /\ done[t]
    /\ call[t].what = Reading => data[t] \in Values

\* While a write is under way and has been executed once, retries included, its
\* board holds the value written, unless the board itself has changed it: no other
\* caller comes in between.
WriteIsolated ==
  \A t \in Threads :
    /\ pc[t] \in {"try", "check"} /\ done[t]
    /\ call[t].what # Reading /\ call[t].slave \notin Active
    => reg[call[t].slave] = call[t].what

\* A call gives up only after RetryCount attempts.
RetriesUsed ==
  \A t \in Threads : pc[t] = "idle" /\ count[t] = -1 => retries[t] = 0

\* What a call has come to for its caller: "taken" from the moment its board has
\* written, or has read and answered.
Phase(t) ==
  IF pc[t] = "idle" THEN IF count[t] = 1 THEN "ok" ELSE "failed"
  ELSE IF IF call[t].what = Reading THEN pc[t] = "check" /\ count[t] = 1 ELSE done[t]
    THEN "taken" ELSE "asked"

Promise == INSTANCE Line WITH phase <- [t \in Threads |-> Phase(t)]

\* The three calls with their lock, their shared context and their attempts are
\* the atomic calls of Line: however often a write is sent it takes effect once
\* for the other callers, unless its board has changed the register meanwhile, and
\* never after it has returned; a read returns what its board held at a moment of
\* the call.
ImplementsLine == Promise!Spec

\* Every call returns, whether the board answers or not.
CallsReturn == \A t \in Threads : pc[t] # "idle" ~> pc[t] = "idle"
=============================================================================
