-------------------------------- MODULE Line --------------------------------
(***************************************************************************)
(* What class Modbus amounts to for the script that calls it: there is no  *)
(* mutex, no shared address and there are no attempts.  A call is taken by *)
(* the board it names at one moment between its beginning and its return,  *)
(* or not at all.  A call that succeeds has been taken.  A read that fails *)
(* has left its `dest' alone; a write that fails may have been taken, but  *)
(* no later than it returns.  Only a board that changes its register       *)
(* itself may notice that a write has been sent more than once.            *)
(***************************************************************************)
CONSTANTS
  Threads,  \* the callers
  Slaves,   \* the boards
  Active,   \* the boards that change their register themselves
  Values,   \* what a register can hold
  Garbage   \* what an uninitialized variable holds

VARIABLES
  reg,    \* the register of each board
  call,   \* what each caller has called: the board, and the value or "read"
  phase,  \* "asked", then perhaps "taken", then what was returned
  data    \* the caller's `dest'

vars == <<reg, call, phase, data>>

Reading == "read"
Calls == [slave : Slaves, what : Values \cup {Reading}]
Returned == {"ok", "failed"}

Move(t, from, to) ==
  /\ phase[t] \in from
  /\ phase' = [phase EXCEPT ![t] = to]

Ask(t, c) ==
  /\ Move(t, Returned, "asked")
  /\ call' = [call EXCEPT ![t] = c]
  /\ data' = [data EXCEPT ![t] = Garbage]
  /\ UNCHANGED reg

TakeWrite(t) ==
  /\ call[t].what # Reading
  /\ Move(t, IF call[t].slave \in Active THEN {"asked", "taken"} ELSE {"asked"}, "taken")
  /\ reg' = [reg EXCEPT ![call[t].slave] = call[t].what]
  /\ UNCHANGED <<call, data>>

TakeRead(t) ==
  /\ call[t].what = Reading
  /\ Move(t, {"asked"}, "taken")
  /\ data' = [data EXCEPT ![t] = reg[call[t].slave]]
  /\ UNCHANGED <<reg, call>>

Succeed(t) ==
  /\ Move(t, {"taken"}, "ok")
  /\ UNCHANGED <<reg, call, data>>

Fail(t) ==
  /\ Move(t, IF call[t].what = Reading THEN {"asked"} ELSE {"asked", "taken"}, "failed")
  /\ UNCHANGED <<reg, call, data>>

BoardActs(s) ==
  /\ \E v \in Values : reg' = [reg EXCEPT ![s] = v]
  /\ UNCHANGED <<call, phase, data>>

Init ==
  /\ reg \in [Slaves -> Values]
  /\ call \in [Threads -> Calls]
  /\ phase = [t \in Threads |-> "failed"]
  /\ data = [t \in Threads |-> Garbage]

Next ==
  \/ \E t \in Threads :
       \/ \E c \in Calls : Ask(t, c)
       \/ TakeWrite(t) \/ TakeRead(t) \/ Succeed(t) \/ Fail(t)
  \/ \E s \in Active : BoardActs(s)

Spec == Init /\ [][Next]_vars
=============================================================================
