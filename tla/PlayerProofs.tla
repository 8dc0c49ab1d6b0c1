---------------------------- MODULE PlayerProofs ----------------------------
(***************************************************************************)
(* Theorems about Mpg123Player, for any number of players and pids.        *)
(* NoOrphan is inductive once it is known that a player is silent between *)
(* the stop() and the run_cmd() of play(): a title is started only by a    *)
(* silent player, and what it plays is its _pid.                           *)
(***************************************************************************)
EXTENDS Mpg123Player, TLAPS

SilentBetween == \A p \in Players : starting = p => Children(p) = {}

IInv == TypeOK /\ NoOrphan /\ SilentBetween

\* kill() silences the player whether it succeeds or not: when it fails there
\* was no process, hence no child.
LEMMA KillSilences ==
  ASSUME TypeOK, NoOrphan, NEW p \in Players, Kill(p)
  PROVE  /\ pid' \in [Players -> Pids \cup {0, Failed}] /\ pid'[p] \in {0, pid[p]}
         /\ \A q \in Players \ {p} : pid'[q] = pid[q]
         /\ owner' \in [Pids -> Players \cup {Stranger, Nobody}]
         /\ Children(p)' = {}
         /\ \A q \in Players : Children(q)' \subseteq Children(q) \cap {pid'[q]}
<1> USE PlayerAssumption DEF TypeOK, NoOrphan, Children
<1>1. Children(p) \subseteq Victims(p)
  BY DEF Victims, Exists
<1>2. CASE Victims(p) # {}
  <2>1. /\ owner' = [i \in Pids |-> IF i \in Victims(p) THEN Nobody ELSE owner[i]]
        /\ pid' = [pid EXCEPT ![p] = 0]
    BY <1>2 DEF Kill, NoPid
  <2>2. Children(p)' = {}
    BY <1>1, <2>1
  <2>3. ASSUME NEW q \in Players \ {p}
        PROVE  Children(q)' \subseteq Children(q) \cap {pid'[q]}
    BY <2>1
  <2> QED
    BY <2>1, <2>2, <2>3
<1>3. CASE Victims(p) = {}
  BY <1>1, <1>3 DEF Kill
<1> QED
  BY <1>2, <1>3

LEMMA InitIInv == Init => IInv
<1> SUFFICES ASSUME Init PROVE IInv
  OBVIOUS
<1>1. TypeOK
  BY DEF Init, TypeOK, Failed
<1>2. \A p \in Players : Children(p) = {}
  BY PlayerAssumption DEF Init, Children
<1> QED
  BY <1>1, <1>2 DEF IInv, NoOrphan, SilentBetween

LEMMA StepIInv == IInv /\ [Next]_vars => IInv'
<1> SUFFICES ASSUME IInv, [Next]_vars PROVE IInv'
  OBVIOUS
<1> USE DEF IInv
<1>1. ASSUME NEW p \in Players, Stop(p) \/ Play(p) PROVE IInv'
  <2>1. /\ Kill(p) /\ failed' = failed
        /\ starting = Nobody /\ starting' \in {Nobody, p}
    BY <1>1 DEF Stop, Play
  <2>2. NoOrphan'
    BY <2>1, KillSilences DEF NoOrphan
  <2>3. SilentBetween'
    BY <2>1, KillSilences, PlayerAssumption DEF SilentBetween
  <2>4. TypeOK'
    BY <2>1, KillSilences DEF TypeOK, Failed
  <2> QED
    BY <2>2, <2>3, <2>4
<1>2. ASSUME NEW p \in Players, Spawn(p) PROVE IInv'
  <2>1. starting = p /\ starting' = Nobody /\ Children(p) = {}
    BY <1>2 DEF Spawn, SilentBetween
  <2>2. SilentBetween'
    BY <2>1, PlayerAssumption DEF SilentBetween
  <2>3. ASSUME NEW i \in Pids, owner[i] = Nobody, owner' = [owner EXCEPT ![i] = p],
               pid' = [pid EXCEPT ![p] = i], failed' = failed \ {p}
        PROVE  TypeOK' /\ NoOrphan'
    BY <2>1, <2>3, PlayerAssumption DEF TypeOK, NoOrphan, Children, Failed
  <2>4. CASE /\ pid' = [pid EXCEPT ![p] = Failed] /\ failed' = failed \cup {p}
             /\ UNCHANGED owner
    BY <2>1, <2>2, <2>4, PlayerAssumption DEF TypeOK, NoOrphan, Children
  <2> QED
    BY <1>2, <2>2, <2>3, <2>4 DEF Spawn, RememberPid
<1>3. ASSUME NEW i \in Pids, ProcessEnds(i) \/ StrangerStarts(i) PROVE IInv'
  <2>1. PICK x \in {Nobody, Stranger} : owner' = [owner EXCEPT ![i] = x]
    BY <1>3 DEF ProcessEnds, StrangerStarts
  <2>2. UNCHANGED <<pid, starting, failed>>
    BY <1>3 DEF ProcessEnds, StrangerStarts
  <2>3. \A q \in Players : Children(q)' \subseteq Children(q)
    BY <2>1, PlayerAssumption DEF TypeOK, Children
  <2>4. NoOrphan' /\ SilentBetween'
    BY <2>2, <2>3 DEF NoOrphan, SilentBetween
  <2> QED
    BY <2>1, <2>2, <2>4, PlayerAssumption DEF TypeOK
<1>4. CASE UNCHANGED vars
  BY <1>4 DEF vars, TypeOK, NoOrphan, SilentBetween, Children
<1> QED
  BY <1>1, <1>2, <1>3, <1>4 DEF Next

LEMMA Invariance == Spec => []IInv
  BY InitIInv, StepIInv, PTL DEF Spec

\* The types: in particular the -1 that kill() takes for every process of the box
\* is never left by anything but a run_cmd() that failed, and not after the next one
\* that succeeds.
THEOREM TypeCorrect == Spec => []TypeOK
  BY Invariance, PTL DEF IInv

\* Whatever a player plays is the process its _pid names.
THEOREM OrphanCorrect == Spec => []NoOrphan
  BY Invariance, PTL DEF IInv

\* stop() and play() kill one process at the most, unless the last run_cmd() of the
\* player failed.
THEOREM KillCorrect == Spec => KillsOne
<1>1. IInv => \A p \in Players \ failed :
                Stop(p) \/ Play(p) =>
                  \A i, j \in Pids : owner'[i] # owner[i] /\ owner'[j] # owner[j] => i = j
  <2> SUFFICES ASSUME IInv, NEW p \in Players \ failed, Stop(p) \/ Play(p),
                      NEW i \in Pids, owner'[i] # owner[i]
               PROVE  i = pid[p]
    OBVIOUS
  <2>1. Kill(p) /\ pid[p] # Failed
    BY DEF Stop, Play, IInv, TypeOK
  <2>2. i \in Victims(p)
    BY <2>1 DEF Kill, IInv, TypeOK
  <2> QED
    BY <2>1, <2>2 DEF Victims
<1> QED
  BY <1>1, Invariance, PTL DEF KillsOne

\* stop(), and the stop() play() begins with, silence the player they are called for.
THEOREM SilenceCorrect == Spec => StopSilences
<1>1. IInv => \A p \in Players : Stop(p) \/ Play(p) => Children(p)' = {}
  BY KillSilences DEF IInv, Stop, Play
<1> QED
  BY <1>1, Invariance, PTL DEF StopSilences

\* isPlaying() of a player that plays is true: a title of its own is never denied.
THEOREM SeenCorrect == Spec => []PlayingIsSeen
<1>1. IInv => PlayingIsSeen
  BY PlayerAssumption
     DEF IInv, TypeOK, NoOrphan, PlayingIsSeen, Children, IsPlaying, Exists
<1> QED
  BY <1>1, Invariance, PTL
=============================================================================
