---------------------------- MODULE Mpg123Player ----------------------------
(***************************************************************************)
(* class Mpg123Player of questomatic/main.cpp: players that start mpg123   *)
(* as a child process and know it only by its pid.  SIGCHLD is ignored     *)
(* (SA_NOCLDWAIT, main()), so a child that ends leaves no zombie and the   *)
(* kernel may give its pid to any process at once, also to a child of      *)
(* another player.                                                         *)
(*                                                                         *)
(* All players are used under _currentPuzzleLock (their callers are the    *)
(* callbacks of puzzles), one call at a time; the children and the other   *)
(* processes of the box come and go between any two steps.                 *)
(***************************************************************************)
EXTENDS Integers

CONSTANTS
  Players,  \* backgroundPlayer, oneShotPlayer
  Pids,     \* the process ids in use, positive
  Stranger, \* owner of a process that no player has started
  Nobody    \* no owner: the pid is free; also: no player is in play()

ASSUME PlayerAssumption ==
  /\ Pids \subseteq Nat \ {0}
  /\ Stranger \notin Players /\ Nobody \notin Players \cup {Stranger}

VARIABLES
  pid,      \* _pid of each player, 0 for none, -1 after a run_cmd() that failed
  owner,    \* who has started the process with each pid
  starting, \* the player between the stop() and the run_cmd() of play()
  failed    \* history: the players whose last run_cmd() failed

vars == <<pid, owner, starting, failed>>

Children(p) == {i \in Pids : owner[i] = p}
Exists(i) == i \in Pids /\ owner[i] # Nobody

-----------------------------------------------------------------------------
(***************************************************************************)
(* kill(_pid, SIGKILL), which takes -1 for every process there is.  When   *)
(* it fails, because there is no such process, _pid is kept.               *)
(***************************************************************************)
Failed == -1

NoPid == 0

Victims(p) == {i \in Pids : Exists(i) /\ pid[p] \in {i, Failed}}

Kill(p) ==
  IF Victims(p) # {}
    THEN /\ owner' = [i \in Pids |-> IF i \in Victims(p) THEN Nobody ELSE owner[i]]
         /\ pid' = [pid EXCEPT ![p] = NoPid]
    ELSE UNCHANGED <<pid, owner>>

\* stop(), called by the script or by the destructor.
Stop(p) ==
  /\ starting = Nobody
  /\ Kill(p)
  /\ UNCHANGED <<starting, failed>>

\* play() begins with stop() ...
Play(p) ==
  /\ starting = Nobody
  /\ Kill(p)
  /\ starting' = p
  /\ UNCHANGED failed

ForgetPid(p, i) == pid

RememberPid(p, i) == [pid EXCEPT ![p] = i]

\* ... and goes on with run_cmd(), whose result it does not look at.
Spawn(p) ==
  /\ starting = p
  /\ \/ \E i \in Pids :
          /\ owner[i] = Nobody
          /\ owner' = [owner EXCEPT ![i] = p]
          /\ pid' = RememberPid(p, i)
          /\ failed' = failed \ {p}
     \/ /\ pid' = RememberPid(p, Failed)
        /\ failed' = failed \cup {p}
        /\ UNCHANGED owner
  /\ starting' = Nobody

\* isPlaying(): /proc/<_pid>/cmdline can be opened.
IsPlaying(p) == Exists(pid[p])

\* The title ends, or a process of somebody else.
ProcessEnds(i) ==
  /\ owner[i] # Nobody
  /\ owner' = [owner EXCEPT ![i] = Nobody]
  /\ UNCHANGED <<pid, starting, failed>>

StrangerStarts(i) ==
  /\ owner[i] = Nobody
  /\ owner' = [owner EXCEPT ![i] = Stranger]
  /\ UNCHANGED <<pid, starting, failed>>

Init ==
  /\ pid = [p \in Players |-> 0]
  /\ owner \in [Pids -> {Stranger, Nobody}]
  /\ starting = Nobody
  /\ failed = {}

Next ==
  \/ \E p \in Players : Stop(p) \/ Play(p) \/ Spawn(p)
  \/ \E i \in Pids : ProcessEnds(i) \/ StrangerStarts(i)

Spec == Init /\ [][Next]_vars

-----------------------------------------------------------------------------
\* Type invariant; -1 is never the pid of a player whose last title was started.
TypeOK ==
  /\ pid \in [Players -> Pids \cup {0, Failed}]
  /\ owner \in [Pids -> Players \cup {Stranger, Nobody}]
  /\ starting \in Players \cup {Nobody} /\ failed \subseteq Players
  /\ \A p \in Players : pid[p] = Failed => p \in failed

\* A player never loses a child: whatever it plays is the process its _pid
\* names, so that the next play() or stop() silences it, although a stop() that
\* fails keeps an old pid, pids are reused, and run_cmd() may fail.
NoOrphan == \A p \in Players : Children(p) \subseteq {pid[p]}

\* play() and stop() end one process at the most, whatever has become of the pid
\* they kill; a player whose last run_cmd() has failed may end them all.
KillsOne ==
  [][\A p \in Players \ failed :
       Stop(p) \/ Play(p) =>
         \A i, j \in Pids : owner'[i] # owner[i] /\ owner'[j] # owner[j] => i = j]_vars

\* stop(), and play() before it starts the next title, leave the player silent.
StopSilences == [][\A p \in Players : Stop(p) \/ Play(p) => Children(p)' = {}]_vars

\* isPlaying() never denies a title that is still being played.
PlayingIsSeen == \A p \in Players : Children(p) # {} => IsPlaying(p)
=============================================================================
