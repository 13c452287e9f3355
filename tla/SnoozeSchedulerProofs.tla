------------------------- MODULE SnoozeSchedulerProofs -------------------------
(***************************************************************************)
(* Theorems about SnoozeScheduler: for any number of ids and timer threads *)
(* and any order of arms, cancels and fires, its table holds only timers   *)
(* that will still fire for their id.  The lemmas are stated of the steps  *)
(* the manager's threads are built from.                                   *)
(***************************************************************************)
EXTENDS SnoozeScheduler, TLAPS

Sound == SchedulerTypeOK /\ ListedTimersFire

\* Two ids never share a timer, for a timer has one id.
LEMMA CancelSound ==
  ASSUME Sound, NEW S \in SUBSET Ids, Cancel(S), now' = now
  PROVE  Sound'
  <1> USE SchedulerAssumption DEF Sound, ListedTimersFire
  <1>1. SchedulerTypeOK'
    BY DEF SchedulerTypeOK, Cancel, Without, NoTimer, Timer, Phases
  <1>2. ASSUME NEW n \in Ids, table'[n] # None
        PROVE  timer'[table'[n]].id = n /\ timer'[table'[n]].phase \in {"waiting", "committed"}
    <2>1. n \notin S /\ table'[n] = table[n] /\ table[n] \in Timers
      BY <1>2 DEF Cancel, SchedulerTypeOK
    <2>2. \A m \in S : table[m] # table[n]
      BY <1>2, <2>1
    <2> QED  BY <1>2, <2>1, <2>2 DEF Cancel, Without
  <1> QED  BY <1>1, <1>2

\* The timer that arm takes is kept under no other id.
LEMMA ArmSound ==
  ASSUME Sound, NEW n \in Ids, NEW due \in Nat, Arm(n, due), now' = now
  PROVE  Sound'
  <1> USE SchedulerAssumption DEF Sound, ListedTimersFire
  <1> DEFINE t == CHOOSE u \in Free({n}) : TRUE
  <1>1. t \in Timers /\ Without({n})[t].phase = "free"
    BY DEF Arm, Free
  <1>2. /\ table' = [table EXCEPT ![n] = t]
        /\ timer' = [Without({n}) EXCEPT ![t] = [id |-> n, due |-> due, phase |-> "waiting"]]
    BY DEF Arm
  <1> HIDE DEF t
  <1>3. SchedulerTypeOK'
    <2>1. Without({n}) \in [Timers -> Timer]
      BY DEF SchedulerTypeOK, Without, NoTimer, Timer, Phases
    <2> QED  BY <1>1, <1>2, <2>1 DEF SchedulerTypeOK, Timer, Phases
  <1>4. ASSUME NEW m \in Ids, table'[m] # None
        PROVE  timer'[table'[m]].id = m /\ timer'[table'[m]].phase \in {"waiting", "committed"}
    <2>1. CASE m = n
      BY <1>1, <1>2, <2>1 DEF SchedulerTypeOK, Without
    <2>2. CASE m # n
      <3>1. table'[m] = table[m] /\ table[m] \in Timers
        BY <1>2, <1>4, <2>2 DEF SchedulerTypeOK
      <3>2. table[m] # table[n]
        BY <1>4, <2>2, <3>1
      <3>3. Without({n})[table[m]] = timer[table[m]]
        BY <3>1, <3>2 DEF Without
      <3>4. table[m] # t
        BY <1>1, <1>4, <3>1, <3>3
      <3> QED  BY <1>2, <1>4, <3>1, <3>3, <3>4 DEF Without
    <2> QED  BY <2>1, <2>2
  <1> QED  BY <1>3, <1>4

LEMMA CommitSound ==
  ASSUME Sound, NEW t \in Timers, Commit(t)  PROVE Sound'
  BY SchedulerAssumption DEF Sound, ListedTimersFire, SchedulerTypeOK, Commit, Timer, Phases

\* What _fire takes out of the table may be a timer that replaced it; either
\* way nothing listed is left that has fired.
LEMMA FireSound ==
  ASSUME Sound, NEW t \in Timers, Fire(t)  PROVE Sound'
  <1> USE SchedulerAssumption DEF Sound, ListedTimersFire
  <1>1. SchedulerTypeOK'
    <2>1. table' \in [Ids -> Timers \cup {None}]
      BY DEF SchedulerTypeOK, Fire
    <2>2. timer' \in [Timers -> Timer]
      BY DEF SchedulerTypeOK, Fire, Timer, Phases
    <2> QED  BY <2>1, <2>2 DEF SchedulerTypeOK, Fire
  <1>2. ASSUME NEW n \in Ids, table'[n] # None
        PROVE  timer'[table'[n]].id = n /\ timer'[table'[n]].phase \in {"waiting", "committed"}
    <2>1. n # timer[t].id /\ table'[n] = table[n] /\ table[n] \in Timers
      BY <1>2 DEF Fire, SchedulerTypeOK
    <2>2. table[n] # t
      BY <1>2, <2>1
    <2> QED  BY <1>2, <2>1, <2>2 DEF Fire, SchedulerTypeOK
  <1> QED  BY <1>1, <1>2

LEMMA FinishSound ==
  ASSUME Sound, NEW t \in Timers, Finish(t)  PROVE Sound'
  BY SchedulerAssumption
  DEF Sound, ListedTimersFire, SchedulerTypeOK, Finish, NoTimer, Timer, Phases

(***************************************************************************)
(* The scheduler's table never lies (scheduler.py:61): whatever races with *)
(* whatever, every timer in it is one that cancel still reaches, or one    *)
(* about to enter _fire, for the id it is kept under.                      *)
(***************************************************************************)
THEOREM TableHoldsLiveTimers == SchedulerSpec => [](SchedulerTypeOK /\ ListedTimersFire)
  <1>1. SchedulerInit => Sound
    BY SchedulerAssumption
    DEF SchedulerInit, Sound, SchedulerTypeOK, ListedTimersFire, NoTimer, Timer, Phases
  <1>2. Sound /\ [SchedulerNext]_schedulerVars => Sound'
    <2> SUFFICES ASSUME Sound, [SchedulerNext]_schedulerVars  PROVE Sound'
      OBVIOUS
    <2>1. CASE Advance
      BY <2>1 DEF Advance, Sound, SchedulerTypeOK, ListedTimersFire
    <2>2. ASSUME NEW n \in Ids, NEW due \in Dues, Arm(n, due), now' = now  PROVE Sound'
      BY <2>2, ArmSound, SchedulerAssumption
    <2>3. ASSUME NEW S \in SUBSET Ids, Cancel(S), now' = now  PROVE Sound'
      BY <2>3, CancelSound
    <2>4. ASSUME NEW t \in Timers, Commit(t) \/ Fire(t) \/ Finish(t)  PROVE Sound'
      BY <2>4, CommitSound, FireSound, FinishSound
    <2>5. CASE UNCHANGED schedulerVars
      BY <2>5 DEF schedulerVars, Sound, SchedulerTypeOK, ListedTimersFire
    <2> QED  BY <2>1, <2>2, <2>3, <2>4, <2>5 DEF SchedulerNext
  <1> QED  BY <1>1, <1>2, PTL DEF SchedulerSpec, Sound
================================================================================
