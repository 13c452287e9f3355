---------------------------- MODULE SnoozeScheduler ----------------------------
(***************************************************************************)
(* The snooze timers of scheduler.py, one threading.Timer per arm.  What   *)
(* runs under the scheduler's lock is one step; between the moment a timer *)
(* thread finds its wait over and _fire takes the lock, cancel no longer   *)
(* reaches it.  Callers decide when to arm and cancel.                     *)
(***************************************************************************)
EXTENDS Integers, FiniteSets

CONSTANTS
  Ids,      \* notification ids
  Timers,   \* timer threads (bounds how many exist at once)
  Dues,     \* instants timers are armed for
  None,
  MaxTime   \* last instant of the clock (bounds the model)

ASSUME SchedulerAssumption ==
  None \notin Ids \cup Timers /\ Dues \subseteq Nat /\ MaxTime \in Nat

VARIABLES
  now,     \* the clock
  table,   \* _timers: id -> timer or None
  timer    \* timer -> its id, the end of its wait, and how far it is

schedulerVars == <<now, table, timer>>

\* waiting for its time, past its wait and beyond cancel, running its callback.
Phases == {"free", "waiting", "committed", "firing"}

NoTimer == [id |-> None, due |-> 0, phase |-> "free"]

Timer == [id : Ids \cup {None}, due : Nat, phase : Phases]

SchedulerTypeOK ==
  /\ now \in Nat
  /\ table \in [Ids -> Timers \cup {None}]
  /\ timer \in [Timers -> Timer]

SchedulerInit ==
  /\ now = 0
  /\ table = [n \in Ids |-> None]
  /\ timer = [t \in Timers |-> NoTimer]

Advance == now < MaxTime /\ now' = now + 1 /\ UNCHANGED <<table, timer>>

\* Taken from the table and left to run: the faulty form.
Without_Running(S) == timer

\* The timer threads once those of the table under the ids S are cancelled.
Without(S) ==
  [t \in Timers |-> IF timer[t].phase = "waiting" /\ \E n \in S : table[n] = t
                    THEN NoTimer ELSE timer[t]]

\* cancel and cancel_all
Cancel(S) ==
  /\ table' = [n \in Ids |-> IF n \in S THEN None ELSE table[n]]
  /\ timer' = Without(S)

\* A timer object not in use.
Free(S) == {t \in Timers : Without(S)[t].phase = "free"}

Arm_OnlyAhead(n, due) ==
  /\ Free({n}) # {}
  /\ LET t == CHOOSE t \in Free({n}) : TRUE IN
    /\ table' = [table EXCEPT ![n] = IF due > now THEN t ELSE None]
    /\ timer' = IF due > now
                THEN [Without({n}) EXCEPT ![t] = [id |-> n, due |-> due, phase |-> "waiting"]]
                ELSE Without({n})

\* The new timer replaces the one in the table.  A due time already past is no
\* special case: the wait is over at once.
Arm(n, due) ==
  /\ Free({n}) # {}
  /\ LET t == CHOOSE t \in Free({n}) : TRUE IN
    /\ table' = [table EXCEPT ![n] = t]
    /\ timer' = [Without({n}) EXCEPT ![t] = [id |-> n, due |-> due, phase |-> "waiting"]]

\* The wait is over and the timer was not cancelled so far.
Commit(t) ==
  /\ timer[t].phase = "waiting" /\ timer[t].due <= now
  /\ timer' = [timer EXCEPT ![t].phase = "committed"]
  /\ UNCHANGED <<now, table>>

\* _fire under the lock: the table loses whatever timer it has for the id.
Fire_Kept(t) ==
  /\ timer[t].phase = "committed"
  /\ table' = table
  /\ timer' = [timer EXCEPT ![t].phase = "firing"]
  /\ now' = now

Fire(t) ==
  /\ timer[t].phase = "committed"
  /\ table' = [table EXCEPT ![timer[t].id] = None]
  /\ timer' = [timer EXCEPT ![t].phase = "firing"]
  /\ now' = now

\* The callback has returned.
Finish(t) ==
  /\ timer[t].phase = "firing"
  /\ timer' = [timer EXCEPT ![t] = NoTimer]
  /\ UNCHANGED <<now, table>>

SchedulerNext ==
  \/ Advance
  \/ \E n \in Ids, due \in Dues : Arm(n, due) /\ now' = now
  \/ \E S \in SUBSET Ids : Cancel(S) /\ now' = now
  \/ \E t \in Timers : Commit(t) \/ Fire(t) \/ Finish(t)

SchedulerSpec == SchedulerInit /\ [][SchedulerNext]_schedulerVars

-------------------------------------------------------------------------------
(* Properties *)

(***************************************************************************)
(* Whatever races with whatever, the table holds only timers that will     *)
(* still fire for the id they are kept under: none that was cancelled,     *)
(* none that has fired, none under another id.  So is_armed never lies.    *)
(***************************************************************************)
ListedTimersFire ==
  \A n \in Ids :
    table[n] # None => timer[table[n]].id = n /\ timer[table[n]].phase \in {"waiting", "committed"}

Fires(n) == {t \in Timers : timer[t].id = n /\ timer[t].phase = "waiting"}
===============================================================================
