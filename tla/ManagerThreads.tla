---------------------------- MODULE ManagerThreads ----------------------------
(***************************************************************************)
(* The threads that enter NotificationManager at the same time: workers of *)
(* the bus that handle requests, the plugin thread that ticks, and timer   *)
(* threads that wake snoozed notifications.  They share the records, which *)
(* the store hands out by reference, without a lock.  A step reads or      *)
(* writes shared state once, or a group of fields no other thread reads    *)
(* apart.                                                                  *)
(*                                                                         *)
(* All sets come from one producer and pass its policy; a dismissal is for *)
(* everyone (that of one client leaves state and timers alone); a list of  *)
(* the store is a snapshot (JsonStore has what else can happen to it).     *)
(***************************************************************************)
EXTENDS SnoozeScheduler

CONSTANTS
  Workers,     \* threads of the bus
  Objects,     \* StoredNotification objects (bounds how many are in use)
  Expiries,    \* expires_at of the notifications that are set
  Durations,   \* snooze durations
  Retention    \* retention_max_age

ASSUME ThreadsAssumption ==
  /\ "tick" \notin Workers \cup Timers /\ Workers \cap Timers = {}
  /\ None \notin Objects /\ None \notin Nat
  /\ Expiries \subseteq Nat \cup {None} /\ Durations \subseteq Nat /\ Retention \in Nat

Threads == Workers \cup {"tick"} \cup Timers

VARIABLES
  store,    \* _records: id -> object or None
  object,   \* object -> its fields
  local,    \* thread -> what it does next, and its local variables
  todo,     \* the records the tick is still to expire or to prune
  met       \* history: a request has overlapped another one or a wake-up

vars == <<now, table, timer, store, object, local, todo, met>>
shared == <<table, timer, store, object>>

NoObject ==
  [id |-> None, state |-> "NEW", renotify_at |-> None, expires_at |-> None, updated_at |-> 0]
Idle == [pc |-> "idle", id |-> None, object |-> None, due |-> 0]

Object ==
  [id          : Ids \cup {None},
   state       : {"NEW", "ACTIVE", "SNOOZED", "DISMISSED", "EXPIRED"},
   renotify_at : Nat \cup {None},
   expires_at  : Nat \cup {None},
   updated_at  : Nat]

Pcs ==
  {"idle", "upsert", "cancel", "dismiss", "snooze", "until", "read", "arm",
   "wake", "waken", "clear", "expire", "retire", "delete"}

Local == [pc : Pcs, id : Ids \cup {None}, object : Objects \cup {None}, due : Nat]

TypeOK ==
  /\ SchedulerTypeOK
  /\ store \in [Ids -> Objects \cup {None}]
  /\ object \in [Objects -> Object]
  /\ local \in [Threads -> Local]
  /\ todo \subseteq Objects
  /\ met \in BOOLEAN

Init ==
  /\ SchedulerInit
  /\ store = [n \in Ids |-> None]
  /\ object = [o \in Objects |-> NoObject]
  /\ local = [p \in Threads |-> Idle]
  /\ todo = {} /\ met = FALSE

IsLive(o) == object[o].state \in {"ACTIVE", "SNOOZED"}
Stored(n) == store[n] # None
StoredObjects == {store[n] : n \in {m \in Ids : Stored(m)}}
Stale(o) == IsLive(o) /\ object[o].expires_at # None /\ object[o].expires_at <= now

At(p, pc) == local[p].pc = pc
Goto(p, pc) == local' = [local EXCEPT ![p].pc = pc]
Return(p) == local' = [local EXCEPT ![p] = Idle]
Begin(p, pc, n, o, due) ==
  local' = [local EXCEPT ![p] = [pc |-> pc, id |-> n, object |-> o, due |-> due]]

\* An object nobody refers to any more.
Unused(o) ==
  o \notin StoredObjects \cup todo \cup {local[p].object : p \in Threads}

-------------------------------------------------------------------------------
(* Requests *)

\* set: the timer is cancelled first, the new record stored later.
SetCancel(w, n, expiry) ==
  /\ At(w, "idle")
  /\ \E o \in Objects : Unused(o)
  /\ LET o == CHOOSE o \in Objects : Unused(o) IN
       /\ object' = [object EXCEPT ![o] = [id |-> n, state |-> "NEW", renotify_at |-> None,
                                           expires_at |-> expiry, updated_at |-> now]]
       /\ Begin(w, "upsert", n, o, 0)
  /\ Cancel({n})
  /\ UNCHANGED <<now, store, todo>>

SetUpsert(w) ==
  LET o == local[w].object IN
  /\ At(w, "upsert")
  /\ object' = [object EXCEPT ![o].state = "ACTIVE"]
  /\ store' = [store EXCEPT ![local[w].id] = o]
  /\ Return(w)
  /\ UNCHANGED <<now, table, timer, todo>>

\* remove, and interact with a closing action: find the record live, then _dismiss.
RemoveCheck(w, n) ==
  /\ At(w, "idle")
  /\ Stored(n) /\ IsLive(store[n])
  /\ Begin(w, "cancel", n, None, 0)
  /\ UNCHANGED <<now, shared, todo>>

RemoveCancel(w) ==
  /\ At(w, "cancel")
  /\ Cancel({local[w].id})
  /\ Goto(w, "dismiss")
  /\ UNCHANGED <<now, store, object, todo>>

\* set_state looks the id up again; a KeyError if it was pruned meanwhile.
RemoveDismiss(w) ==
  LET n == local[w].id IN
  /\ At(w, "dismiss")
  /\ object' = IF Stored(n)
               THEN [object EXCEPT ![store[n]].state = "DISMISSED", ![store[n]].updated_at = now]
               ELSE object
  /\ Return(w)
  /\ UNCHANGED <<now, table, timer, store, todo>>

SnoozeCheck(w, n, duration) ==
  /\ At(w, "idle")
  /\ duration > 0
  /\ Stored(n) /\ IsLive(store[n])
  /\ Begin(w, "snooze", n, store[n], duration)
  /\ UNCHANGED <<now, shared, todo>>

SnoozeState(w) ==
  /\ At(w, "snooze")
  /\ object' = [object EXCEPT ![local[w].object].state = "SNOOZED"]
  /\ local' = [local EXCEPT ![w].pc = "until", ![w].due = now + @]
  /\ UNCHANGED <<now, table, timer, store, todo>>

\* renotify_at, touch and the upsert of the record snooze has in its hands.
SnoozeUntil(w) ==
  LET o == local[w].object IN
  /\ At(w, "until")
  /\ object' = [object EXCEPT ![o].renotify_at = local[w].due, ![o].updated_at = now]
  /\ store' = [store EXCEPT ![local[w].id] = o]
  /\ Goto(w, "read")
  /\ UNCHANGED <<now, table, timer, todo>>

\* _arm reads renotify_at again; None raises AttributeError, and nothing is armed.
Readable_Any(until) == TRUE

Readable(until) == until # None

SnoozeRead(w) ==
  LET until == object[local[w].object].renotify_at IN
  /\ At(w, "read")
  /\ IF ~Readable(until) THEN Return(w)
                         ELSE local' = [local EXCEPT ![w].pc = "arm", ![w].due = until]
  /\ UNCHANGED <<now, shared, todo>>

SnoozeArm(w) ==
  /\ At(w, "arm")
  /\ Arm(local[w].id, local[w].due)
  /\ Return(w)
  /\ UNCHANGED <<now, store, object, todo>>

-------------------------------------------------------------------------------
(* Timer threads: _fire, then _wake *)

TimerCommit(t) == Commit(t) /\ UNCHANGED <<store, object, local, todo>>

TimerFire(t) ==
  /\ Fire(t)
  /\ Begin(t, "wake", timer[t].id, None, 0)
  /\ UNCHANGED <<store, object, todo>>

WakeCheck(t) ==
  LET n == local[t].id IN
  /\ At(t, "wake")
  /\ \/ /\ Stored(n) /\ object[store[n]].state = "SNOOZED"
        /\ Begin(t, "waken", n, store[n], 0)
        /\ UNCHANGED <<now, table, timer>>
     \/ /\ ~(Stored(n) /\ object[store[n]].state = "SNOOZED")
        /\ Return(t) /\ Finish(t)
  /\ UNCHANGED <<store, object, todo>>

WakeState(t) ==
  /\ At(t, "waken")
  /\ object' = [object EXCEPT ![local[t].object].state = "ACTIVE"]
  /\ Goto(t, "clear")
  /\ UNCHANGED <<now, table, timer, store, todo>>

WakeClear(t) ==
  LET o == local[t].object IN
  /\ At(t, "clear")
  /\ object' = [object EXCEPT ![o].renotify_at = None, ![o].updated_at = now]
  /\ store' = [store EXCEPT ![local[t].id] = o]
  /\ Return(t) /\ Finish(t)
  /\ UNCHANGED todo

-------------------------------------------------------------------------------
(* The plugin thread *)

TickList ==
  /\ At("tick", "idle")
  /\ todo' = {o \in StoredObjects : Stale(o)}
  /\ Goto("tick", "expire")
  /\ UNCHANGED <<now, shared>>

TickCancel(o) ==
  /\ At("tick", "expire")
  /\ Cancel({object[o].id})
  /\ local' = [local EXCEPT !["tick"].pc = "retire", !["tick"].object = o]
  /\ UNCHANGED <<now, store, object, todo>>

\* By id again, whatever record is there by now.
TickExpire ==
  LET o == local["tick"].object
      r == store[object[o].id]
  IN
  /\ At("tick", "retire")
  /\ object' = [object EXCEPT ![r].state = "EXPIRED", ![r].updated_at = now]
  /\ todo' = todo \ {o}
  /\ local' = [local EXCEPT !["tick"].pc = "expire", !["tick"].object = None]
  /\ UNCHANGED <<now, table, timer, store>>

\* prune collects what is to go ...
Prunable(o) == ~IsLive(o) /\ object[o].updated_at < now - Retention

TickPrune ==
  /\ At("tick", "expire") /\ todo = {}
  /\ todo' = {o \in StoredObjects : Prunable(o)}
  /\ Goto("tick", "delete")
  /\ UNCHANGED <<now, shared>>

\* ... and deletes it by id.
TickDelete(o) ==
  /\ At("tick", "delete")
  /\ store' = [store EXCEPT ![object[o].id] = None]
  /\ todo' = todo \ {o}
  /\ UNCHANGED <<now, table, timer, object, local>>

TickDone ==
  /\ At("tick", "delete") /\ todo = {}
  /\ Return("tick")
  /\ UNCHANGED <<now, shared, todo>>

-------------------------------------------------------------------------------
Handle(w) ==
  \/ \E n \in Ids, expiry \in Expiries : SetCancel(w, n, expiry)
  \/ SetUpsert(w)
  \/ \E n \in Ids : RemoveCheck(w, n)
  \/ RemoveCancel(w) \/ RemoveDismiss(w)
  \/ \E n \in Ids, d \in Durations : SnoozeCheck(w, n, d)
  \/ SnoozeState(w) \/ SnoozeUntil(w) \/ SnoozeRead(w) \/ SnoozeArm(w)

Wake(t) ==
  TimerCommit(t) \/ TimerFire(t) \/ WakeCheck(t) \/ WakeState(t) \/ WakeClear(t)

Tick ==
  \/ TickList \/ TickExpire \/ TickPrune \/ TickDone
  \/ \E o \in todo : TickCancel(o) \/ TickDelete(o)

Busy == {w \in Workers : ~At(w, "idle")}
Waking == {t \in Timers : timer[t].phase \in {"committed", "firing"}}

Overlap == Busy # {} /\ (Waking # {} \/ Cardinality(Busy) > 1)

Step ==
  \/ Advance /\ UNCHANGED <<store, object, local, todo>>
  \/ \E w \in Workers : Handle(w)
  \/ \E t \in Timers : Wake(t)
  \/ Tick

Next == Step /\ met' = (met \/ Overlap')

Spec == Init /\ [][Next]_vars

-------------------------------------------------------------------------------
(* Properties *)

\* What an object nobody refers to still holds is no part of the state.
View ==
  <<now, table, timer, store, [o \in Objects |-> IF Unused(o) THEN NoObject ELSE object[o]],
    local, todo, met>>

Sleeps(n) == Stored(n) /\ object[store[n]].state = "SNOOZED"

\* No thread is halfway through a change to a record.
Quiet == Busy = {} /\ Waking = {} /\ ~At("tick", "retire")

(***************************************************************************)
(* As long as no request overlapped a wake-up or another request, a        *)
(* notification found asleep has a timer running for its very renotify_at, *)
(* whatever the tick did at the same time: expired it by id while it was   *)
(* replaced or snoozed again, pruned it under a request.  With an overlap  *)
(* the code can lose it: a wake-up between snooze's writes and its arm     *)
(* clears renotify_at, and a record nothing will wake is left SNOOZED.     *)
(***************************************************************************)
SleeperHasTimer ==
  ~met /\ Quiet =>
    \A n \in Ids : Sleeps(n) => \E t \in Fires(n) : timer[t].due = object[store[n]].renotify_at

(***************************************************************************)
(* Under the same condition no snoozed record is woken before the          *)
(* renotify_at it has.  A timer past cancel's reach that fires after a     *)
(* second snooze would do it.                                              *)
(***************************************************************************)
NeverEarly ==
  [][\A n \in Ids :
       /\ ~met' /\ Sleeps(n)
       /\ store'[n] = store[n] /\ object'[store[n]].state = "ACTIVE"
       => object[store[n]].renotify_at <= now]_vars

(***************************************************************************)
(* store.py:193 of prune: "Live records are never pruned"; README.md:86.   *)
(* Fails: prune deletes by id what it collected, and a set may have stored *)
(* a live record under the id of a tombstone in between.                   *)
(***************************************************************************)
PruneSparesLive ==
  [][\A n \in Ids : Stored(n) /\ store'[n] = None => ~IsLive(store[n])]_vars
===============================================================================
