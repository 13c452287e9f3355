----------------------------- MODULE SleeperProofs -----------------------------
(***************************************************************************)
(* Theorems about ManagerThreads, for any number of bus workers, timer     *)
(* threads, records and ids: while no request overlaps another one or a    *)
(* wake-up, no snoozed notification is left without its timer, and none    *)
(* wakes before its time.  Both rest on one invariant, Undisturbed.        *)
(***************************************************************************)
EXTENDS ManagerThreadsProofs

-------------------------------------------------------------------------------
(* The invariant *)

\* One request at a time, and not while a timer is past cancel's reach.
Apart ==
  /\ \A v, w \in Busy : v = w
  /\ Busy # {} => Waking = {}

\* The table has every timer that cancel must still reach, and no other one
\* under the id of a timer beyond it.
Listed ==
  \A t \in Timers :
    /\ timer[t].phase = "waiting" => table[timer[t].id] = t
    /\ timer[t].phase = "committed" => table[timer[t].id] \in {t, None}

\* What a set is about to store, or a wake-up to write to, is not asleep.
Awake ==
  \A p \in Clients :
    At(p, "upsert") \/ At(p, "clear") => object[local[p].object].state # "SNOOZED"

\* What snooze is about to arm is what the record in its hands says, and that
\* record is still the stored one unless it was pruned.
InHand ==
  \A w \in Workers :
    At(w, "read") \/ At(w, "arm") =>
      /\ object[local[w].object].renotify_at = local[w].due
      /\ store[local[w].id] \in {local[w].object, None}

\* A request is between the snooze's first write and its arm.
Snoozing(n) ==
  \E w \in Workers : local[w].pc \in {"until", "read", "arm"} /\ local[w].id = n

\* A request is about to replace the record, to close it, or to arm its timer.
Handled(n) ==
  \E w \in Workers :
    local[w].pc \in {"upsert", "dismiss", "until", "read", "arm"} /\ local[w].id = n

\* A timer beyond cancel's reach is about to wake the record.
Woken(n) ==
  \E t \in Timers :
    \/ timer[t].phase = "committed" /\ timer[t].id = n
    \/ At(t, "wake") /\ local[t].id = n
    \/ At(t, "waken") /\ local[t].id = n /\ local[t].object = store[n]

\* The tick is about to expire whatever is stored under the id.
Retiring(n) == At("tick", "retire") /\ object[local["tick"].object].id = n

OnTime(n) ==
  Sleeps(n) /\ ~Snoozing(n) => \A t \in Fires(n) : timer[t].due = object[store[n]].renotify_at

WillWake(n) == Sleeps(n) => Fires(n) # {} \/ Woken(n) \/ Retiring(n) \/ Handled(n)

Overdue(n) ==
  Sleeps(n) =>
    \A t \in Timers :
      timer[t].phase \in {"committed", "firing"} /\ timer[t].id = n =>
        object[store[n]].renotify_at # None /\ object[store[n]].renotify_at <= now

Undisturbed ==
  /\ Apart /\ Listed /\ Awake /\ InHand
  /\ \A n \in Ids : OnTime(n) /\ WillWake(n) /\ Overdue(n)

IInv == Basic /\ (~met => Undisturbed)

-------------------------------------------------------------------------------
(* Who is at work *)

\* The worker is the only one of the workers and the timer threads.
Alone(w) ==
  /\ \A v \in Workers : v # w => At(v, "idle")
  /\ Waking = {} /\ \A t \in Timers : At(t, "idle")

NoWorker == \A w \in Workers : At(w, "idle")

NoneWakes ==
  \A t \in Timers :
    /\ timer'[t].phase = "committed" <=> timer[t].phase = "committed"
    /\ timer'[t].phase = "firing" <=> timer[t].phase = "firing"

\* One thread moves at a time, so of two busy workers one was busy before.
LEMMA ApartFrom ==
  ASSUME Apart, NEW p \in Threads, OthersKeep(p), ~Overlap'
  PROVE  Apart'
  <1>1. (Busy # {} => Waking = {})'
    BY DEF Overlap
  <1>2. ASSUME NEW v \in Busy', NEW w \in Busy', v # w
        PROVE  FALSE
    <2>1. \A x \in Busy' : x \in Busy \/ x = p
      BY DEF Busy, At, OthersKeep, Threads
    <2>2. Busy' = {v} \cup {w}
      BY <1>2, <2>1 DEF Apart
    <2>3. Cardinality(Busy') = 2
      <3>1. IsFiniteSet({v}) /\ Cardinality({v}) = 1
        BY FS_Singleton
      <3>2. Cardinality({v} \cup {w}) = 2
        BY <1>2, <3>1, FS_AddElement
      <3> QED  BY <2>2, <3>2
    <2> QED  BY <2>3 DEF Overlap
  <1> QED  BY <1>1, <1>2 DEF Apart

\* A timer thread is at work when its timer fires.
LEMMA TimersIdle ==
  ASSUME Basic, Waking = {}
  PROVE  \A t \in Timers : At(t, "idle")
  BY DEF Basic, Roles, Waking

LEMMA WorkerAlone ==
  ASSUME Basic, Basic', Apart, NEW w \in Workers, OthersKeep(w), ~Overlap', NoneWakes,
         ~At(w, "idle") \/ ~At(w, "idle")'
  PROVE  Apart' /\ Alone(w) /\ Alone(w)'
  <1>1. Apart'
    BY ApartFrom DEF Threads
  <1>2. Waking' = Waking
    BY DEF Waking, NoneWakes
  <1>3. ASSUME NEW v \in Workers, v # w
        PROVE  At(v, "idle") /\ At(v, "idle")'
    <2>1. At(v, "idle")' <=> At(v, "idle")
      BY <1>3 DEF OthersKeep, Threads, At
    <2>2. At(v, "idle")
      BY <1>1, <1>3, <2>1 DEF Apart, Busy
    <2> QED  BY <2>1, <2>2
  <1>4. Waking = {} /\ Waking' = {}
    BY <1>1, <1>2 DEF Apart, Busy
  <1>5. (\A t \in Timers : At(t, "idle")) /\ (\A t \in Timers : At(t, "idle"))'
    BY <1>4, TimersIdle DEF Basic, Roles, Waking
  <1> QED  BY <1>1, <1>3, <1>4, <1>5 DEF Alone

LEMMA NoWorkerThen ==
  ASSUME Apart, NEW t \in Timers, OthersKeep(t), ~Overlap', t \in Waking \/ t \in Waking'
  PROVE  Apart' /\ NoWorker /\ NoWorker'
  <1>1. Apart'
    BY ApartFrom DEF Threads
  <1>2. \A w \in Workers : local'[w] = local[w]
    BY ThreadsAssumption DEF OthersKeep, Threads
  <1>3. Busy' = Busy
    BY <1>2 DEF Busy, At
  <1>4. Busy = {}
    BY <1>1, <1>3 DEF Apart
  <1> QED  BY <1>1, <1>3, <1>4 DEF NoWorker, Busy

-------------------------------------------------------------------------------
(* What a step leaves alone *)

\* If the record stored under n sleeps after the step, it slept before it, for
\* as long.
StillSleeps(n) ==
  Sleeps(n)' =>
    /\ Sleeps(n) /\ store'[n] = store[n]
    /\ object'[store[n]].renotify_at = object[store[n]].renotify_at

FiresKept(n) ==
  \A t \in Timers :
    /\ t \in Fires(n)' <=> t \in Fires(n)
    /\ t \in Fires(n) => timer'[t].due = timer[t].due

LEMMA CancelledFires ==
  ASSUME Basic, Listed, NEW n \in Ids, TimersBut(n)
  PROVE  /\ Listed' /\ NoneWakes
         /\ Fires(n)' = {} /\ \A m \in Ids : m # n => FiresKept(m)
  <1>1. ASSUME NEW t \in Timers
        PROVE  \/ timer'[t] = timer[t] /\ ~(timer[t].phase = "waiting" /\ timer[t].id = n)
               \/ /\ timer[t].phase = "waiting" /\ timer[t].id = n
                  /\ timer'[t].phase = "free" /\ timer'[t].id = None
    <2>1. table[n] = t => timer[t].id = n
      BY ThreadsAssumption, SchedulerAssumption DEF Basic, ListedTimersFire
    <2>2. timer[t].phase = "waiting" /\ timer[t].id = n => table[n] = t
      BY DEF Listed
    <2> QED  BY <2>1, <2>2 DEF TimersBut, NoTimer
  <1>2. \A m \in Ids : table'[m] = IF m = n THEN None ELSE table[m]
    BY DEF TimersBut
  <1>3. \A t \in Timers : timer[t].phase # "free" => timer[t].id \in Ids
    BY DEF Basic, Roles
  <1>4. Listed'
    BY <1>1, <1>2, <1>3 DEF Listed
  <1>5. NoneWakes
    BY <1>1 DEF NoneWakes
  <1>6. Fires(n)' = {}
    BY <1>1, SchedulerAssumption DEF Fires
  <1>7. ASSUME NEW m \in Ids, m # n  PROVE FiresKept(m)
    BY <1>1, <1>7, SchedulerAssumption DEF FiresKept, Fires
  <1> QED  BY <1>4, <1>5, <1>6, <1>7

LEMMA RestingFires ==
  ASSUME Basic, Listed, UNCHANGED <<table, timer>>
  PROVE  Listed' /\ NoneWakes /\ \A n \in Ids : FiresKept(n)
  BY DEF Listed, NoneWakes, FiresKept, Fires

\* A change to one object does not touch what is stored under other ids.
LEMMA ElsewhereSleeps ==
  ASSUME Basic, NEW o \in Objects, ObjectsKeep(o), NEW n \in Ids, object[o].id # n,
         store'[n] = store[n]
  PROVE  StillSleeps(n)
  BY DEF StillSleeps, Sleeps, Stored, ObjectsKeep, Basic, TypeOK, Held

LEMMA RetiringKept ==
  ASSUME Basic, NEW n \in Ids, local'["tick"] = local["tick"],
         IdsKeep \/ \E o \in Objects : Unused(o) /\ ObjectsKeep(o)
  PROVE  Retiring(n)' <=> Retiring(n)
  <1> DEFINE x == local["tick"].object
  <1>1. ASSUME At("tick", "retire")
        PROVE  x \in Objects /\ object'[x].id = object[x].id
    <2>1. x \in Objects
      BY <1>1, ThreadKinds DEF Basic, TypeOK, Local, Held
    <2>2. \A o \in Objects : Unused(o) => o # x
      BY ThreadKinds DEF Unused
    <2> QED  BY <2>1, <2>2 DEF IdsKeep, ObjectsKeep
  <1> QED  BY <1>1 DEF Retiring, At

\* A worker's step, for the ids it is not concerned with.
LEMMA WorkerElsewhere ==
  ASSUME Undisturbed, NEW w \in Workers, OthersKeep(w), Alone(w), Alone(w)', NEW n \in Ids,
         local[w].id = n => local[w].pc \notin {"upsert", "dismiss", "until", "read", "arm"},
         StillSleeps(n), FiresKept(n), Retiring(n) => Retiring(n)'
  PROVE  OnTime(n)' /\ WillWake(n)'
  <1>1. ~Snoozing(n) /\ ~Handled(n) /\ ~Woken(n)
    BY DEF Alone, At, Snoozing, Handled, Woken, Waking
  <1>2. OnTime(n) /\ WillWake(n)
    BY DEF Undisturbed
  <1>3. OnTime(n)'
    BY <1>1, <1>2 DEF OnTime, StillSleeps, FiresKept, Fires
  <1>4. WillWake(n)'
    BY <1>1, <1>2 DEF WillWake, StillSleeps, FiresKept, Fires
  <1> QED  BY <1>3, <1>4

\* A worker's step, once what it does to its own id is known.
LEMMA WorkerUndisturbed ==
  ASSUME Basic', NEW w \in Workers, Alone(w)', Apart', Listed',
         local'[w].pc = "upsert" => object'[local'[w].object].state # "SNOOZED",
         local'[w].pc \in {"read", "arm"} =>
           /\ object'[local'[w].object].renotify_at = local'[w].due
           /\ store'[local'[w].id] \in {local'[w].object, None},
         \A n \in Ids : OnTime(n)' /\ WillWake(n)'
  PROVE  Undisturbed'
  <1>1. /\ \A v \in Workers : v # w => local'[v].pc = "idle"
        /\ \A t \in Timers : local'[t].pc = "idle"
        /\ local'[w].pc # "clear"
    BY DEF Alone, At, Basic, Roles, HandlerPcs
  <1>2. Awake'
    BY <1>1 DEF At, Awake, Clients
  <1>3. InHand'
    BY <1>1 DEF At, InHand
  <1>4. \A n \in Ids : Overdue(n)'
    BY DEF Alone, Overdue, Waking
  <1> QED  BY <1>2, <1>3, <1>4 DEF Undisturbed

-------------------------------------------------------------------------------
(* Every step of a worker keeps the invariant *)

\* SetCancel and RemoveCancel: no timer is left for the id, but a request to
\* store or to close its record is under way.
LEMMA CancelUndisturbed ==
  ASSUME Basic, Basic', Undisturbed, ~Overlap', NEW w \in Workers, OthersKeep(w), NEW n \in Ids,
         TimersBut(n), UNCHANGED <<store, todo>>,
         \/ /\ At(w, "idle") /\ local'[w].pc = "upsert"
            /\ \E o \in Objects :
                 /\ Unused(o) /\ ObjectsKeep(o) /\ object'[o].state = "NEW"
                 /\ local'[w].object = o
         \/ At(w, "cancel") /\ local'[w].pc = "dismiss" /\ UNCHANGED object,
         local'[w].id = n
  PROVE  Undisturbed'
  <1>1. /\ Listed' /\ NoneWakes /\ Fires(n)' = {}
        /\ \A m \in Ids : m # n => FiresKept(m)
    BY CancelledFires DEF Undisturbed
  <1>2. ~At(w, "idle")'
    BY DEF At
  <1>3. Apart' /\ Alone(w) /\ Alone(w)'
    BY <1>1, <1>2, WorkerAlone DEF Undisturbed
  <1>4. Handled(n)'
    BY DEF Handled
  <1>5. local'["tick"] = local["tick"]
    BY ThreadsAssumption DEF OthersKeep, Threads
  <1>6. \A m \in Ids : Retiring(m)' <=> Retiring(m)
    BY <1>5, RetiringKept DEF IdsKeep
  <1>7. ASSUME NEW m \in Ids  PROVE StillSleeps(m)
    <2>1. CASE UNCHANGED object
      BY <2>1 DEF StillSleeps, Sleeps, Stored
    <2>2. ASSUME NEW o \in Objects, Unused(o), ObjectsKeep(o)  PROVE StillSleeps(m)
      <3>1. Stored(m) => store[m] # o /\ store[m] \in Objects
        BY <2>2 DEF Unused, StoredObjects, Stored, Basic, TypeOK
      <3> QED  BY <2>2, <3>1 DEF StillSleeps, Sleeps, Stored, ObjectsKeep
    <2> QED  BY <2>1, <2>2
  <1>8. ASSUME NEW m \in Ids  PROVE OnTime(m)' /\ WillWake(m)'
    <2>1. CASE m = n
      BY <1>1, <1>4, <2>1 DEF OnTime, WillWake
    <2>2. CASE m # n
      BY <1>1, <1>3, <1>6, <1>7, <2>2, WorkerElsewhere DEF At
    <2> QED  BY <2>1, <2>2
  <1> QED  BY <1>1, <1>3, <1>8, WorkerUndisturbed

LEMMA CheckUndisturbed ==
  ASSUME Basic, Basic', Undisturbed, ~Overlap', NEW w \in Workers, OthersKeep(w),
         UNCHANGED <<now, table, timer, store, object, todo>>,
         At(w, "idle"), local'[w].pc \in {"cancel", "snooze"}
  PROVE  Undisturbed'
  <1>1. Listed' /\ NoneWakes /\ \A m \in Ids : FiresKept(m)
    BY RestingFires DEF Undisturbed
  <1>2. ~At(w, "idle")'
    BY DEF At
  <1>3. Apart' /\ Alone(w) /\ Alone(w)'
    BY <1>1, <1>2, WorkerAlone DEF Undisturbed
  <1>4. local'["tick"] = local["tick"]
    BY ThreadsAssumption DEF OthersKeep, Threads
  <1>5. ASSUME NEW m \in Ids  PROVE OnTime(m)' /\ WillWake(m)'
    <2>1. StillSleeps(m) /\ (Retiring(m)' <=> Retiring(m))
      BY <1>4 DEF StillSleeps, Sleeps, Stored, Retiring, At
    <2> QED  BY <1>1, <1>3, <2>1, WorkerElsewhere DEF At
  <1> QED  BY <1>1, <1>3, <1>5, WorkerUndisturbed

\* The steps that write to one record and leave the timers alone.
LEMMA WriteUndisturbed ==
  ASSUME Basic, Basic', Undisturbed, ~Overlap', NEW w \in Workers, OthersKeep(w),
         UNCHANGED <<now, table, timer, todo>>, IdsKeep, ~At(w, "idle"),
         \A n \in Ids : n # local[w].id => StillSleeps(n),
         local'[w].pc # "upsert",
         local'[w].pc \in {"read", "arm"} =>
           /\ object'[local'[w].object].renotify_at = local'[w].due
           /\ store'[local'[w].id] \in {local'[w].object, None},
         \A n \in Ids : n = local[w].id =>
           \/ ~Sleeps(n)'
           \/ local'[w].pc \in {"until", "read", "arm"} /\ local'[w].id = n
  PROVE  Undisturbed'
  <1>1. Listed' /\ NoneWakes /\ \A m \in Ids : FiresKept(m)
    BY RestingFires DEF Undisturbed
  <1>2. Apart' /\ Alone(w) /\ Alone(w)'
    BY <1>1, WorkerAlone DEF Undisturbed
  <1>3. local'["tick"] = local["tick"]
    BY ThreadsAssumption DEF OthersKeep, Threads
  <1>4. ASSUME NEW m \in Ids  PROVE OnTime(m)' /\ WillWake(m)'
    <2>1. CASE m # local[w].id
      BY <1>1, <1>2, <1>3, <2>1, RetiringKept, WorkerElsewhere
    <2>2. CASE m = local[w].id /\ ~Sleeps(m)'
      BY <2>2 DEF OnTime, WillWake
    <2>3. CASE local'[w].pc \in {"until", "read", "arm"} /\ local'[w].id = m
      BY <2>3 DEF OnTime, WillWake, Snoozing, Handled
    <2> QED  BY <2>1, <2>2, <2>3
  <1> QED  BY <1>1, <1>2, <1>4, WorkerUndisturbed

LEMMA ArmUndisturbed ==
  ASSUME Basic, Basic', Undisturbed, ~Overlap', NEW w \in Workers, SnoozeArm(w)
  PROVE  Undisturbed'
  <1>0. PICK n \in Ids, o \in Objects, due \in Nat :
          n = local[w].id /\ o = local[w].object /\ due = local[w].due
    BY SnoozeArmStep, Hands DEF Basic, TypeOK, Clients, At, Holding
  <1>1. PICK t \in Timers :
          /\ table' = [table EXCEPT ![n] = t]
          /\ timer[t].phase = "free" \/ (timer[t].phase = "waiting" /\ table[n] = t)
          /\ timer'[t] = [id |-> n, due |-> due, phase |-> "waiting"]
          /\ \A u \in Timers : u # t =>
               IF table[n] = u /\ timer[u].phase = "waiting" THEN timer'[u] = NoTimer
                                                            ELSE timer'[u] = timer[u]
    BY <1>0, SnoozeArmStep DEF Basic, TypeOK
  <1>2. /\ UNCHANGED <<now, store, object, todo>> /\ OthersKeep(w)
        /\ At(w, "arm") /\ local'[w].pc = "idle"
    BY SnoozeArmStep DEF Basic, TypeOK
  <1>3. /\ object[o].renotify_at = due /\ store[n] \in {o, None} /\ ~At(w, "idle")
    BY <1>0, <1>2 DEF Undisturbed, InHand, At
  <1>4. /\ timer'[t].phase = "waiting" /\ timer'[t].id = n /\ timer'[t].due = due
        /\ timer[t].phase = "waiting" => timer[t].id = n
        /\ timer[t].phase \in {"free", "waiting"} /\ n # None
    BY <1>1, <1>2, SchedulerAssumption DEF Basic, ListedTimersFire
  <1>5. ASSUME NEW u \in Timers, u # t
        PROVE  \/ timer'[u] = timer[u] /\ ~(timer[u].phase = "waiting" /\ timer[u].id = n)
               \/ /\ timer[u].phase = "waiting" /\ timer[u].id = n
                  /\ timer'[u].phase = "free" /\ timer'[u].id = None
    <2>1. table[n] = u => timer[u].id = n
      BY <1>2, SchedulerAssumption DEF Basic, ListedTimersFire
    <2>2. timer[u].phase = "waiting" /\ timer[u].id = n => table[n] = u
      BY DEF Undisturbed, Listed
    <2>3. IF table[n] = u /\ timer[u].phase = "waiting" THEN timer'[u] = NoTimer
                                                        ELSE timer'[u] = timer[u]
      BY <1>1, <1>5
    <2> QED  BY <2>1, <2>2, <2>3 DEF NoTimer
  <1>6. NoneWakes
    BY <1>4, <1>5 DEF NoneWakes
  <1>7. Apart' /\ Alone(w) /\ Alone(w)'
    BY <1>2, <1>3, <1>6, WorkerAlone DEF Undisturbed
  <1>8. Listed'
    <2>1. table'[n] = t /\ \A m \in Ids : m # n => table'[m] = table[m]
      BY <1>1, <1>2 DEF Basic, TypeOK, SchedulerTypeOK
    <2>2. ASSUME NEW u \in Timers, u # t
          PROVE  /\ timer'[u].phase = "waiting" => table'[timer'[u].id] = u
                 /\ timer'[u].phase # "committed"
      <3>1. timer[u].phase = "waiting" => table[timer[u].id] = u /\ timer[u].id \in Ids
        BY DEF Undisturbed, Listed, Basic, Roles
      <3>2. timer[u].phase # "committed"
        BY <1>7 DEF Alone, Waking
      <3> QED  BY <1>5, <2>1, <2>2, <3>1, <3>2
    <2> QED  BY <1>4, <2>1, <2>2 DEF Listed
  <1>9. ASSUME NEW m \in Ids  PROVE OnTime(m)' /\ WillWake(m)'
    <2>1. CASE m = n
      <3>1. \A u \in Timers : u \in Fires(n)' <=> u = t
        BY <1>4, <1>5 DEF Fires
      <3>2. Sleeps(n)' => object'[store'[n]].renotify_at = due
        BY <1>2, <1>3 DEF Sleeps, Stored
      <3>3. OnTime(n)'
        BY <1>4, <3>1, <3>2 DEF OnTime, Fires
      <3> QED  BY <2>1, <3>1, <3>3 DEF WillWake
    <2>2. CASE m # n
      <3>1. FiresKept(m)
        BY <1>4, <1>5, <2>2, SchedulerAssumption DEF FiresKept, Fires
      <3>2. local'["tick"] = local["tick"] /\ IdsKeep
        BY <1>2, ThreadsAssumption DEF OthersKeep, Threads, IdsKeep
      <3>3. StillSleeps(m) /\ (Retiring(m)' <=> Retiring(m))
        BY <1>2, <3>2, RetiringKept DEF StillSleeps, Sleeps, Stored
      <3> QED  BY <1>0, <1>2, <1>7, <2>2, <3>1, <3>3, WorkerElsewhere DEF At
    <2> QED  BY <2>1, <2>2
  <1> QED  BY <1>2, <1>7, <1>8, <1>9, WorkerUndisturbed

LEMMA HandleUndisturbed ==
  ASSUME Basic, met' \in BOOLEAN, Undisturbed, ~Overlap', NEW w \in Workers, Handle(w)
  PROVE  Undisturbed'
  <1>0. PICK n, o, due : n = local[w].id /\ o = local[w].object /\ due = local[w].due
    OBVIOUS
  <1>1. CASE SetUpsert(w)
    <2>1. /\ Basic'
          /\ UNCHANGED <<now, table, timer, todo>> /\ OthersKeep(w)
          /\ At(w, "upsert") /\ local'[w].pc = "idle"
          /\ o \in Objects /\ object'[o].state = "ACTIVE" /\ ObjectsKeep(o) /\ IdsKeep
          /\ n \in Ids /\ store'[n] = o
          /\ \A m \in Ids : m # n => store'[m] = store[m]
      BY <1>0, <1>1, SetUpsertStep
    <2>2. object[o].id = n /\ ~At(w, "idle")
      BY <1>0, <2>1, Hands DEF At, Clients, Holding
    <2>3. \A m \in Ids : m # n => StillSleeps(m)
      BY <2>1, <2>2, ElsewhereSleeps
    <2>4. ~Sleeps(n)'
      BY <2>1 DEF Sleeps
    <2> QED  BY <1>0, <2>1, <2>2, <2>3, <2>4, WriteUndisturbed
  <1>2. CASE RemoveDismiss(w)
    <2>1. /\ Basic'
          /\ UNCHANGED <<now, table, timer, store, todo>> /\ OthersKeep(w) /\ IdsKeep
          /\ At(w, "dismiss") /\ local'[w].pc = "idle" /\ n \in Ids
          /\ IF Stored(n)
             THEN object'[store[n]].state = "DISMISSED" /\ ObjectsKeep(store[n])
             ELSE object' = object
      BY <1>0, <1>2, RemoveDismissStep
    <2>2. CASE Stored(n)
      <3>1. store[n] \in Objects /\ object[store[n]].id = n
        BY <2>1, <2>2 DEF Stored, Basic, TypeOK, Held
      <3>2. \A m \in Ids : m # n => StillSleeps(m)
        BY <2>1, <2>2, <3>1, ElsewhereSleeps
      <3>3. ~Sleeps(n)' /\ ~At(w, "idle")
        BY <2>1, <2>2 DEF Sleeps, At
      <3> QED  BY <1>0, <2>1, <3>2, <3>3, WriteUndisturbed
    <2>3. CASE ~Stored(n)
      <3>1. \A m \in Ids : StillSleeps(m)
        BY <2>1, <2>3 DEF StillSleeps, Sleeps, Stored
      <3>2. ~Sleeps(n)' /\ ~At(w, "idle")
        BY <2>1, <2>3 DEF Sleeps, Stored, At
      <3> QED  BY <1>0, <2>1, <3>1, <3>2, WriteUndisturbed
    <2> QED  BY <2>2, <2>3
  <1>3. CASE SnoozeState(w)
    <2>1. /\ Basic'
          /\ UNCHANGED <<now, table, timer, store, todo>> /\ OthersKeep(w) /\ IdsKeep
          /\ At(w, "snooze") /\ local'[w].pc = "until" /\ local'[w].id = n
          /\ o \in Objects /\ object[o].id = n /\ ObjectsKeep(o) /\ ~At(w, "idle")
      BY <1>0, <1>3, SnoozeStateStep DEF At
    <2>2. \A m \in Ids : m # n => StillSleeps(m)
      BY <2>1, ElsewhereSleeps
    <2> QED  BY <1>0, <2>1, <2>2, WriteUndisturbed
  <1>4. CASE SnoozeUntil(w)
    <2>1. /\ Basic'
          /\ UNCHANGED <<now, table, timer, todo>> /\ OthersKeep(w) /\ IdsKeep
          /\ At(w, "until") /\ local'[w].pc = "read" /\ local'[w].id = n
          /\ local'[w].object = o /\ local'[w].due = due /\ ~At(w, "idle")
          /\ o \in Objects /\ object[o].id = n
          /\ object'[o].renotify_at = due
          /\ ObjectsKeep(o)
          /\ n \in Ids /\ store'[n] = o
          /\ \A m \in Ids : m # n => store'[m] = store[m]
      BY <1>0, <1>4, SnoozeUntilStep DEF At
    <2>2. \A m \in Ids : m # n => StillSleeps(m)
      BY <2>1, ElsewhereSleeps
    <2> QED  BY <1>0, <2>1, <2>2, WriteUndisturbed
  <1>5. CASE SnoozeRead(w)
    <2>1. /\ Basic'
          /\ UNCHANGED <<now, table, timer, store, object, todo>> /\ OthersKeep(w)
          /\ At(w, "read") /\ ~At(w, "idle")
          /\ IF object[o].renotify_at = None
             THEN local'[w].pc = "idle"
             ELSE /\ local'[w].pc = "arm" /\ local'[w].id = n /\ local'[w].object = o
                  /\ local'[w].due = object[o].renotify_at
      BY <1>0, <1>5, SnoozeReadStep DEF At
    <2>2. /\ object[o].renotify_at = due /\ store[n] \in {o, None} /\ due # None
      BY <1>0, <2>1, Hands, ThreadsAssumption DEF Undisturbed, InHand, Clients
    <2>3. IdsKeep /\ \A m \in Ids : StillSleeps(m)
      BY <2>1 DEF IdsKeep, StillSleeps, Sleeps, Stored
    <2> QED  BY <1>0, <2>1, <2>2, <2>3, WriteUndisturbed
  <1>6. CASE SnoozeArm(w)
    BY <1>6, SnoozeArmStep, ArmUndisturbed
  <1>7. ASSUME NEW m \in Ids, NEW expiry \in Expiries, SetCancel(w, m, expiry)
        PROVE  Undisturbed'
    BY <1>7, SetCancelStep, CancelUndisturbed
  <1>8. ASSUME \/ \E m \in Ids : RemoveCheck(w, m)
               \/ \E m \in Ids, d \in Durations : SnoozeCheck(w, m, d)
        PROVE  Undisturbed'
    BY <1>8, CheckStep, CheckUndisturbed
  <1>9. CASE RemoveCancel(w)
    BY <1>9, RemoveCancelStep, CancelUndisturbed
  <1> QED  BY <1>1, <1>2, <1>3, <1>4, <1>5, <1>6, <1>7, <1>8, <1>9 DEF Handle

-------------------------------------------------------------------------------
(* Every step of a timer thread keeps the invariant *)

\* No request is under way, so only Listed, what wake-ups hold, and what each
\* id knows are left to show.
LEMMA TimerUndisturbed ==
  ASSUME Basic', NoWorker', Apart', Listed',
         \A t \in Timers : At(t, "clear")' => object'[local'[t].object].state # "SNOOZED",
         \A n \in Ids : OnTime(n)' /\ WillWake(n)' /\ Overdue(n)'
  PROVE  Undisturbed'
  <1>1. /\ \A w \in Workers : local'[w].pc = "idle"
        /\ \A t \in Timers : local'[t].pc # "upsert"
    BY DEF NoWorker, At, Basic, Roles
  <1>2. Awake'
    BY <1>1 DEF Awake, Clients, At
  <1>3. InHand'
    BY <1>1 DEF InHand, At
  <1> QED  BY <1>2, <1>3 DEF Undisturbed

\* With no request under way a sleeper's timers are on time.
LEMMA OnTimeThen ==
  ASSUME Undisturbed, NoWorker, NEW n \in Ids, Sleeps(n), NEW t \in Fires(n)
  PROVE  timer[t].due = object[store[n]].renotify_at
  BY DEF Undisturbed, NoWorker, At, OnTime, Snoozing

LEMMA OnTimeKept ==
  ASSUME Undisturbed, NoWorker, NEW n \in Ids, StillSleeps(n),
         \A t \in Timers : t \in Fires(n)' => t \in Fires(n) /\ timer'[t].due = timer[t].due
  PROVE  OnTime(n)'
  BY OnTimeThen DEF OnTime, StillSleeps, Fires

\* Of the timers beyond cancel's reach, t aside, there are no more than before.
OverdueBut(t) ==
  \A u \in Timers :
    u # t /\ timer'[u].phase \in {"committed", "firing"} =>
      timer[u].phase \in {"committed", "firing"} /\ timer[u].id = timer'[u].id

LEMMA OverdueKept ==
  ASSUME Undisturbed, NEW n \in Ids, StillSleeps(n), now' = now, NEW t \in Timers, OverdueBut(t),
         timer'[t].phase \in {"committed", "firing"} /\ timer'[t].id = n /\ Sleeps(n) =>
           object[store[n]].renotify_at # None /\ object[store[n]].renotify_at <= now
  PROVE  Overdue(n)'
  BY DEF Undisturbed, Overdue, StillSleeps, OverdueBut

LEMMA CommitUndisturbed ==
  ASSUME Basic, met' \in BOOLEAN, Undisturbed, ~Overlap', NEW t \in Timers, TimerCommit(t)
  PROVE  Undisturbed'
  <1>1. /\ Basic' /\ UNCHANGED <<now, table, store, object, local, todo>>
        /\ timer[t].phase = "waiting" /\ timer[t].due <= now /\ timer[t].id \in Ids
        /\ timer'[t].phase = "committed" /\ timer'[t].id = timer[t].id
        /\ \A u \in Timers : u # t => timer'[u] = timer[u]
    BY CommitStep
  <1>2. Apart' /\ NoWorker /\ NoWorker'
    BY <1>1, NoWorkerThen DEF Undisturbed, OthersKeep, Waking
  <1>3. Listed'
    BY <1>1 DEF Undisturbed, Listed
  <1>4. \A u \in Timers : At(u, "clear")' => object'[local'[u].object].state # "SNOOZED"
    BY <1>1 DEF Undisturbed, Awake, Clients, At
  <1>5. ASSUME NEW n \in Ids  PROVE OnTime(n)' /\ WillWake(n)' /\ Overdue(n)'
    <2>1. StillSleeps(n) /\ (Retiring(n)' <=> Retiring(n)) /\ ~Handled(n)
      BY <1>1, <1>2 DEF StillSleeps, Sleeps, Stored, Retiring, At, NoWorker, Handled
    <2>2. OnTime(n)'
      BY <1>1, <1>2, <2>1, OnTimeKept DEF Fires
    <2>3. WillWake(n)'
      <3>1. Woken(n) => Woken(n)'
        BY <1>1 DEF Woken, At
      <3>2. timer[t].id = n => Woken(n)'
        BY <1>1 DEF Woken
      <3>3. timer[t].id # n => \A u \in Fires(n) : u \in Fires(n)'
        BY <1>1 DEF Fires
      <3> QED  BY <2>1, <3>1, <3>2, <3>3 DEF WillWake, Undisturbed, StillSleeps
    <2>4. Overdue(n)'
      <3>1. ASSUME timer[t].id = n, Sleeps(n)
            PROVE  object[store[n]].renotify_at # None /\ object[store[n]].renotify_at <= now
        <4>1. timer[t].due = object[store[n]].renotify_at
          BY <1>1, <1>2, <3>1, OnTimeThen DEF Fires
        <4>2. timer[t].due \in Nat
          BY DEF Basic, TypeOK, SchedulerTypeOK, Timer
        <4> QED  BY <1>1, <4>1, <4>2, ThreadsAssumption
      <3>2. OverdueBut(t)
        BY <1>1 DEF OverdueBut
      <3> QED  BY <1>1, <2>1, <3>1, <3>2, OverdueKept
    <2> QED  BY <2>2, <2>3, <2>4
  <1> QED  BY <1>1, <1>2, <1>3, <1>4, <1>5, TimerUndisturbed

LEMMA FireUndisturbed ==
  ASSUME Basic, met' \in BOOLEAN, Undisturbed, ~Overlap', NEW t \in Timers, TimerFire(t)
  PROVE  Undisturbed'
  <1>1. /\ Basic' /\ UNCHANGED <<now, store, object, todo>> /\ OthersKeep(t)
        /\ timer[t].phase = "committed" /\ timer[t].id \in Ids
        /\ timer'[t].phase = "firing" /\ timer'[t].id = timer[t].id
        /\ \A u \in Timers : u # t => timer'[u] = timer[u]
        /\ table' = [table EXCEPT ![timer[t].id] = None]
        /\ local'[t].pc = "wake" /\ local'[t].id = timer[t].id
    BY FireStep
  <1>2. Apart' /\ NoWorker /\ NoWorker'
    BY <1>1, NoWorkerThen DEF Undisturbed, Waking
  <1>3. Listed'
    <2>1. \A u \in Timers : timer[u].phase # "free" => timer[u].id \in Ids
      BY DEF Basic, Roles
    <2>2. \A n \in Ids : table'[n] = IF n = timer[t].id THEN None ELSE table[n]
      BY <1>1 DEF Basic, TypeOK, SchedulerTypeOK
    <2> QED  BY <1>1, <2>1, <2>2, SchedulerAssumption DEF Undisturbed, Listed
  <1>4. \A u \in Timers : u # t => local'[u] = local[u]
    BY <1>1 DEF OthersKeep, Threads
  <1>5. \A u \in Timers : At(u, "clear")' => object'[local'[u].object].state # "SNOOZED"
    BY <1>1, <1>4 DEF Undisturbed, Awake, Clients, At
  <1>6. local'["tick"] = local["tick"] /\ local[t].pc = "idle"
    BY <1>1, ThreadsAssumption DEF OthersKeep, Threads, Basic, Roles, At
  <1>7. ASSUME NEW n \in Ids  PROVE OnTime(n)' /\ WillWake(n)' /\ Overdue(n)'
    <2>1. StillSleeps(n) /\ (Retiring(n)' <=> Retiring(n)) /\ ~Handled(n)
      BY <1>1, <1>2, <1>6 DEF StillSleeps, Sleeps, Stored, Retiring, At, NoWorker, Handled
    <2>2. OnTime(n)'
      BY <1>1, <1>2, <2>1, OnTimeKept DEF Fires
    <2>3. WillWake(n)'
      <3>1. Woken(n) => Woken(n)'
        BY <1>1, <1>4, <1>6 DEF Woken, At
      <3>2. \A u \in Fires(n) : u \in Fires(n)'
        BY <1>1 DEF Fires
      <3> QED  BY <2>1, <3>1, <3>2 DEF WillWake, Undisturbed, StillSleeps
    <2>4. Overdue(n)'
      <3>1. OverdueBut(t)
        BY <1>1 DEF OverdueBut
      <3> QED  BY <1>1, <2>1, <3>1, OverdueKept DEF Undisturbed, Overdue
    <2> QED  BY <2>2, <2>3, <2>4
  <1> QED  BY <1>1, <1>2, <1>3, <1>5, <1>7, TimerUndisturbed

\* A wake-up under way: the table and the timers that wait stay as they are.
LEMMA WakeUndisturbed ==
  ASSUME Basic, Basic', Undisturbed, ~Overlap', NEW t \in Timers, OthersKeep(t), IdsKeep,
         UNCHANGED <<now, table, todo>>, timer[t].phase = "firing",
         timer'[t] = timer[t] \/ timer'[t] = NoTimer,
         \A u \in Timers : u # t => timer'[u] = timer[u],
         \A u \in Timers : At(u, "clear")' => object'[local'[u].object].state # "SNOOZED",
         \A n \in Ids : StillSleeps(n) /\ (Sleeps(n)' /\ Woken(n) => Woken(n)')
  PROVE  Undisturbed'
  <1>1. Apart' /\ NoWorker /\ NoWorker'
    BY NoWorkerThen DEF Undisturbed, Waking
  <1>2. timer'[t].phase \in {"firing", "free"} /\ (timer'[t].phase = "firing" => timer'[t] = timer[t])
    BY DEF NoTimer
  <1>3. Listed'
    BY <1>2 DEF Undisturbed, Listed
  <1>4. local'["tick"] = local["tick"]
    BY ThreadsAssumption DEF OthersKeep, Threads
  <1>5. ASSUME NEW n \in Ids  PROVE OnTime(n)' /\ WillWake(n)' /\ Overdue(n)'
    <2>1. StillSleeps(n) /\ (Retiring(n)' <=> Retiring(n)) /\ ~Handled(n)
      BY <1>1, <1>4, RetiringKept DEF At, NoWorker, Handled
    <2>2. FiresKept(n)
      BY <1>2 DEF FiresKept, Fires
    <2>3. OnTime(n)'
      BY <1>1, <2>1, <2>2, OnTimeKept DEF FiresKept
    <2>4. WillWake(n)'
      BY <2>1, <2>2 DEF WillWake, Undisturbed, StillSleeps, FiresKept, Fires
    <2>5. Overdue(n)'
      <3>1. OverdueBut(t)
        BY DEF OverdueBut
      <3> QED  BY <1>2, <2>1, <3>1, OverdueKept DEF Undisturbed, Overdue
    <2> QED  BY <2>3, <2>4, <2>5
  <1> QED  BY <1>1, <1>3, <1>5, TimerUndisturbed

LEMMA WakeCheckUndisturbed ==
  ASSUME Basic, met' \in BOOLEAN, Undisturbed, ~Overlap', NEW t \in Timers, WakeCheck(t)
  PROVE  Undisturbed'
  <1>0. PICK n : n = local[t].id
    OBVIOUS
  <1>1. /\ Basic' /\ UNCHANGED <<now, table, store, object, todo>> /\ OthersKeep(t)
        /\ At(t, "wake") /\ n \in Ids
        /\ \A u \in Timers : u # t => timer'[u] = timer[u]
        /\ \/ /\ UNCHANGED timer /\ local'[t].pc = "waken"
              /\ local'[t].id = n /\ local'[t].object = store[n]
           \/ ~Sleeps(n) /\ local'[t].pc = "idle" /\ timer'[t] = NoTimer
    BY <1>0, WakeCheckStep
  <1>2. timer[t].phase = "firing"
    BY <1>1 DEF Basic, Roles, At
  <1>3. \A u \in Timers : u # t => local'[u] = local[u]
    BY <1>1 DEF OthersKeep, Threads
  <1>4. \A u \in Timers : At(u, "clear")' => object'[local'[u].object].state # "SNOOZED"
    BY <1>1, <1>3 DEF Undisturbed, Awake, Clients, At
  <1>5. \A m \in Ids : StillSleeps(m) /\ (Sleeps(m)' <=> Sleeps(m))
    BY <1>1 DEF StillSleeps, Sleeps, Stored
  <1>6. ASSUME NEW m \in Ids, Sleeps(m)', Woken(m)
        PROVE  Woken(m)'
    <2>1. CASE m = n
      BY <1>1, <1>5, <1>6, <2>1 DEF Woken, At
    <2>2. CASE m # n
      BY <1>0, <1>1, <1>2, <1>3, <1>6, <2>2 DEF Woken, At
    <2> QED  BY <2>1, <2>2
  <1> QED  BY <1>1, <1>2, <1>4, <1>5, <1>6, WakeUndisturbed DEF IdsKeep

LEMMA WakeStateUndisturbed ==
  ASSUME Basic, met' \in BOOLEAN, Undisturbed, ~Overlap', NEW t \in Timers, WakeState(t)
  PROVE  Undisturbed'
  <1>0. PICK n, o : n = local[t].id /\ o = local[t].object
    OBVIOUS
  <1>1. /\ Basic' /\ UNCHANGED <<now, table, timer, store, todo>> /\ OthersKeep(t) /\ IdsKeep
        /\ At(t, "waken") /\ local'[t].pc = "clear" /\ local'[t].object = o
        /\ n \in Ids /\ timer[t].phase = "firing"
        /\ o \in Objects /\ object[o].id = n
        /\ object'[o].state = "ACTIVE" /\ ObjectsKeep(o)
    BY <1>0, WakeStateStep
  <1>2. \A u \in Timers : u # t => local'[u] = local[u]
    BY <1>1 DEF OthersKeep, Threads
  <1>3. ASSUME NEW u \in Timers, At(u, "clear")'
        PROVE  object'[local'[u].object].state # "SNOOZED"
    <2>1. CASE u = t
      BY <1>1, <2>1
    <2>2. CASE u # t
      <3>1. local[u].object \in Objects /\ object[local[u].object].state # "SNOOZED"
        BY <1>2, <1>3, <2>2, Hands DEF Undisturbed, Awake, Clients, At, Holding
      <3> QED  BY <1>1, <1>2, <2>2, <3>1 DEF ObjectsKeep
    <2> QED  BY <2>1, <2>2
  <1>4. ASSUME NEW m \in Ids
        PROVE  StillSleeps(m) /\ (Sleeps(m)' => store[m] # o)
    <2>1. store[m] # None => store[m] \in Objects
      BY DEF Basic, TypeOK
    <2> QED  BY <1>1, <2>1 DEF StillSleeps, Sleeps, Stored, ObjectsKeep
  <1>5. ASSUME NEW m \in Ids, Sleeps(m)', Woken(m)
        PROVE  Woken(m)'
    BY <1>0, <1>1, <1>2, <1>4, <1>5 DEF Woken, At
  <1> QED  BY <1>1, <1>3, <1>4, <1>5, WakeUndisturbed

LEMMA WakeClearUndisturbed ==
  ASSUME Basic, met' \in BOOLEAN, Undisturbed, ~Overlap', NEW t \in Timers, WakeClear(t)
  PROVE  Undisturbed'
  <1>0. PICK n, o : n = local[t].id /\ o = local[t].object
    OBVIOUS
  <1>1. /\ Basic' /\ UNCHANGED <<now, table, todo>> /\ OthersKeep(t) /\ IdsKeep
        /\ At(t, "clear") /\ local'[t].pc = "idle" /\ timer'[t] = NoTimer
        /\ \A u \in Timers : u # t => timer'[u] = timer[u]
        /\ o \in Objects /\ object[o].id = n
        /\ object'[o].state = object[o].state /\ ObjectsKeep(o)
        /\ n \in Ids /\ store'[n] = o
        /\ \A m \in Ids : m # n => store'[m] = store[m]
    BY <1>0, WakeClearStep
  <1>2. timer[t].phase = "firing" /\ object[o].state # "SNOOZED"
    BY <1>0, <1>1 DEF Basic, Roles, At, Undisturbed, Awake, Clients
  <1>3. \A u \in Timers : u # t => local'[u] = local[u]
    BY <1>1 DEF OthersKeep, Threads
  <1>4. ASSUME NEW u \in Timers, At(u, "clear")'
        PROVE  object'[local'[u].object].state # "SNOOZED"
    <2>1. u # t /\ local[u].object \in Objects /\ object[local[u].object].state # "SNOOZED"
      BY <1>1, <1>3, <1>4, Hands DEF Undisturbed, Awake, Clients, At, Holding
    <2> QED  BY <1>1, <1>3, <2>1 DEF ObjectsKeep
  <1>5. ~Sleeps(n)'
    BY <1>1, <1>2 DEF Sleeps
  <1>6. ASSUME NEW m \in Ids, m # n  PROVE StillSleeps(m)
    BY <1>1, <1>6, ElsewhereSleeps
  <1>7. ASSUME NEW m \in Ids, Sleeps(m)', Woken(m)
        PROVE  Woken(m)'
    BY <1>1, <1>2, <1>3, <1>5, <1>7 DEF Woken, At
  <1> QED  BY <1>1, <1>2, <1>4, <1>5, <1>6, <1>7, WakeUndisturbed DEF StillSleeps

-------------------------------------------------------------------------------
(* Every step of the plugin thread, and of the clock, keeps the invariant *)

\* Whatever the workers and the timer threads are up to, they go on with it.
LEMMA TickUndisturbed ==
  ASSUME Basic, Basic', Undisturbed, ~Overlap', OthersKeep("tick"), now' = now,
         Listed', NoneWakes,
         \A t \in Timers : timer'[t].phase \in {"committed", "firing"} => timer'[t].id = timer[t].id,
         \A o \in Objects :
           /\ object'[o].renotify_at = object[o].renotify_at
           /\ object'[o].state = "SNOOZED" => object[o].state = "SNOOZED",
         \A n \in Ids : /\ store'[n] \in {store[n], None}
                        /\ \/ FiresKept(n) /\ (Retiring(n) /\ Sleeps(n)' => Retiring(n)')
                           \/ Fires(n)' = {} /\ Retiring(n)'
  PROVE  Undisturbed'
  <1>1. \A p \in Clients : local'[p] = local[p] /\ p \in Threads
    BY ThreadsAssumption DEF OthersKeep, Threads, Clients
  <1>2. Apart'
    BY ApartFrom, ThreadKinds DEF Undisturbed
  <1>3. Awake'
    <2>1. \A p \in Clients : At(p, "upsert") \/ At(p, "clear") => local[p].object \in Objects
      BY Hands DEF At, Holding
    <2> QED  BY <1>1, <2>1 DEF Undisturbed, Awake, At
  <1>4. InHand'
    <2>1. \A w \in Workers : At(w, "read") \/ At(w, "arm") =>
                               local[w].object \in Objects /\ local[w].id \in Ids
      BY Hands DEF At, Holding, Clients
    <2> QED  BY <1>1, <2>1 DEF Undisturbed, InHand, At, Clients
  <1>5. ASSUME NEW n \in Ids  PROVE OnTime(n)' /\ WillWake(n)' /\ Overdue(n)'
    <2>1. StillSleeps(n)
      BY DEF StillSleeps, Sleeps, Stored, Basic, TypeOK
    <2>2. (Snoozing(n)' <=> Snoozing(n)) /\ (Handled(n)' <=> Handled(n))
      BY <1>1 DEF Snoozing, Handled, Clients
    <2>3. Sleeps(n)' /\ Woken(n) => Woken(n)'
      BY <1>1, <2>1 DEF StillSleeps, Woken, Clients, At, NoneWakes
    <2>4. OnTime(n)'
      BY <2>1, <2>2 DEF Undisturbed, OnTime, StillSleeps, FiresKept, Fires
    <2>5. WillWake(n)'
      BY <2>1, <2>2, <2>3 DEF Undisturbed, WillWake, StillSleeps, FiresKept, Fires
    <2>6. Overdue(n)'
      BY <2>1 DEF Undisturbed, Overdue, StillSleeps, NoneWakes
    <2> QED  BY <2>4, <2>5, <2>6
  <1> QED  BY <1>2, <1>3, <1>4, <1>5 DEF Undisturbed

LEMMA TickStepsUndisturbed ==
  ASSUME Basic, met' \in BOOLEAN, Undisturbed, ~Overlap', Tick
  PROVE  Undisturbed'
  <1>1. CASE TickList \/ TickPrune \/ TickDone
    <2>1. /\ Basic'
          /\ UNCHANGED <<now, table, timer, store, object>> /\ OthersKeep("tick")
          /\ ~At("tick", "retire")
      BY <1>1, TickPlainStep
    <2>2. Listed' /\ NoneWakes /\ \A n \in Ids : FiresKept(n) /\ ~Retiring(n)
      BY <2>1, RestingFires DEF Undisturbed, Retiring
    <2> QED  BY <2>1, <2>2, TickUndisturbed
  <1>2. ASSUME NEW o \in todo, TickCancel(o)  PROVE Undisturbed'
    <2>0. PICK n : n = object[o].id
      OBVIOUS
    <2>1. /\ Basic'
          /\ UNCHANGED <<now, store, object, todo>> /\ OthersKeep("tick")
          /\ n \in Ids /\ TimersBut(n) /\ ~At("tick", "retire")
          /\ local'["tick"].pc = "retire" /\ local'["tick"].object = o
      BY <1>2, <2>0, TickCancelStep
    <2>2. /\ Listed' /\ NoneWakes /\ Fires(n)' = {}
          /\ \A m \in Ids : m # n => FiresKept(m)
      BY <2>1, CancelledFires DEF Undisturbed
    <2>3. Retiring(n)' /\ \A m \in Ids : ~Retiring(m)
      BY <2>0, <2>1 DEF Retiring, At
    <2>4. \A t \in Timers :
            timer'[t].phase \in {"committed", "firing"} => timer'[t].id = timer[t].id
      BY <2>1 DEF TimersBut, NoTimer
    <2> QED  BY <2>1, <2>2, <2>3, <2>4, TickUndisturbed
  <1>3. CASE TickExpire
    <2>0. PICK n : n = object[local["tick"].object].id
      OBVIOUS
    <2>1. /\ Basic'
          /\ UNCHANGED <<now, table, timer, store>> /\ OthersKeep("tick")
          /\ n \in Ids
          /\ IF Stored(n) THEN object'[store[n]].state = "EXPIRED" /\ ObjectsKeep(store[n])
                          ELSE object' = object
          /\ \A o \in Objects : object'[o].renotify_at = object[o].renotify_at
      BY <1>3, <2>0, TickExpireStep
    <2>2. Listed' /\ NoneWakes /\ \A m \in Ids : FiresKept(m)
      BY <2>1, RestingFires DEF Undisturbed
    <2>3. ~Sleeps(n)'
      BY <2>1 DEF Sleeps, Stored
    <2>4. \A m \in Ids : Retiring(m) => m = n
      BY <2>0 DEF Retiring
    <2>5. \A o \in Objects : object'[o].state = "SNOOZED" => object[o].state = "SNOOZED"
      BY <2>1 DEF Stored, ObjectsKeep
    <2> QED  BY <2>1, <2>2, <2>3, <2>4, <2>5, TickUndisturbed
  <1>4. ASSUME NEW o \in todo, TickDelete(o)  PROVE Undisturbed'
    <2>1. /\ Basic'
          /\ UNCHANGED <<now, table, timer, object, local>>
          /\ ~At("tick", "retire") /\ \A n \in Ids : store'[n] \in {store[n], None}
      BY <1>4, TickDeleteStep
    <2>2. Listed' /\ NoneWakes /\ \A n \in Ids : FiresKept(n) /\ ~Retiring(n)
      BY <2>1, RestingFires DEF Undisturbed, Retiring
    <2> QED  BY <2>1, <2>2, TickUndisturbed DEF OthersKeep
  <1> QED  BY <1>1, <1>2, <1>3, <1>4 DEF Tick

\* What is overdue stays so as the clock goes on.
LEMMA AdvanceUndisturbed ==
  ASSUME Basic, met' \in BOOLEAN, Undisturbed, Advance, UNCHANGED <<store, object, local, todo>>
  PROVE  Undisturbed'
  <1>1. now' = now + 1 /\ UNCHANGED <<table, timer>> /\ now \in Nat
    BY AdvanceStep
  <1>2. Apart' /\ Listed' /\ Awake' /\ InHand'
    BY <1>1 DEF Undisturbed, Apart, Listed, Awake, InHand, Busy, Waking, At
  <1>3. ASSUME NEW n \in Ids  PROVE OnTime(n)' /\ WillWake(n)' /\ Overdue(n)'
    <2>1. OnTime(n)' /\ WillWake(n)'
      BY <1>1 DEF Undisturbed, OnTime, WillWake, Sleeps, Stored, Snoozing, Fires, Woken, Retiring,
                  Handled, At
    <2>2. Stored(n) => object[store[n]].renotify_at \in Nat \cup {None}
      BY DEF Stored, Basic, TypeOK, Object
    <2>3. Overdue(n)'
      BY <1>1, <2>2 DEF Undisturbed, Overdue, Sleeps, Stored
    <2> QED  BY <2>1, <2>3
  <1> QED  BY <1>2, <1>3 DEF Undisturbed

LEMMA InitUndisturbed == Init => IInv
  <1> SUFFICES ASSUME Init  PROVE Undisturbed
    BY InitBasic DEF IInv
  <1>1. /\ \A p \in Threads : local[p].pc = "idle"
        /\ \A t \in Timers : timer[t].phase = "free"
        /\ \A n \in Ids : store[n] = None
    BY DEF Init, SchedulerInit, Idle, NoTimer
  <1>2. Busy = {} /\ Waking = {} /\ Clients \subseteq Threads /\ Workers \subseteq Clients
    BY <1>1, ThreadKinds DEF Busy, Waking, At, Threads, Clients
  <1>3. Apart /\ Listed /\ Awake /\ InHand
    BY <1>1, <1>2 DEF Apart, Listed, Awake, InHand, At
  <1>4. \A n \in Ids : ~Sleeps(n)
    BY <1>1 DEF Sleeps, Stored
  <1> QED  BY <1>3, <1>4 DEF Undisturbed, OnTime, WillWake, Overdue

LEMMA UndisturbedKept == IInv /\ [Next]_vars => IInv'
  <1> SUFFICES ASSUME IInv, [Next]_vars  PROVE IInv'
    OBVIOUS
  <1>1. Basic /\ Basic'
    BY BasicKept DEF IInv
  <1>2. CASE UNCHANGED vars
    <2>1. Undisturbed => Undisturbed'
      BY <1>2 DEF vars, Undisturbed, Apart, Listed, Awake, InHand, Busy, Waking, At, OnTime, WillWake,
         Overdue, Sleeps, Stored, Snoozing, Fires, Woken, Retiring, Handled
    <2> QED  BY <1>1, <1>2, <2>1 DEF vars, IInv
  <1>3. ASSUME Next, ~met'  PROVE Undisturbed'
    <2>1. Undisturbed /\ ~Overlap' /\ met' \in BOOLEAN
      BY <1>1, <1>3 DEF Next, IInv, Basic, TypeOK
    <2>2. ASSUME NEW w \in Workers, Handle(w)  PROVE Undisturbed'
      BY <1>1, <2>1, <2>2, HandleUndisturbed
    <2>3. ASSUME NEW t \in Timers, Wake(t)  PROVE Undisturbed'
      BY <1>1, <2>1, <2>3, CommitUndisturbed, FireUndisturbed, WakeCheckUndisturbed,
         WakeStateUndisturbed, WakeClearUndisturbed DEF Wake
    <2>4. CASE Tick
      BY <1>1, <2>1, <2>4, TickStepsUndisturbed
    <2>5. CASE Advance /\ UNCHANGED <<store, object, local, todo>>
      BY <1>1, <2>1, <2>5, AdvanceUndisturbed
    <2> QED  BY <1>3, <2>2, <2>3, <2>4, <2>5 DEF Next, Step
  <1> QED  BY <1>1, <1>2, <1>3 DEF IInv

-------------------------------------------------------------------------------
(***************************************************************************)
(* For any number of threads, records and ids: as long as no request       *)
(* overlapped a wake-up or another request, a notification found asleep    *)
(* has a timer running for its very renotify_at, whatever the tick expired *)
(* or pruned at the same time.                                             *)
(***************************************************************************)
THEOREM NoSleeperIsLost == Spec => []SleeperHasTimer
  <1>1. IInv => SleeperHasTimer
    <2> SUFFICES ASSUME IInv, ~met, Quiet, NEW n \in Ids, Sleeps(n)
                 PROVE  \E t \in Fires(n) : timer[t].due = object[store[n]].renotify_at
      BY DEF SleeperHasTimer
    <2>1. Undisturbed /\ (\A w \in Workers : At(w, "idle")) /\ Waking = {} /\ ~At("tick", "retire")
      BY DEF IInv, Quiet, Busy
    <2>2. ~Snoozing(n) /\ ~Handled(n) /\ ~Retiring(n)
      BY <2>1 DEF Snoozing, Handled, Retiring, At
    <2>3. ~Woken(n)
      BY <2>1, TimersIdle DEF IInv, Woken, Waking, At
    <2> QED  BY <2>1, <2>2, <2>3 DEF Undisturbed, OnTime, WillWake
  <1> QED  BY InitUndisturbed, UndisturbedKept, <1>1, PTL DEF Spec

(***************************************************************************)
(* Under the same condition, no snoozed record is woken before the         *)
(* renotify_at it has, however often it is snoozed again.                  *)
(***************************************************************************)
THEOREM NoneWakesEarly == Spec => NeverEarly
  <1> DEFINE Early(n) == /\ ~met' /\ Sleeps(n)
                         /\ store'[n] = store[n] /\ object'[store[n]].state = "ACTIVE"
  <1>1. ASSUME IInv, Next, NEW n \in Ids, Early(n)
        PROVE  object[store[n]].renotify_at <= now
    <2>1. /\ Basic /\ Undisturbed /\ met' \in BOOLEAN
          /\ store[n] \in Objects /\ object[store[n]].id = n /\ object[store[n]].state = "SNOOZED"
      BY <1>1 DEF Next, IInv, Basic, TypeOK, Held, Sleeps, Stored
    <2>2. PICK r \in Objects : r = store[n]
      BY <2>1
    <2>3. object[r].state = "SNOOZED" /\ object'[r].state = "ACTIVE" /\ object[r].id = n
      BY <1>1, <2>1, <2>2
    <2>4. ASSUME NEW w \in Workers, Handle(w)  PROVE FALSE
      <3>1. ASSUME NEW m \in Ids, NEW expiry \in Expiries, SetCancel(w, m, expiry)  PROVE FALSE
        <4>1. r \in StoredObjects
          BY <2>1, <2>2, ThreadsAssumption DEF StoredObjects, Stored
        <4>2. object'[r] = object[r]
          BY <2>1, <3>1, <4>1, SetCancelStep DEF Unused, ObjectsKeep
        <4> QED  BY <2>3, <4>2
      <3>2. ASSUME SetUpsert(w)  PROVE FALSE
        <4>1. r # local[w].object
          BY <2>1, <2>3, <3>2, SetUpsertStep DEF Undisturbed, Awake, Clients
        <4> QED  BY <2>1, <2>3, <3>2, <4>1, SetUpsertStep DEF ObjectsKeep
      <3>3. ASSUME RemoveDismiss(w)  PROVE FALSE
        BY <2>1, <2>3, <3>3, RemoveDismissStep DEF ObjectsKeep
      <3>4. ASSUME SnoozeState(w)  PROVE FALSE
        BY <2>1, <2>3, <3>4 DEF SnoozeState, Basic, TypeOK, Object
      <3>5. ASSUME SnoozeUntil(w)  PROVE FALSE
        BY <2>1, <2>3, <3>5 DEF SnoozeUntil, Basic, TypeOK, Object
      <3>6. ASSUME UNCHANGED object  PROVE FALSE
        BY <2>3, <3>6
      <3> QED  BY <2>4, <3>1, <3>2, <3>3, <3>4, <3>5, <3>6
               DEF Handle, RemoveCheck, RemoveCancel, SnoozeCheck, SnoozeRead, SnoozeArm, shared
    <2>5. ASSUME NEW t \in Timers, Wake(t)  PROVE object[r].renotify_at <= now
      <3>1. ASSUME WakeState(t)  PROVE object[r].renotify_at <= now
        <4>1. local[t].object = r /\ timer[t].phase = "firing" /\ timer[t].id = n
          BY <2>1, <2>3, <3>1, WakeStateStep DEF ObjectsKeep
        <4> QED  BY <1>1, <2>1, <2>2, <4>1 DEF Undisturbed, Overdue
      <3>2. ASSUME WakeClear(t)  PROVE FALSE
        BY <2>1, <2>3, <3>2, WakeClearStep DEF ObjectsKeep
      <3>3. ASSUME UNCHANGED object  PROVE FALSE
        BY <2>3, <3>3
      <3> QED  BY <2>5, <3>1, <3>2, <3>3 DEF Wake, TimerCommit, TimerFire, WakeCheck
    <2>6. ASSUME Tick  PROVE FALSE
      <3>1. ASSUME TickExpire  PROVE FALSE
        BY <2>1, <2>3, <3>1, TickExpireStep DEF ObjectsKeep
      <3>2. ASSUME UNCHANGED object  PROVE FALSE
        BY <2>3, <3>2
      <3> QED  BY <2>6, <3>1, <3>2
               DEF Tick, TickList, TickCancel, TickPrune, TickDelete, TickDone, shared
    <2>7. ASSUME UNCHANGED object  PROVE FALSE
      BY <2>3, <2>7
    <2> QED  BY <1>1, <2>2, <2>4, <2>5, <2>6, <2>7 DEF Next, Step
  <1>2. IInv /\ [Next]_vars => [\A n \in Ids : Early(n) => object[store[n]].renotify_at <= now]_vars
    BY <1>1
  <1> QED  BY InitUndisturbed, UndisturbedKept, <1>2, PTL DEF Spec, NeverEarly
===============================================================================
