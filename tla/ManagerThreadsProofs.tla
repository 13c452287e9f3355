------------------------- MODULE ManagerThreadsProofs -------------------------
(***************************************************************************)
(* Theorems about ManagerThreads, for any number of bus workers, timer     *)
(* threads, records and ids.                                               *)
(***************************************************************************)
EXTENDS ManagerThreads, SnoozeSchedulerProofs, FiniteSetTheorems

\* The threads that act on one id: workers and timer threads.
Clients == Workers \cup Timers

ObjectStates == {"NEW", "ACTIVE", "SNOOZED", "DISMISSED", "EXPIRED"}

OthersKeep(p) == \A q \in Threads : q # p => local'[q] = local[q]
ObjectsKeep(o) == \A x \in Objects : x # o => object'[x] = object[x]

-------------------------------------------------------------------------------
(* What an update does, field by field *)

LEMMA LocalSet ==
  ASSUME TypeOK, NEW p \in Threads, NEW r \in Local, local' = [local EXCEPT ![p] = r]
  PROVE  local' \in [Threads -> Local] /\ OthersKeep(p) /\ local'[p] = r
  BY DEF TypeOK, OthersKeep

LEMMA GotoFields ==
  ASSUME TypeOK, NEW p \in Threads, NEW pc \in Pcs, Goto(p, pc)
  PROVE  /\ local' \in [Threads -> Local] /\ OthersKeep(p)
         /\ local'[p].pc = pc /\ local'[p].id = local[p].id
         /\ local'[p].object = local[p].object /\ local'[p].due = local[p].due
  <1> DEFINE r == local[p]
             s == [r EXCEPT !.pc = pc]
  <1>1. r \in Local
    BY DEF TypeOK
  <1>2. local' = [local EXCEPT ![p] = s]
    BY DEF Goto
  <1> HIDE DEF r
  <1>3. s \in Local /\ s.pc = pc /\ s.id = r.id /\ s.object = r.object /\ s.due = r.due
    BY <1>1 DEF Local
  <1> HIDE DEF s
  <1> QED  BY <1>2, <1>3, LocalSet DEF r

LEMMA ReturnFields ==
  ASSUME TypeOK, NEW p \in Threads, Return(p)
  PROVE  /\ local' \in [Threads -> Local] /\ OthersKeep(p)
         /\ local'[p].pc = "idle" /\ local'[p].object = None
  <1>1. Idle \in Local /\ Idle.pc = "idle" /\ Idle.object = None
    BY DEF Idle, Local, Pcs
  <1> QED  BY <1>1, LocalSet DEF Return

LEMMA BeginFields ==
  ASSUME TypeOK, NEW p \in Threads, NEW pc \in Pcs, NEW n \in Ids,
         NEW o \in Objects \cup {None}, NEW due \in Nat, Begin(p, pc, n, o, due)
  PROVE  /\ local' \in [Threads -> Local] /\ OthersKeep(p)
         /\ local'[p].pc = pc /\ local'[p].id = n /\ local'[p].object = o /\ local'[p].due = due
  <1> DEFINE r == [pc |-> pc, id |-> n, object |-> o, due |-> due]
  <1>1. r \in Local /\ r.pc = pc /\ r.id = n /\ r.object = o /\ r.due = due
    BY DEF Local
  <1>2. local' = [local EXCEPT ![p] = r]
    BY DEF Begin
  <1> HIDE DEF r
  <1> QED  BY <1>1, <1>2, LocalSet

LEMMA ObjectSet ==
  ASSUME TypeOK, NEW o \in Objects, NEW r \in Object, object' = [object EXCEPT ![o] = r]
  PROVE  object' \in [Objects -> Object] /\ ObjectsKeep(o) /\ object'[o] = r
  BY DEF TypeOK, ObjectsKeep

LEMMA StateSet ==
  ASSUME TypeOK, NEW o \in Objects, NEW state \in ObjectStates,
         \/ object' = [object EXCEPT ![o].state = state]
         \/ object' = [object EXCEPT ![o].state = state, ![o].updated_at = now]
  PROVE  /\ object' \in [Objects -> Object] /\ ObjectsKeep(o)
         /\ object'[o].state = state /\ object'[o].id = object[o].id
         /\ object'[o].renotify_at = object[o].renotify_at
  <1> DEFINE r == object[o]
             s == [r EXCEPT !.state = state]
             u == [r EXCEPT !.state = state, !.updated_at = now]
  <1>1. r \in Object /\ now \in Nat
    BY DEF TypeOK, SchedulerTypeOK
  <1>2. object' = [object EXCEPT ![o] = s] \/ object' = [object EXCEPT ![o] = u]
    BY DEF TypeOK
  <1> HIDE DEF r
  <1>3. s \in Object /\ s.state = state /\ s.id = r.id /\ s.renotify_at = r.renotify_at
    BY <1>1 DEF Object, ObjectStates
  <1>4. u \in Object /\ u.state = state /\ u.id = r.id /\ u.renotify_at = r.renotify_at
    BY <1>1 DEF Object, ObjectStates
  <1> HIDE DEF s, u
  <1>5. CASE object' = [object EXCEPT ![o] = s]
    BY <1>3, <1>5, ObjectSet DEF r
  <1>6. CASE object' = [object EXCEPT ![o] = u]
    BY <1>4, <1>6, ObjectSet DEF r
  <1> QED  BY <1>2, <1>5, <1>6

LEMMA UntilSet ==
  ASSUME TypeOK, NEW o \in Objects, NEW until \in Nat \cup {None},
         object' = [object EXCEPT ![o].renotify_at = until, ![o].updated_at = now]
  PROVE  /\ object' \in [Objects -> Object] /\ ObjectsKeep(o)
         /\ object'[o].renotify_at = until /\ object'[o].id = object[o].id
         /\ object'[o].state = object[o].state
  <1> DEFINE r == object[o]
             s == [r EXCEPT !.renotify_at = until, !.updated_at = now]
  <1>1. r \in Object /\ now \in Nat
    BY DEF TypeOK, SchedulerTypeOK
  <1>2. object' = [object EXCEPT ![o] = s]
    BY DEF TypeOK
  <1> HIDE DEF r
  <1>3. s \in Object /\ s.renotify_at = until /\ s.id = r.id /\ s.state = r.state
    BY <1>1 DEF Object
  <1> HIDE DEF s
  <1> QED  BY <1>2, <1>3, ObjectSet DEF r

LEMMA StoreSet ==
  ASSUME TypeOK, NEW n \in Ids, NEW o \in Objects \cup {None}, store' = [store EXCEPT ![n] = o]
  PROVE  /\ store' \in [Ids -> Objects \cup {None}] /\ store'[n] = o
         /\ \A m \in Ids : m # n => store'[m] = store[m]
  BY DEF TypeOK

-------------------------------------------------------------------------------
(* What every thread knows *)

\* Records are under their id, and a thread that holds an object acts on its id.
Held ==
  /\ \A n \in Ids : Stored(n) => object[store[n]].id = n
  /\ \A o \in todo : object[o].id \in Ids
  /\ \A p \in Clients : local[p].object # None => object[local[p].object].id = local[p].id
  /\ At("tick", "retire") =>
       local["tick"].object # None /\ object[local["tick"].object].id \in Ids

HandlerPcs == {"upsert", "cancel", "dismiss", "snooze", "until", "read", "arm"}

Roles ==
  /\ \A w \in Workers : local[w].pc \in {"idle"} \cup HandlerPcs
  /\ \A t \in Timers : local[t].pc \in {"idle", "wake", "waken", "clear"}
  /\ local["tick"].pc \in {"idle", "expire", "retire", "delete"}
  /\ \A p \in Clients : ~At(p, "idle") => local[p].id \in Ids
  /\ \A p \in Clients :
       local[p].pc \in {"upsert", "snooze", "until", "read", "arm", "waken", "clear"} =>
         local[p].object # None
  /\ \A t \in Timers : timer[t].phase = "firing" <=> ~At(t, "idle")
  /\ \A t \in Timers : ~At(t, "idle") => local[t].id = timer[t].id
  /\ \A t \in Timers : timer[t].phase # "free" => timer[t].id \in Ids

Basic == TypeOK /\ ListedTimersFire /\ Held /\ Roles

LEMMA ThreadKinds ==
  /\ Clients \subseteq Threads /\ "tick" \in Threads /\ "tick" \notin Clients
  /\ \A w \in Workers, t \in Timers : w # t
  BY ThreadsAssumption DEF Clients, Threads

\* What steps of the scheduler do to the timers.
LEMMA CancelFields ==
  ASSUME Basic, NEW n \in Ids, Cancel({n}), now' = now
  PROVE  /\ SchedulerTypeOK' /\ ListedTimersFire'
         /\ table' = [m \in Ids |-> IF m = n THEN None ELSE table[m]]
         /\ \A t \in Timers :
              IF table[n] = t /\ timer[t].phase = "waiting" THEN timer'[t] = NoTimer
                                                           ELSE timer'[t] = timer[t]
  <1>1. Sound'
    BY CancelSound DEF Basic, TypeOK, Sound
  <1> QED  BY <1>1 DEF Sound, Cancel, Without

LEMMA ArmFields ==
  ASSUME Basic, NEW n \in Ids, NEW due \in Nat, Arm(n, due), now' = now
  PROVE  /\ SchedulerTypeOK' /\ ListedTimersFire'
         /\ \E t \in Timers :
              /\ table' = [table EXCEPT ![n] = t]
              /\ timer[t].phase = "free" \/ (timer[t].phase = "waiting" /\ table[n] = t)
              /\ timer'[t] = [id |-> n, due |-> due, phase |-> "waiting"]
              /\ \A u \in Timers : u # t =>
                   IF table[n] = u /\ timer[u].phase = "waiting" THEN timer'[u] = NoTimer
                                                                ELSE timer'[u] = timer[u]
  <1>1. Sound'
    BY ArmSound DEF Basic, TypeOK, Sound
  <1> DEFINE t == CHOOSE u \in Free({n}) : TRUE
  <1>2. t \in Timers /\ Without({n})[t].phase = "free"
    BY DEF Arm, Free
  <1>3. /\ table' = [table EXCEPT ![n] = t]
        /\ timer' = [Without({n}) EXCEPT ![t] = [id |-> n, due |-> due, phase |-> "waiting"]]
    BY DEF Arm
  <1> HIDE DEF t
  <1>4. timer[t].phase = "free" \/ (timer[t].phase = "waiting" /\ table[n] = t)
    BY <1>2 DEF Without
  <1> QED  BY <1>1, <1>2, <1>3, <1>4 DEF Sound, Without

LEMMA PhaseFields ==
  ASSUME Basic, NEW t \in Timers, NEW phase \in Phases,
         timer' = [timer EXCEPT ![t].phase = phase]
  PROVE  /\ timer'[t].phase = phase /\ timer'[t].id = timer[t].id /\ timer'[t].due = timer[t].due
         /\ \A u \in Timers : u # t => timer'[u] = timer[u]
  BY DEF Basic, TypeOK, SchedulerTypeOK, Timer

-------------------------------------------------------------------------------
(* What each step does *)

\* The timers with nothing changed but that the one for n may be gone.
TimersBut(n) ==
  /\ table' = [m \in Ids |-> IF m = n THEN None ELSE table[m]]
  /\ \A t \in Timers :
       IF table[n] = t /\ timer[t].phase = "waiting" THEN timer'[t] = NoTimer
                                                    ELSE timer'[t] = timer[t]

LEMMA SetCancelStep ==
  ASSUME Basic, met' \in BOOLEAN, NEW w \in Workers, NEW n \in Ids, NEW expiry \in Expiries,
         SetCancel(w, n, expiry)
  PROVE  /\ Basic'
         /\ UNCHANGED <<now, store, todo>> /\ TimersBut(n) /\ OthersKeep(w) /\ At(w, "idle")
         /\ local'[w].pc = "upsert" /\ local'[w].id = n
         /\ local'[w].object \in Objects /\ object'[local'[w].object].state = "NEW"
         /\ Unused(local'[w].object) /\ ObjectsKeep(local'[w].object)
  <1> DEFINE o == CHOOSE x \in Objects : Unused(x)
             r == [id |-> n, state |-> "NEW", renotify_at |-> None, expires_at |-> expiry,
                   updated_at |-> now]
  <1>1. o \in Objects /\ Unused(o)
    BY DEF SetCancel
  <1>2. /\ object' = [object EXCEPT ![o] = r] /\ Begin(w, "upsert", n, o, 0) /\ Cancel({n})
        /\ UNCHANGED <<now, store, todo>> /\ At(w, "idle")
    BY DEF SetCancel
  <1>3. r \in Object /\ r.id = n /\ r.state = "NEW"
    BY ThreadsAssumption DEF Basic, TypeOK, SchedulerTypeOK, Object
  <1> HIDE DEF o, r
  <1>4. object' \in [Objects -> Object] /\ ObjectsKeep(o) /\ object'[o] = r
    BY <1>1, <1>2, <1>3, ObjectSet DEF Basic
  <1>5. /\ local' \in [Threads -> Local] /\ OthersKeep(w) /\ local'[w].pc = "upsert"
        /\ local'[w].id = n /\ local'[w].object = o
    BY <1>1, <1>2, BeginFields, ThreadKinds DEF Basic, Pcs, Clients
  <1>6. SchedulerTypeOK' /\ ListedTimersFire' /\ TimersBut(n)
    BY <1>2, CancelFields DEF TimersBut
  <1>7. TypeOK'
    BY <1>2, <1>4, <1>5, <1>6 DEF Basic, TypeOK
  <1>8. /\ \A m \in Ids : store[m] # o
        /\ o \notin todo /\ \A p \in Threads : local[p].object # o
    BY <1>1, ThreadsAssumption DEF Unused, StoredObjects, Stored
  <1>9. Held'
    <2>1. /\ \A m \in Ids : Stored(m)' => object'[store'[m]].id = m
          /\ \A x \in todo' : object'[x].id \in Ids
      BY <1>2, <1>4, <1>8 DEF Basic, TypeOK, Held, Stored, ObjectsKeep
    <2>2. ASSUME NEW p \in Clients, local'[p].object # None
          PROVE  object'[local'[p].object].id = local'[p].id
      <3>1. CASE p = w
        BY <1>3, <1>4, <1>5, <3>1
      <3>2. CASE p # w
        <4>1. local'[p] = local[p] /\ local[p].object \in Objects /\ local[p].object # o
          BY <1>5, <1>8, <2>2, <3>2, ThreadKinds DEF OthersKeep, Basic, TypeOK, Local
        <4> QED  BY <1>4, <2>2, <4>1 DEF Basic, Held, ObjectsKeep
      <3> QED  BY <3>1, <3>2
    <2>3. ASSUME At("tick", "retire")'
          PROVE  local'["tick"].object # None /\ object'[local'["tick"].object].id \in Ids
      <3>1. local'["tick"] = local["tick"]
        BY <1>5, ThreadKinds DEF OthersKeep, Clients
      <3>2. local["tick"].object \in Objects /\ local["tick"].object # o
        BY <1>8, <2>3, <3>1, ThreadKinds DEF Basic, TypeOK, Local, Held, At
      <3> QED  BY <1>4, <2>3, <3>1, <3>2 DEF Basic, Held, ObjectsKeep, At
    <2> QED  BY <2>1, <2>2, <2>3 DEF Held
  <1>10. Roles'
    <2>1. /\ \A t \in Timers : timer'[t] = timer[t] \/ (timer[t].phase = "waiting" /\ timer'[t] = NoTimer)
      BY <1>6 DEF TimersBut
    <2>2. \A p \in Threads : p # w => local'[p] = local[p]
      BY <1>5 DEF OthersKeep
    <2>3. \A t \in Timers : t \in Threads /\ t # w
      BY ThreadKinds DEF Clients
    <2>4. w \in Clients /\ Clients \subseteq Threads /\ "tick" \in Threads /\ w # "tick" /\ None # o
      BY <1>1, ThreadKinds, ThreadsAssumption DEF Clients
    <2> QED  BY <1>5, <2>1, <2>2, <2>3, <2>4 DEF Roles, Basic, At, HandlerPcs, NoTimer, Clients
  <1> QED  BY <1>1, <1>2, <1>3, <1>4, <1>5, <1>6, <1>7, <1>9, <1>10 DEF Basic

\* Every other step leaves the ids in the objects alone.
IdsKeep == \A o \in Objects : object'[o].id = object[o].id

LEMMA HeldFrom ==
  ASSUME Basic, TypeOK', NEW p \in Threads, OthersKeep(p), IdsKeep,
         \A n \in Ids : \/ store'[n] \in {store[n], None}
                        \/ p \in Clients /\ n = local[p].id /\ store'[n] = local[p].object,
         \A o \in todo' : o \in todo \cup StoredObjects,
         p \in Clients => \/ local'[p].object = None
                          \/ /\ local'[p].object = local[p].object
                             /\ local'[p].id = local[p].id
                          \/ local'[p].id \in Ids /\ local'[p].object = store[local'[p].id],
         p = "tick" /\ local'[p].pc = "retire" => local'[p].object \in todo
  PROVE  Held'
  <1> USE DEF Basic
  <1>1. Held /\ TypeOK
    OBVIOUS
  <1>2. ASSUME NEW n \in Ids, store'[n] # None
        PROVE  object'[store'[n]].id = n
    <2>1. store'[n] \in Objects
      BY <1>2 DEF TypeOK
    <2>2. CASE store'[n] = store[n]
      BY <1>1, <1>2, <2>1, <2>2 DEF Held, Stored, IdsKeep
    <2>3. CASE p \in Clients /\ n = local[p].id /\ store'[n] = local[p].object
      BY <1>1, <1>2, <2>1, <2>3 DEF Held, IdsKeep
    <2> QED  BY <1>2, <2>2, <2>3
  <1>3. \A o \in todo' : object'[o].id \in Ids
    <2>1. \A o \in StoredObjects : object[o].id \in Ids
      BY <1>1 DEF Held, StoredObjects, Stored
    <2> QED  BY <1>1, <2>1 DEF Held, IdsKeep, TypeOK
  <1>4. ASSUME NEW q \in Clients, local'[q].object # None
        PROVE  object'[local'[q].object].id = local'[q].id
    <2>1. q \in Threads /\ local'[q].object \in Objects
      BY <1>4, ThreadKinds DEF TypeOK, Local
    <2>2. CASE q # p
      BY <1>1, <1>4, <2>1, <2>2 DEF Held, OthersKeep, IdsKeep
    <2>3. CASE q = p
      BY <1>1, <1>4, <2>1, <2>3 DEF Held, IdsKeep, Stored
    <2> QED  BY <2>2, <2>3
  <1>5. ASSUME local'["tick"].pc = "retire"
        PROVE  local'["tick"].object # None /\ object'[local'["tick"].object].id \in Ids
    <2>1. CASE p = "tick"
      BY <1>1, <1>5, <2>1, ThreadsAssumption DEF Held, IdsKeep, TypeOK
    <2>2. CASE p # "tick"
      <3>1. local'["tick"] = local["tick"] /\ local["tick"] \in Local
        BY <2>2, ThreadKinds DEF OthersKeep, TypeOK
      <3> QED  BY <1>1, <1>5, <3>1 DEF Held, At, IdsKeep, Local
    <2> QED  BY <2>1, <2>2
  <1> QED  BY <1>2, <1>3, <1>4, <1>5 DEF Held, Stored, At

Holding == {"upsert", "snooze", "until", "read", "arm", "waken", "clear"}

LEMMA RolesFrom ==
  ASSUME Basic, TypeOK', NEW p \in Threads, OthersKeep(p),
         p \in Workers => local'[p].pc \in {"idle"} \cup HandlerPcs,
         p \in Timers => local'[p].pc \in {"idle", "wake", "waken", "clear"},
         p = "tick" => local'[p].pc \in {"idle", "expire", "retire", "delete"},
         p \in Clients /\ local'[p].pc # "idle" => local'[p].id \in Ids,
         p \in Clients /\ local'[p].pc \in Holding => local'[p].object # None,
         p \in Timers => /\ timer'[p].phase = "firing" <=> local'[p].pc # "idle"
                         /\ local'[p].pc # "idle" => local'[p].id = timer'[p].id,
         \A t \in Timers :
           /\ t # p => /\ timer'[t].phase = "firing" <=> timer[t].phase = "firing"
                       /\ timer'[t].phase = "firing" => timer'[t].id = timer[t].id
           /\ timer'[t].phase # "free" => timer'[t].id \in Ids
  PROVE  Roles'
  <1> USE DEF Basic
  <1>1. Roles
    OBVIOUS
  <1>2. \A q \in Threads : q # p => local'[q] = local[q]
    BY DEF OthersKeep
  <1>3. Clients \subseteq Threads /\ Workers \subseteq Threads /\ Timers \subseteq Threads
        /\ "tick" \in Threads
    BY DEF Clients, Threads
  <1>4. /\ \A w \in Workers : local'[w].pc \in {"idle"} \cup HandlerPcs
        /\ \A t \in Timers : local'[t].pc \in {"idle", "wake", "waken", "clear"}
        /\ local'["tick"].pc \in {"idle", "expire", "retire", "delete"}
    BY <1>1, <1>2, <1>3 DEF Roles
  <1>5. /\ \A q \in Clients : local'[q].pc # "idle" => local'[q].id \in Ids
        /\ \A q \in Clients : local'[q].pc \in Holding => local'[q].object # None
    BY <1>1, <1>2, <1>3 DEF Roles, At, Holding
  <1>6. ASSUME NEW t \in Timers
        PROVE  /\ timer'[t].phase = "firing" <=> local'[t].pc # "idle"
               /\ local'[t].pc # "idle" => local'[t].id = timer'[t].id
    <2>1. CASE t # p
      <3>1. local'[t] = local[t]
        BY <1>2, <1>3, <2>1
      <3>2. /\ timer[t].phase = "firing" <=> local[t].pc # "idle"
            /\ local[t].pc # "idle" => local[t].id = timer[t].id
        BY <1>1 DEF Roles, At
      <3> QED  BY <2>1, <3>1, <3>2
    <2>2. CASE t = p
      BY <2>2
    <2> QED  BY <2>1, <2>2
  <1> QED  BY <1>4, <1>5, <1>6 DEF Roles, At, Holding

\* No timer begins or ends its callback.
FiringKept ==
  \A t \in Timers :
    /\ timer'[t].phase = "firing" <=> timer[t].phase = "firing"
    /\ timer'[t].phase = "firing" => timer'[t].id = timer[t].id
    /\ timer'[t].phase # "free" => timer'[t].id \in Ids

\* A step that leaves the timers alone, or at most cancels one.
LEMMA TimersCalm ==
  ASSUME Basic,
         \/ UNCHANGED timer
         \/ \E n \in Ids : TimersBut(n)
  PROVE  FiringKept
  BY DEF TimersBut, NoTimer, Basic, Roles, FiringKept

\* What the scheduler promises lasts when it does nothing.
LEMMA SchedulerRests ==
  ASSUME Basic, UNCHANGED <<now, table, timer>>
  PROVE  SchedulerTypeOK' /\ ListedTimersFire' /\ FiringKept
  BY TimersCalm DEF Basic, TypeOK, SchedulerTypeOK, ListedTimersFire

\* A worker's step.
LEMMA WorkerBasic ==
  ASSUME Basic, met' \in BOOLEAN, NEW w \in Workers, OthersKeep(w), IdsKeep,
         SchedulerTypeOK', ListedTimersFire', FiringKept, UNCHANGED todo,
         store' \in [Ids -> Objects \cup {None}], object' \in [Objects -> Object],
         local' \in [Threads -> Local],
         \A n \in Ids : \/ store'[n] = store[n]
                        \/ n = local[w].id /\ store'[n] = local[w].object,
         \/ local'[w].pc = "idle" /\ local'[w].object = None
         \/ /\ local'[w].pc \in HandlerPcs /\ local'[w].id \in Ids
            /\ local'[w].pc \in Holding => local'[w].object # None
            /\ \/ local'[w].object = None
               \/ local'[w].object = local[w].object /\ local'[w].id = local[w].id
               \/ local'[w].object = store[local'[w].id]
  PROVE  Basic'
  <1>1. w \in Threads /\ w \in Clients /\ w \notin Timers /\ w # "tick"
    BY ThreadsAssumption DEF Threads, Clients
  <1>2. TypeOK'
    BY DEF Basic, TypeOK
  <1>3. Held'
    BY <1>1, <1>2, HeldFrom
  <1>4. Roles'
    <2>1. "idle" \notin HandlerPcs /\ "idle" \notin Holding
      BY DEF HandlerPcs, Holding
    <2> QED  BY <1>1, <1>2, <2>1, RolesFrom DEF FiringKept
  <1> QED  BY <1>2, <1>3, <1>4 DEF Basic

\* What a thread at work holds.
LEMMA Hands ==
  ASSUME Basic, NEW p \in Clients
  PROVE  /\ p \in Threads /\ local[p].due \in Nat
         /\ ~At(p, "idle") => local[p].id \in Ids
         /\ local[p].pc \in Holding =>
              local[p].object \in Objects /\ object[local[p].object].id = local[p].id
  <1>1. local[p] \in Local /\ p \in Threads
    BY ThreadKinds DEF Basic, TypeOK
  <1> QED  BY <1>1 DEF Basic, Roles, Held, Holding, Local

LEMMA SetUpsertStep ==
  ASSUME Basic, met' \in BOOLEAN, NEW w \in Workers, SetUpsert(w)
  PROVE  /\ Basic'
         /\ UNCHANGED <<now, table, timer, todo>> /\ OthersKeep(w)
         /\ At(w, "upsert") /\ local'[w].pc = "idle"
         /\ local[w].object \in Objects /\ object'[local[w].object].state = "ACTIVE"
         /\ ObjectsKeep(local[w].object) /\ IdsKeep
         /\ local[w].id \in Ids /\ store'[local[w].id] = local[w].object
         /\ \A m \in Ids : m # local[w].id => store'[m] = store[m]
  <1> DEFINE o == local[w].object
             n == local[w].id
  <1>1. At(w, "upsert") /\ w \in Clients /\ w \in Threads
    BY ThreadKinds DEF SetUpsert, Clients
  <1>2. o \in Objects /\ n \in Ids
    BY <1>1, Hands DEF At, Holding
  <1>3. /\ object' = [object EXCEPT ![o].state = "ACTIVE"] /\ store' = [store EXCEPT ![n] = o]
        /\ Return(w) /\ UNCHANGED <<now, table, timer, todo>>
    BY DEF SetUpsert
  <1> HIDE DEF o, n
  <1>4. /\ object' \in [Objects -> Object] /\ ObjectsKeep(o) /\ object'[o].state = "ACTIVE"
        /\ object'[o].id = object[o].id
    BY <1>2, <1>3, StateSet DEF Basic, ObjectStates
  <1>5. IdsKeep
    BY <1>4 DEF IdsKeep, ObjectsKeep
  <1>6. /\ store' \in [Ids -> Objects \cup {None}] /\ store'[n] = o
        /\ \A m \in Ids : m # n => store'[m] = store[m]
    BY <1>2, <1>3, StoreSet DEF Basic
  <1>7. /\ local' \in [Threads -> Local] /\ OthersKeep(w) /\ local'[w].pc = "idle"
        /\ local'[w].object = None
    BY <1>1, <1>3, ReturnFields DEF Basic
  <1>8. Basic'
    BY <1>3, <1>4, <1>5, <1>6, <1>7, WorkerBasic, SchedulerRests DEF n, o
  <1> QED  BY <1>1, <1>2, <1>3, <1>4, <1>5, <1>6, <1>7, <1>8 DEF n, o

\* Steps that only look, and decide what is next.
LEMMA CheckStep ==
  ASSUME Basic, met' \in BOOLEAN, NEW w \in Workers,
         \/ \E n \in Ids : RemoveCheck(w, n)
         \/ \E n \in Ids, d \in Durations : SnoozeCheck(w, n, d)
  PROVE  /\ Basic'
         /\ UNCHANGED <<now, table, timer, store, object, todo>> /\ OthersKeep(w)
         /\ At(w, "idle") /\ local'[w].pc \in {"cancel", "snooze"}
  <1>1. w \in Clients /\ w \in Threads
    BY ThreadKinds DEF Clients
  <1>2. /\ UNCHANGED <<now, table, timer, store, object, todo>> /\ At(w, "idle")
    BY DEF RemoveCheck, SnoozeCheck, shared
  <1>3. /\ local' \in [Threads -> Local] /\ OthersKeep(w)
        /\ \/ local'[w].pc = "cancel" /\ local'[w].id \in Ids /\ local'[w].object = None
           \/ /\ local'[w].pc = "snooze" /\ local'[w].id \in Ids
              /\ local'[w].object = store[local'[w].id] /\ local'[w].object # None
    <2>1. ASSUME NEW n \in Ids, RemoveCheck(w, n)
          PROVE  /\ local' \in [Threads -> Local] /\ OthersKeep(w)
                 /\ local'[w].pc = "cancel" /\ local'[w].id \in Ids /\ local'[w].object = None
      <3>1. Begin(w, "cancel", n, None, 0)
        BY <2>1 DEF RemoveCheck
      <3> QED  BY <1>1, <3>1, BeginFields DEF Basic, Pcs
    <2>2. ASSUME NEW n \in Ids, NEW d \in Durations, SnoozeCheck(w, n, d)
          PROVE  /\ local' \in [Threads -> Local] /\ OthersKeep(w)
                 /\ local'[w].pc = "snooze" /\ local'[w].id \in Ids
                 /\ local'[w].object = store[local'[w].id] /\ local'[w].object # None
      <3>1. /\ Begin(w, "snooze", n, store[n], d) /\ store[n] # None
            /\ store[n] \in Objects \cup {None}
        BY <2>2 DEF SnoozeCheck, Stored, Basic, TypeOK
      <3>2. d \in Nat
        BY ThreadsAssumption
      <3> QED  BY <1>1, <3>1, <3>2, BeginFields DEF Basic, Pcs
    <2> QED  BY <2>1, <2>2
  <1>4. IdsKeep /\ store \in [Ids -> Objects \cup {None}] /\ object \in [Objects -> Object]
    BY <1>2 DEF IdsKeep, Basic, TypeOK
  <1>5. local'[w].pc \in HandlerPcs /\ (local'[w].pc \in Holding => local'[w].object # None)
    BY <1>3 DEF HandlerPcs, Holding
  <1>6. Basic'
    BY <1>2, <1>3, <1>4, <1>5, WorkerBasic, SchedulerRests
  <1> QED  BY <1>2, <1>3, <1>6

LEMMA RemoveCancelStep ==
  ASSUME Basic, met' \in BOOLEAN, NEW w \in Workers, RemoveCancel(w)
  PROVE  /\ Basic'
         /\ UNCHANGED <<now, store, object, todo>> /\ OthersKeep(w)
         /\ At(w, "cancel") /\ local'[w].pc = "dismiss" /\ local'[w].id = local[w].id
         /\ local[w].id \in Ids /\ TimersBut(local[w].id)
  <1>1. w \in Clients /\ w \in Threads
    BY ThreadKinds DEF Clients
  <1>2. /\ UNCHANGED <<now, store, object, todo>> /\ At(w, "cancel") /\ Goto(w, "dismiss")
        /\ Cancel({local[w].id})
    BY DEF RemoveCancel
  <1>3. local[w].id \in Ids
    BY <1>1, <1>2, Hands DEF At
  <1>4. /\ local' \in [Threads -> Local] /\ OthersKeep(w) /\ local'[w].pc = "dismiss"
        /\ local'[w].id = local[w].id /\ local'[w].object = local[w].object
    BY <1>1, <1>2, GotoFields DEF Basic, Pcs
  <1>5. SchedulerTypeOK' /\ ListedTimersFire' /\ TimersBut(local[w].id)
    BY <1>2, <1>3, CancelFields DEF TimersBut
  <1>6. FiringKept
    BY <1>3, <1>5, TimersCalm
  <1>7. IdsKeep /\ store \in [Ids -> Objects \cup {None}] /\ object \in [Objects -> Object]
    BY <1>2 DEF IdsKeep, Basic, TypeOK
  <1>8. Basic'
    BY <1>2, <1>3, <1>4, <1>5, <1>6, <1>7, WorkerBasic DEF HandlerPcs, Holding
  <1> QED  BY <1>2, <1>3, <1>4, <1>5, <1>8

LEMMA RemoveDismissStep ==
  ASSUME Basic, met' \in BOOLEAN, NEW w \in Workers, RemoveDismiss(w)
  PROVE  /\ Basic'
         /\ UNCHANGED <<now, table, timer, store, todo>> /\ OthersKeep(w) /\ IdsKeep
         /\ At(w, "dismiss") /\ local'[w].pc = "idle" /\ local[w].id \in Ids
         /\ IF Stored(local[w].id)
            THEN /\ object'[store[local[w].id]].state = "DISMISSED"
                 /\ ObjectsKeep(store[local[w].id])
            ELSE object' = object
  <1> DEFINE n == local[w].id
             o == store[n]
  <1>1. w \in Clients /\ w \in Threads
    BY ThreadKinds DEF Clients
  <1>2. /\ UNCHANGED <<now, table, timer, store, todo>> /\ At(w, "dismiss") /\ Return(w)
        /\ object' = IF Stored(n)
                     THEN [object EXCEPT ![o].state = "DISMISSED", ![o].updated_at = now]
                     ELSE object
    BY DEF RemoveDismiss
  <1>3. n \in Ids
    BY <1>1, <1>2, Hands DEF At
  <1>4. /\ local' \in [Threads -> Local] /\ OthersKeep(w) /\ local'[w].pc = "idle"
        /\ local'[w].object = None
    BY <1>1, <1>2, ReturnFields DEF Basic
  <1>5. Stored(n) => o \in Objects
    BY <1>3 DEF Stored, Basic, TypeOK
  <1>6. TypeOK /\ store \in [Ids -> Objects \cup {None}]
    BY DEF Basic, TypeOK
  <1> HIDE DEF n, o
  <1>7. CASE Stored(n)
    <2>1. object' = [object EXCEPT ![o].state = "DISMISSED", ![o].updated_at = now]
      BY <1>2, <1>7
    <2>2. /\ object' \in [Objects -> Object] /\ ObjectsKeep(o)
          /\ object'[o].state = "DISMISSED" /\ object'[o].id = object[o].id
      BY <1>5, <1>6, <1>7, <2>1, StateSet DEF ObjectStates
    <2>3. IdsKeep
      BY <2>2 DEF IdsKeep, ObjectsKeep
    <2>4. Basic'
      BY <1>2, <1>4, <1>6, <2>2, <2>3, WorkerBasic, SchedulerRests
    <2> QED  BY <1>2, <1>3, <1>4, <1>7, <2>2, <2>3, <2>4 DEF n, o
  <1>8. CASE ~Stored(n)
    <2>1. object' = object /\ object' \in [Objects -> Object] /\ IdsKeep
      BY <1>2, <1>6, <1>8 DEF IdsKeep, TypeOK
    <2>2. Basic'
      BY <1>2, <1>4, <1>6, <2>1, WorkerBasic, SchedulerRests
    <2> QED  BY <1>2, <1>3, <1>4, <1>8, <2>1, <2>2 DEF n
  <1> QED  BY <1>7, <1>8

LEMMA SnoozeStateStep ==
  ASSUME Basic, met' \in BOOLEAN, NEW w \in Workers, SnoozeState(w)
  PROVE  /\ Basic'
         /\ UNCHANGED <<now, table, timer, store, todo>> /\ OthersKeep(w) /\ IdsKeep
         /\ At(w, "snooze") /\ local'[w].pc = "until" /\ local'[w].id = local[w].id
         /\ local[w].object \in Objects /\ object[local[w].object].id = local[w].id
         /\ ObjectsKeep(local[w].object)
  <1> DEFINE r == local[w]
             due == now + r.due
             s == [r EXCEPT !.pc = "until", !.due = due]
  <1>1. w \in Clients /\ w \in Threads /\ r \in Local
    BY ThreadKinds DEF Clients, Basic, TypeOK
  <1>2. /\ UNCHANGED <<now, table, timer, store, todo>> /\ At(w, "snooze")
        /\ object' = [object EXCEPT ![local[w].object].state = "SNOOZED"]
        /\ local' = [local EXCEPT ![w] = s]
    BY <1>1 DEF SnoozeState, Basic, TypeOK
  <1>3. /\ local[w].object \in Objects /\ object[local[w].object].id = local[w].id
        /\ local[w].id \in Ids
    BY <1>1, <1>2, Hands DEF At, Holding
  <1>4. due \in Nat
    BY <1>1 DEF Basic, TypeOK, SchedulerTypeOK, Local
  <1> HIDE DEF r, due
  <1>5. s \in Local /\ s.pc = "until" /\ s.id = r.id /\ s.object = r.object
    BY <1>1, <1>4 DEF Local, Pcs
  <1> HIDE DEF s
  <1>6. /\ local' \in [Threads -> Local] /\ OthersKeep(w) /\ local'[w].pc = "until"
        /\ local'[w].id = local[w].id /\ local'[w].object = local[w].object
    BY <1>1, <1>2, <1>5, LocalSet DEF Basic, r
  <1>7. /\ object' \in [Objects -> Object] /\ ObjectsKeep(local[w].object)
        /\ object'[local[w].object].id = object[local[w].object].id
    BY <1>2, <1>3, StateSet DEF Basic, ObjectStates
  <1>8. IdsKeep
    BY <1>7 DEF IdsKeep, ObjectsKeep
  <1>9. store \in [Ids -> Objects \cup {None}] /\ local[w].object # None
    BY <1>3, ThreadsAssumption DEF Basic, TypeOK
  <1>10. Basic'
    BY <1>2, <1>3, <1>6, <1>7, <1>8, <1>9, WorkerBasic, SchedulerRests DEF HandlerPcs
  <1> QED  BY <1>2, <1>3, <1>6, <1>7, <1>8, <1>10

LEMMA SnoozeUntilStep ==
  ASSUME Basic, met' \in BOOLEAN, NEW w \in Workers, SnoozeUntil(w)
  PROVE  /\ Basic'
         /\ UNCHANGED <<now, table, timer, todo>> /\ OthersKeep(w) /\ IdsKeep
         /\ At(w, "until") /\ local'[w].pc = "read" /\ local'[w].id = local[w].id
         /\ local'[w].object = local[w].object /\ local'[w].due = local[w].due
         /\ local[w].object \in Objects /\ object[local[w].object].id = local[w].id
         /\ object'[local[w].object].renotify_at = local[w].due
         /\ ObjectsKeep(local[w].object)
         /\ local[w].id \in Ids /\ store'[local[w].id] = local[w].object
         /\ \A m \in Ids : m # local[w].id => store'[m] = store[m]
  <1> DEFINE o == local[w].object
             n == local[w].id
             due == local[w].due
  <1>1. w \in Clients /\ w \in Threads
    BY ThreadKinds DEF Clients
  <1>2. /\ UNCHANGED <<now, table, timer, todo>> /\ At(w, "until") /\ Goto(w, "read")
        /\ object' = [object EXCEPT ![o].renotify_at = due, ![o].updated_at = now]
        /\ store' = [store EXCEPT ![n] = o]
    BY DEF SnoozeUntil
  <1>3. o \in Objects /\ object[o].id = n /\ n \in Ids /\ due \in Nat
    BY <1>1, <1>2, Hands DEF At, Holding
  <1>4. /\ local' \in [Threads -> Local] /\ OthersKeep(w) /\ local'[w].pc = "read"
        /\ local'[w].id = n /\ local'[w].object = o /\ local'[w].due = due
    BY <1>1, <1>2, GotoFields DEF Basic, Pcs
  <1> HIDE DEF o, n, due
  <1>5. /\ object' \in [Objects -> Object] /\ ObjectsKeep(o) /\ object'[o].id = object[o].id
        /\ object'[o].renotify_at = due
    BY <1>2, <1>3, UntilSet DEF Basic
  <1>6. IdsKeep
    BY <1>5 DEF IdsKeep, ObjectsKeep
  <1>7. /\ store' \in [Ids -> Objects \cup {None}] /\ store'[n] = o
        /\ \A m \in Ids : m # n => store'[m] = store[m]
    BY <1>2, <1>3, StoreSet DEF Basic
  <1>8. Basic'
    <2>1. o # None
      BY <1>3, ThreadsAssumption
    <2> QED  BY <1>2, <1>3, <1>4, <1>5, <1>6, <1>7, <2>1, WorkerBasic, SchedulerRests
             DEF HandlerPcs, o, n
  <1> QED  BY <1>2, <1>3, <1>4, <1>5, <1>6, <1>7, <1>8 DEF o, n, due

LEMMA SnoozeReadStep ==
  ASSUME Basic, met' \in BOOLEAN, NEW w \in Workers, SnoozeRead(w)
  PROVE  /\ Basic'
         /\ UNCHANGED <<now, table, timer, store, object, todo>> /\ OthersKeep(w)
         /\ At(w, "read")
         /\ IF object[local[w].object].renotify_at = None
            THEN local'[w].pc = "idle"
            ELSE /\ local'[w].pc = "arm" /\ local'[w].id = local[w].id
                 /\ local'[w].object = local[w].object
                 /\ local'[w].due = object[local[w].object].renotify_at
  <1> DEFINE r == local[w]
             until == object[local[w].object].renotify_at
             s == [r EXCEPT !.pc = "arm", !.due = until]
  <1>1. w \in Clients /\ w \in Threads /\ r \in Local
    BY ThreadKinds DEF Clients, Basic, TypeOK
  <1>2. /\ UNCHANGED <<now, table, timer, store, object, todo>> /\ At(w, "read")
    BY DEF SnoozeRead, shared
  <1>3. IF until = None THEN Return(w) ELSE local' = [local EXCEPT ![w] = s]
    BY <1>1 DEF SnoozeRead, Readable, Basic, TypeOK
  <1>4. local[w].object \in Objects /\ local[w].id \in Ids
    BY <1>1, <1>2, Hands DEF At, Holding
  <1>5. until \in Nat \cup {None}
    BY <1>4 DEF Basic, TypeOK, Object
  <1>6. /\ IdsKeep /\ store \in [Ids -> Objects \cup {None}] /\ object \in [Objects -> Object]
        /\ local[w].object # None
    BY <1>2, <1>4, ThreadsAssumption DEF IdsKeep, Basic, TypeOK
  <1> HIDE DEF r, until
  <1>7. CASE until = None
    <2>1. /\ local' \in [Threads -> Local] /\ OthersKeep(w) /\ local'[w].pc = "idle"
          /\ local'[w].object = None
      BY <1>1, <1>3, <1>7, ReturnFields DEF Basic
    <2>2. Basic'
      BY <1>2, <1>6, <2>1, WorkerBasic, SchedulerRests
    <2> QED  BY <1>2, <1>7, <2>1, <2>2 DEF until
  <1>8. CASE until # None
    <2>1. s \in Local /\ s.pc = "arm" /\ s.id = r.id /\ s.object = r.object /\ s.due = until
      BY <1>1, <1>5, <1>8 DEF Local, Pcs
    <2> HIDE DEF s
    <2>2. /\ local' \in [Threads -> Local] /\ OthersKeep(w) /\ local'[w].pc = "arm"
          /\ local'[w].id = local[w].id /\ local'[w].object = local[w].object
          /\ local'[w].due = until
      BY <1>1, <1>3, <1>8, <2>1, LocalSet DEF Basic, r
    <2>3. Basic'
      BY <1>2, <1>4, <1>6, <2>2, WorkerBasic, SchedulerRests DEF HandlerPcs
    <2> QED  BY <1>2, <1>8, <2>2, <2>3 DEF until
  <1> QED  BY <1>7, <1>8

\* The timer that is armed is the only one waiting for the id afterwards, but
\* for those the table no longer had.
LEMMA SnoozeArmStep ==
  ASSUME Basic, met' \in BOOLEAN, NEW w \in Workers, SnoozeArm(w)
  PROVE  /\ Basic'
         /\ UNCHANGED <<now, store, object, todo>> /\ OthersKeep(w)
         /\ At(w, "arm") /\ local'[w].pc = "idle" /\ local[w].id \in Ids
         /\ \E t \in Timers :
              /\ table' = [table EXCEPT ![local[w].id] = t]
              /\ timer[t].phase = "free" \/ (timer[t].phase = "waiting" /\ table[local[w].id] = t)
              /\ timer'[t] = [id |-> local[w].id, due |-> local[w].due, phase |-> "waiting"]
              /\ \A u \in Timers : u # t =>
                   IF table[local[w].id] = u /\ timer[u].phase = "waiting"
                   THEN timer'[u] = NoTimer ELSE timer'[u] = timer[u]
  <1> DEFINE n == local[w].id
             due == local[w].due
  <1>1. w \in Clients /\ w \in Threads
    BY ThreadKinds DEF Clients
  <1>2. /\ UNCHANGED <<now, store, object, todo>> /\ At(w, "arm") /\ Return(w) /\ Arm(n, due)
    BY DEF SnoozeArm
  <1>3. n \in Ids /\ due \in Nat
    BY <1>1, <1>2, Hands DEF At
  <1>4. /\ local' \in [Threads -> Local] /\ OthersKeep(w) /\ local'[w].pc = "idle"
        /\ local'[w].object = None
    BY <1>1, <1>2, ReturnFields DEF Basic
  <1> HIDE DEF n, due
  <1>5. SchedulerTypeOK' /\ ListedTimersFire'
    BY <1>2, <1>3, ArmFields
  <1>6. PICK t \in Timers :
              /\ table' = [table EXCEPT ![n] = t]
              /\ timer[t].phase = "free" \/ (timer[t].phase = "waiting" /\ table[n] = t)
              /\ timer'[t] = [id |-> n, due |-> due, phase |-> "waiting"]
              /\ \A u \in Timers : u # t =>
                   IF table[n] = u /\ timer[u].phase = "waiting" THEN timer'[u] = NoTimer
                                                                ELSE timer'[u] = timer[u]
    BY <1>2, <1>3, ArmFields
  <1>7. FiringKept
    <2>1. timer[t].phase # "firing" /\ timer'[t].phase = "waiting" /\ timer'[t].id = n
      BY <1>6
    <2>2. ASSUME NEW u \in Timers, u # t
          PROVE  \/ timer'[u] = timer[u]
                 \/ timer[u].phase = "waiting" /\ timer'[u].phase = "free"
      <3>1. IF table[n] = u /\ timer[u].phase = "waiting" THEN timer'[u] = NoTimer
                                                          ELSE timer'[u] = timer[u]
        BY <1>6, <2>2
      <3> QED  BY <3>1 DEF NoTimer
    <2> QED  BY <1>3, <2>1, <2>2 DEF FiringKept, Basic, Roles
  <1>8. IdsKeep /\ store \in [Ids -> Objects \cup {None}] /\ object \in [Objects -> Object]
    BY <1>2 DEF IdsKeep, Basic, TypeOK
  <1>9. Basic'
    BY <1>2, <1>4, <1>5, <1>7, <1>8, WorkerBasic
  <1> QED  BY <1>2, <1>3, <1>4, <1>6, <1>9 DEF n, due

\* A timer thread's step.
LEMMA TimerBasic ==
  ASSUME Basic, met' \in BOOLEAN, NEW t \in Timers, OthersKeep(t), IdsKeep,
         SchedulerTypeOK', ListedTimersFire', UNCHANGED todo,
         store' \in [Ids -> Objects \cup {None}], object' \in [Objects -> Object],
         local' \in [Threads -> Local],
         \A u \in Timers : u # t => timer'[u] = timer[u],
         \A n \in Ids : \/ store'[n] = store[n]
                        \/ n = local[t].id /\ store'[n] = local[t].object,
         timer'[t].phase # "free" => timer'[t].id \in Ids,
         \/ /\ local'[t].pc = "idle" /\ timer'[t].phase # "firing"
            /\ local'[t].object = None \/ local' = local
         \/ /\ local'[t].pc \in {"wake", "waken", "clear"} /\ timer'[t].phase = "firing"
            /\ local'[t].id \in Ids /\ local'[t].id = timer'[t].id
            /\ local'[t].pc # "wake" => local'[t].object # None
            /\ \/ local'[t].object = None
               \/ local'[t].object = local[t].object /\ local'[t].id = local[t].id
               \/ local'[t].object = store[local'[t].id]
  PROVE  Basic'
  <1>1. t \in Threads /\ t \in Clients /\ t \notin Workers /\ t # "tick"
    BY ThreadsAssumption DEF Threads, Clients
  <1>2. TypeOK'
    BY DEF Basic, TypeOK
  <1>3. Held'
    BY <1>1, <1>2, HeldFrom
  <1>4. \A u \in Timers : timer'[u].phase # "free" => timer'[u].id \in Ids
    BY DEF Basic, Roles
  <1>5. Roles'
    BY <1>1, <1>2, <1>4, RolesFrom DEF Holding
  <1> QED  BY <1>2, <1>3, <1>5 DEF Basic

LEMMA CommitStep ==
  ASSUME Basic, met' \in BOOLEAN, NEW t \in Timers, TimerCommit(t)
  PROVE  /\ Basic'
         /\ UNCHANGED <<now, table, store, object, local, todo>>
         /\ timer[t].phase = "waiting" /\ timer[t].due <= now /\ timer[t].id \in Ids
         /\ timer'[t].phase = "committed" /\ timer'[t].id = timer[t].id
         /\ \A u \in Timers : u # t => timer'[u] = timer[u]
  <1>1. /\ UNCHANGED <<now, table, store, object, local, todo>>
        /\ timer[t].phase = "waiting" /\ timer[t].due <= now
        /\ timer' = [timer EXCEPT ![t].phase = "committed"]
    BY DEF TimerCommit, Commit
  <1>2. SchedulerTypeOK' /\ ListedTimersFire'
    BY CommitSound DEF TimerCommit, Basic, TypeOK, Sound
  <1>3. /\ timer'[t].phase = "committed" /\ timer'[t].id = timer[t].id
        /\ \A u \in Timers : u # t => timer'[u] = timer[u]
    BY <1>1, PhaseFields DEF Phases
  <1>4. timer[t].id \in Ids /\ local[t].pc = "idle"
    BY <1>1 DEF Basic, Roles, At
  <1>5. /\ OthersKeep(t) /\ IdsKeep
        /\ store' \in [Ids -> Objects \cup {None}] /\ object' \in [Objects -> Object]
        /\ local' \in [Threads -> Local]
    BY <1>1 DEF OthersKeep, IdsKeep, Basic, TypeOK
  <1>6. Basic'
    BY <1>1, <1>2, <1>3, <1>4, <1>5, TimerBasic
  <1> QED  BY <1>1, <1>3, <1>4, <1>6

LEMMA FireStep ==
  ASSUME Basic, met' \in BOOLEAN, NEW t \in Timers, TimerFire(t)
  PROVE  /\ Basic'
         /\ UNCHANGED <<now, store, object, todo>> /\ OthersKeep(t)
         /\ timer[t].phase = "committed" /\ timer[t].id \in Ids
         /\ timer'[t].phase = "firing" /\ timer'[t].id = timer[t].id
         /\ \A u \in Timers : u # t => timer'[u] = timer[u]
         /\ table' = [table EXCEPT ![timer[t].id] = None]
         /\ local'[t].pc = "wake" /\ local'[t].id = timer[t].id
  <1>1. /\ UNCHANGED <<now, store, object, todo>> /\ timer[t].phase = "committed"
        /\ timer' = [timer EXCEPT ![t].phase = "firing"]
        /\ table' = [table EXCEPT ![timer[t].id] = None]
        /\ Begin(t, "wake", timer[t].id, None, 0)
    BY DEF TimerFire, Fire
  <1>2. SchedulerTypeOK' /\ ListedTimersFire'
    BY FireSound DEF TimerFire, Basic, TypeOK, Sound
  <1>3. /\ timer'[t].phase = "firing" /\ timer'[t].id = timer[t].id
        /\ \A u \in Timers : u # t => timer'[u] = timer[u]
    BY <1>1, PhaseFields DEF Phases
  <1>4. timer[t].id \in Ids /\ t \in Threads
    BY <1>1, ThreadKinds DEF Basic, Roles, Clients
  <1>5. /\ local' \in [Threads -> Local] /\ OthersKeep(t) /\ local'[t].pc = "wake"
        /\ local'[t].id = timer[t].id /\ local'[t].object = None
    BY <1>1, <1>4, BeginFields DEF Basic, Pcs
  <1>6. /\ IdsKeep
        /\ store' \in [Ids -> Objects \cup {None}] /\ object' \in [Objects -> Object]
    BY <1>1 DEF IdsKeep, Basic, TypeOK
  <1>7. Basic'
    BY <1>1, <1>2, <1>3, <1>4, <1>5, <1>6, TimerBasic
  <1> QED  BY <1>1, <1>3, <1>4, <1>5, <1>7

LEMMA FinishFields ==
  ASSUME Basic, NEW t \in Timers, Finish(t)
  PROVE  /\ SchedulerTypeOK' /\ ListedTimersFire' /\ UNCHANGED <<now, table>>
         /\ timer'[t] = NoTimer /\ \A u \in Timers : u # t => timer'[u] = timer[u]
  <1>1. SchedulerTypeOK' /\ ListedTimersFire'
    BY FinishSound DEF Basic, TypeOK, Sound
  <1> QED  BY <1>1 DEF Finish, Basic, TypeOK, SchedulerTypeOK

LEMMA WakeCheckStep ==
  ASSUME Basic, met' \in BOOLEAN, NEW t \in Timers, WakeCheck(t)
  PROVE  /\ Basic'
         /\ UNCHANGED <<now, table, store, object, todo>> /\ OthersKeep(t)
         /\ At(t, "wake") /\ local[t].id \in Ids
         /\ \A u \in Timers : u # t => timer'[u] = timer[u]
         /\ \/ /\ UNCHANGED timer /\ local'[t].pc = "waken"
               /\ local'[t].id = local[t].id /\ local'[t].object = store[local[t].id]
            \/ /\ ~Sleeps(local[t].id) /\ local'[t].pc = "idle" /\ timer'[t] = NoTimer
  <1> DEFINE n == local[t].id
  <1>1. t \in Clients /\ t \in Threads
    BY ThreadKinds DEF Clients
  <1>2. At(t, "wake") /\ UNCHANGED <<store, object, todo>>
    BY DEF WakeCheck
  <1>3. n \in Ids /\ timer[t].phase = "firing" /\ timer[t].id = n
    BY <1>1, <1>2, Hands DEF At, Basic, Roles
  <1>4. /\ IdsKeep
        /\ store' \in [Ids -> Objects \cup {None}] /\ object' \in [Objects -> Object]
    BY <1>2 DEF IdsKeep, Basic, TypeOK
  <1>5. CASE Stored(n) /\ Begin(t, "waken", n, store[n], 0) /\ UNCHANGED <<now, table, timer>>
    <2>1. store[n] \in Objects /\ store[n] # None
      BY <1>3, <1>5 DEF Stored, Basic, TypeOK
    <2>2. /\ local' \in [Threads -> Local] /\ OthersKeep(t) /\ local'[t].pc = "waken"
          /\ local'[t].id = n /\ local'[t].object = store[n]
      BY <1>1, <1>3, <1>5, <2>1, BeginFields DEF Basic, Pcs
    <2>3. SchedulerTypeOK' /\ ListedTimersFire'
      BY <1>5, SchedulerRests
    <2>4. Basic'
      BY <1>2, <1>3, <1>4, <1>5, <2>1, <2>2, <2>3, TimerBasic
    <2> QED  BY <1>2, <1>3, <1>5, <2>2, <2>4
  <1>6. CASE ~Sleeps(n) /\ Return(t) /\ Finish(t)
    <2>1. /\ local' \in [Threads -> Local] /\ OthersKeep(t) /\ local'[t].pc = "idle"
          /\ local'[t].object = None
      BY <1>1, <1>6, ReturnFields DEF Basic
    <2>2. /\ SchedulerTypeOK' /\ ListedTimersFire' /\ UNCHANGED <<now, table>>
          /\ timer'[t] = NoTimer /\ \A u \in Timers : u # t => timer'[u] = timer[u]
      BY <1>6, FinishFields
    <2>3. timer'[t].phase = "free"
      BY <2>2 DEF NoTimer
    <2>4. Basic'
      BY <1>2, <1>4, <2>1, <2>2, <2>3, TimerBasic
    <2> QED  BY <1>2, <1>3, <1>6, <2>1, <2>2, <2>4
  <1> QED  BY <1>5, <1>6 DEF WakeCheck, Sleeps

LEMMA WakeStateStep ==
  ASSUME Basic, met' \in BOOLEAN, NEW t \in Timers, WakeState(t)
  PROVE  /\ Basic'
         /\ UNCHANGED <<now, table, timer, store, todo>> /\ OthersKeep(t) /\ IdsKeep
         /\ At(t, "waken") /\ local'[t].pc = "clear" /\ local'[t].object = local[t].object
         /\ local[t].id \in Ids /\ timer[t].phase = "firing" /\ timer[t].id = local[t].id
         /\ local[t].object \in Objects /\ object[local[t].object].id = local[t].id
         /\ object'[local[t].object].state = "ACTIVE" /\ ObjectsKeep(local[t].object)
  <1> DEFINE n == local[t].id
             o == local[t].object
  <1>1. t \in Clients /\ t \in Threads
    BY ThreadKinds DEF Clients
  <1>2. /\ At(t, "waken") /\ UNCHANGED <<now, table, timer, store, todo>> /\ Goto(t, "clear")
        /\ object' = [object EXCEPT ![o].state = "ACTIVE"]
    BY DEF WakeState
  <1>3. /\ n \in Ids /\ timer[t].phase = "firing" /\ timer[t].id = n
        /\ o \in Objects /\ object[o].id = n
    BY <1>1, <1>2, Hands DEF At, Basic, Roles, Holding
  <1>4. /\ local' \in [Threads -> Local] /\ OthersKeep(t) /\ local'[t].pc = "clear"
        /\ local'[t].id = n /\ local'[t].object = o
    BY <1>1, <1>2, GotoFields DEF Basic, Pcs
  <1> HIDE DEF n, o
  <1>5. /\ object' \in [Objects -> Object] /\ ObjectsKeep(o) /\ object'[o].state = "ACTIVE"
        /\ object'[o].id = object[o].id
    BY <1>2, <1>3, StateSet DEF Basic, ObjectStates
  <1>6. IdsKeep
    BY <1>5 DEF IdsKeep, ObjectsKeep
  <1>7. store' \in [Ids -> Objects \cup {None}] /\ o # None
    BY <1>2, <1>3, ThreadsAssumption DEF Basic, TypeOK
  <1>8. SchedulerTypeOK' /\ ListedTimersFire'
    BY <1>2, SchedulerRests
  <1>9. Basic'
    BY <1>2, <1>3, <1>4, <1>5, <1>6, <1>7, <1>8, TimerBasic DEF n, o
  <1> QED  BY <1>2, <1>3, <1>4, <1>5, <1>6, <1>9 DEF n, o

LEMMA WakeClearStep ==
  ASSUME Basic, met' \in BOOLEAN, NEW t \in Timers, WakeClear(t)
  PROVE  /\ Basic'
         /\ UNCHANGED <<now, table, todo>> /\ OthersKeep(t) /\ IdsKeep
         /\ At(t, "clear") /\ local'[t].pc = "idle" /\ timer'[t] = NoTimer
         /\ \A u \in Timers : u # t => timer'[u] = timer[u]
         /\ local[t].object \in Objects /\ object[local[t].object].id = local[t].id
         /\ object'[local[t].object].state = object[local[t].object].state
         /\ ObjectsKeep(local[t].object)
         /\ local[t].id \in Ids /\ store'[local[t].id] = local[t].object
         /\ \A m \in Ids : m # local[t].id => store'[m] = store[m]
  <1> DEFINE n == local[t].id
             o == local[t].object
  <1>1. t \in Clients /\ t \in Threads
    BY ThreadKinds DEF Clients
  <1>2. /\ At(t, "clear") /\ UNCHANGED todo /\ Return(t) /\ Finish(t)
        /\ object' = [object EXCEPT ![o].renotify_at = None, ![o].updated_at = now]
        /\ store' = [store EXCEPT ![n] = o]
    BY DEF WakeClear
  <1>3. n \in Ids /\ o \in Objects /\ object[o].id = n
    BY <1>1, <1>2, Hands DEF At, Holding
  <1>4. /\ local' \in [Threads -> Local] /\ OthersKeep(t) /\ local'[t].pc = "idle"
        /\ local'[t].object = None
    BY <1>1, <1>2, ReturnFields DEF Basic
  <1> HIDE DEF n, o
  <1>5. /\ object' \in [Objects -> Object] /\ ObjectsKeep(o) /\ object'[o].state = object[o].state
        /\ object'[o].id = object[o].id
    BY <1>2, <1>3, UntilSet DEF Basic
  <1>6. IdsKeep
    BY <1>5 DEF IdsKeep, ObjectsKeep
  <1>7. /\ store' \in [Ids -> Objects \cup {None}] /\ store'[n] = o
        /\ \A m \in Ids : m # n => store'[m] = store[m]
    BY <1>2, <1>3, StoreSet DEF Basic
  <1>8. /\ SchedulerTypeOK' /\ ListedTimersFire' /\ UNCHANGED <<now, table>>
        /\ timer'[t] = NoTimer /\ \A u \in Timers : u # t => timer'[u] = timer[u]
    BY <1>2, FinishFields
  <1>9. timer'[t].phase = "free"
    BY <1>8 DEF NoTimer
  <1>10. Basic'
    BY <1>2, <1>4, <1>5, <1>6, <1>7, <1>8, <1>9, TimerBasic DEF n, o
  <1> QED  BY <1>2, <1>3, <1>4, <1>5, <1>6, <1>7, <1>8, <1>10 DEF n, o

\* A step of the plugin thread.
LEMMA TickBasic ==
  ASSUME Basic, met' \in BOOLEAN, OthersKeep("tick"), IdsKeep,
         SchedulerTypeOK', ListedTimersFire', FiringKept,
         store' \in [Ids -> Objects \cup {None}], object' \in [Objects -> Object],
         local' \in [Threads -> Local],
         \A n \in Ids : store'[n] \in {store[n], None},
         \A o \in todo' : o \in todo \cup StoredObjects,
         local'["tick"].pc \in {"idle", "expire", "retire", "delete"},
         local'["tick"].pc = "retire" => local'["tick"].object \in todo
  PROVE  Basic'
  <1>1. todo' \subseteq Objects
    BY DEF Basic, TypeOK, StoredObjects, Stored
  <1>2. TypeOK'
    BY <1>1 DEF Basic, TypeOK
  <1>3. Held'
    BY <1>2, ThreadKinds, HeldFrom
  <1>4. Roles'
    <2>1. "tick" \notin Workers /\ "tick" \notin Timers
      BY ThreadsAssumption
    <2> QED  BY <1>2, <2>1, ThreadKinds, RolesFrom DEF FiringKept
  <1> QED  BY <1>2, <1>3, <1>4 DEF Basic

LEMMA TickPlainStep ==
  ASSUME Basic, met' \in BOOLEAN, TickList \/ TickPrune \/ TickDone
  PROVE  /\ Basic'
         /\ UNCHANGED <<now, table, timer, store, object>> /\ OthersKeep("tick")
         /\ ~At("tick", "retire") /\ local'["tick"].pc # "retire"
  <1>1. /\ UNCHANGED <<now, table, timer, store, object>> /\ ~At("tick", "retire")
        /\ \A o \in todo' : o \in todo \cup StoredObjects
        /\ Goto("tick", "expire") \/ Goto("tick", "delete") \/ Return("tick")
    BY DEF TickList, TickPrune, TickDone, shared, At
  <1>2. /\ local' \in [Threads -> Local] /\ OthersKeep("tick")
        /\ local'["tick"].pc \in {"idle", "expire", "delete"}
    BY <1>1, GotoFields, ReturnFields, ThreadKinds DEF Basic, Pcs
  <1>3. /\ IdsKeep
        /\ store' \in [Ids -> Objects \cup {None}] /\ object' \in [Objects -> Object]
    BY <1>1 DEF IdsKeep, Basic, TypeOK
  <1>4. Basic'
    BY <1>1, <1>2, <1>3, TickBasic, SchedulerRests
  <1> QED  BY <1>1, <1>2, <1>4

LEMMA TickCancelStep ==
  ASSUME Basic, met' \in BOOLEAN, NEW o \in todo, TickCancel(o)
  PROVE  /\ Basic'
         /\ UNCHANGED <<now, store, object, todo>> /\ OthersKeep("tick")
         /\ object[o].id \in Ids /\ TimersBut(object[o].id)
         /\ ~At("tick", "retire")
         /\ local'["tick"].pc = "retire" /\ local'["tick"].object = o
  <1> DEFINE r == local["tick"]
             s == [r EXCEPT !.pc = "retire", !.object = o]
  <1>1. r \in Local /\ o \in Objects /\ object[o].id \in Ids
    BY ThreadKinds DEF Basic, TypeOK, Held
  <1>2. /\ UNCHANGED <<now, store, object, todo>> /\ Cancel({object[o].id})
        /\ ~At("tick", "retire")
        /\ local' = [local EXCEPT !["tick"] = s]
    BY <1>1, ThreadKinds DEF TickCancel, At, Basic, TypeOK
  <1> HIDE DEF r
  <1>3. s \in Local /\ s.pc = "retire" /\ s.object = o
    BY <1>1 DEF Local, Pcs
  <1> HIDE DEF s
  <1>4. /\ local' \in [Threads -> Local] /\ OthersKeep("tick") /\ local'["tick"].pc = "retire"
        /\ local'["tick"].object = o
    BY <1>2, <1>3, LocalSet, ThreadKinds DEF Basic
  <1>5. SchedulerTypeOK' /\ ListedTimersFire' /\ TimersBut(object[o].id)
    BY <1>1, <1>2, CancelFields DEF TimersBut
  <1>6. FiringKept
    BY <1>1, <1>5, TimersCalm
  <1>7. /\ IdsKeep
        /\ store' \in [Ids -> Objects \cup {None}] /\ object' \in [Objects -> Object]
    BY <1>2 DEF IdsKeep, Basic, TypeOK
  <1>8. Basic'
    BY <1>2, <1>4, <1>5, <1>6, <1>7, TickBasic
  <1> QED  BY <1>1, <1>2, <1>4, <1>5, <1>8

LEMMA TickExpireStep ==
  ASSUME Basic, met' \in BOOLEAN, TickExpire
  PROVE  /\ Basic'
         /\ UNCHANGED <<now, table, timer, store>> /\ OthersKeep("tick") /\ IdsKeep
         /\ At("tick", "retire") /\ local'["tick"].pc # "retire"
         /\ LET n == object[local["tick"].object].id IN
              /\ n \in Ids
              /\ IF Stored(n) THEN object'[store[n]].state = "EXPIRED" /\ ObjectsKeep(store[n])
                              ELSE object' = object
         /\ \A o \in Objects : object'[o].renotify_at = object[o].renotify_at
  <1> DEFINE r == local["tick"]
             s == [r EXCEPT !.pc = "expire", !.object = None]
             n == object[local["tick"].object].id
             o == store[n]
  <1>1. r \in Local
    BY ThreadKinds DEF Basic, TypeOK
  <1>2. /\ UNCHANGED <<now, table, timer, store>> /\ At("tick", "retire")
        /\ object' = [object EXCEPT ![o].state = "EXPIRED", ![o].updated_at = now]
        /\ todo' \subseteq todo
        /\ local' = [local EXCEPT !["tick"] = s]
    BY <1>1, ThreadKinds DEF TickExpire, Basic, TypeOK
  <1>3. n \in Ids
    BY <1>2 DEF Basic, Held
  <1>4. o \in Objects \cup {None} /\ (Stored(n) <=> o # None)
    BY <1>3 DEF Basic, TypeOK, Stored
  <1> HIDE DEF r, n, o
  <1>5. s \in Local /\ s.pc = "expire"
    BY <1>1 DEF Local, Pcs
  <1> HIDE DEF s
  <1>6. /\ local' \in [Threads -> Local] /\ OthersKeep("tick") /\ local'["tick"].pc = "expire"
    BY <1>2, <1>5, LocalSet, ThreadKinds DEF Basic
  <1>7. /\ object' \in [Objects -> Object] /\ IdsKeep
        /\ IF Stored(n) THEN object'[o].state = "EXPIRED" /\ ObjectsKeep(o) ELSE object' = object
        /\ \A x \in Objects : object'[x].renotify_at = object[x].renotify_at
    <2>1. CASE Stored(n)
      <3>1. /\ object' \in [Objects -> Object] /\ ObjectsKeep(o)
            /\ object'[o].state = "EXPIRED" /\ object'[o].id = object[o].id
            /\ object'[o].renotify_at = object[o].renotify_at
        BY <1>2, <1>4, <2>1, StateSet DEF Basic, ObjectStates
      <3> QED  BY <2>1, <3>1 DEF IdsKeep, ObjectsKeep
    <2>2. CASE ~Stored(n)
      <3>1. o \notin Objects
        BY <1>4, <2>2, ThreadsAssumption
      <3>2. object' = object
        BY <1>2, <3>1 DEF Basic, TypeOK
      <3> QED  BY <2>2, <3>2 DEF IdsKeep, Basic, TypeOK
    <2> QED  BY <2>1, <2>2
  <1>8. store' \in [Ids -> Objects \cup {None}]
    BY <1>2 DEF Basic, TypeOK
  <1>9. Basic'
    BY <1>2, <1>6, <1>7, <1>8, TickBasic, SchedulerRests
  <1> QED  BY <1>2, <1>3, <1>6, <1>7, <1>9 DEF n, o

LEMMA TickDeleteStep ==
  ASSUME Basic, met' \in BOOLEAN, NEW o \in todo, TickDelete(o)
  PROVE  /\ Basic'
         /\ UNCHANGED <<now, table, timer, object, local>>
         /\ ~At("tick", "retire") /\ \A n \in Ids : store'[n] \in {store[n], None}
  <1>1. object[o].id \in Ids
    BY DEF Basic, Held
  <1>2. /\ UNCHANGED <<now, table, timer, object, local>> /\ At("tick", "delete")
        /\ todo' \subseteq todo /\ store' = [store EXCEPT ![object[o].id] = None]
    BY DEF TickDelete
  <1>3. /\ store' \in [Ids -> Objects \cup {None}] /\ \A n \in Ids : store'[n] \in {store[n], None}
    BY <1>1, <1>2, StoreSet DEF Basic
  <1>4. OthersKeep("tick") /\ IdsKeep /\ object' \in [Objects -> Object]
        /\ local' \in [Threads -> Local]
    BY <1>2 DEF OthersKeep, IdsKeep, Basic, TypeOK
  <1>5. Basic'
    BY <1>2, <1>3, <1>4, TickBasic, SchedulerRests DEF At
  <1> QED  BY <1>2, <1>3, <1>5 DEF At

LEMMA AdvanceStep ==
  ASSUME Basic, met' \in BOOLEAN, Advance, UNCHANGED <<store, object, local, todo>>
  PROVE  Basic' /\ now' = now + 1 /\ UNCHANGED <<table, timer>> /\ now \in Nat
  <1>1. TypeOK' /\ now \in Nat
    BY DEF Basic, TypeOK, SchedulerTypeOK, Advance
  <1> QED  BY <1>1 DEF Advance, Basic, ListedTimersFire, Held, Roles, Stored, At

LEMMA InitBasic == Init => Basic
  <1> SUFFICES ASSUME Init  PROVE Basic
    OBVIOUS
  <1>1. NoObject \in Object /\ Idle \in Local /\ NoTimer \in Timer /\ Idle.pc = "idle"
        /\ Idle.object = None /\ NoTimer.phase = "free"
    BY DEF NoObject, Object, Idle, Local, Pcs, NoTimer, Timer, Phases
  <1>2. TypeOK
    BY <1>1 DEF Init, TypeOK, SchedulerInit, SchedulerTypeOK
  <1>3. \A p \in Threads : local[p] = Idle
    BY DEF Init
  <1>4. \A t \in Timers : timer[t] = NoTimer
    BY DEF Init, SchedulerInit
  <1>5. \A n \in Ids : table[n] = None /\ store[n] = None
    BY DEF Init, SchedulerInit
  <1>6. todo = {} /\ "tick" \in Threads /\ Clients \subseteq Threads /\ Workers \subseteq Clients
        /\ Timers \subseteq Clients
    BY ThreadKinds DEF Init, Clients
  <1>7. ListedTimersFire
    BY <1>5 DEF ListedTimersFire
  <1>8. Held
    BY <1>1, <1>3, <1>5, <1>6 DEF Held, Stored, At
  <1>9. Roles
    BY <1>1, <1>3, <1>4, <1>6 DEF Roles, At
  <1> QED  BY <1>2, <1>7, <1>8, <1>9 DEF Basic

LEMMA BasicKept == ASSUME Basic, [Next]_vars  PROVE Basic'
  <1>1. CASE UNCHANGED vars
    BY <1>1 DEF vars, Basic, TypeOK, SchedulerTypeOK, ListedTimersFire, Held, Roles, Stored, At
  <1>2. CASE Next
    <2>1. met' \in BOOLEAN
      BY <1>2 DEF Next, Basic, TypeOK, Overlap
    <2>2. ASSUME NEW w \in Workers, Handle(w)  PROVE Basic'
      BY <2>1, <2>2, SetCancelStep, SetUpsertStep, CheckStep, RemoveCancelStep, RemoveDismissStep,
         SnoozeStateStep, SnoozeUntilStep, SnoozeReadStep, SnoozeArmStep DEF Handle
    <2>3. ASSUME NEW t \in Timers, Wake(t)  PROVE Basic'
      BY <2>1, <2>3, CommitStep, FireStep, WakeCheckStep, WakeStateStep, WakeClearStep DEF Wake
    <2>4. CASE Tick
      BY <2>1, <2>4, TickPlainStep, TickCancelStep, TickExpireStep, TickDeleteStep DEF Tick
    <2>5. CASE Advance /\ UNCHANGED <<store, object, local, todo>>
      BY <2>1, <2>5, AdvanceStep
    <2> QED  BY <1>2, <2>2, <2>3, <2>4, <2>5 DEF Next, Step
  <1> QED  BY <1>1, <1>2

(***************************************************************************)
(* For any number of threads, records and ids, and any order of their      *)
(* steps, every variable stays within its type: no thread acts on a record *)
(* it does not have, and no expiry writes to a record that is gone.        *)
(***************************************************************************)
THEOREM TypeCorrect == Spec => []TypeOK
  <1>1. Basic => TypeOK
    BY DEF Basic
  <1> QED  BY InitBasic, BasicKept, <1>1, PTL DEF Spec

(***************************************************************************)
(* The scheduler's table holds only timers that will still fire for their  *)
(* id, the way the manager's threads use it.                               *)
(***************************************************************************)
THEOREM TableNeverLies == Spec => []ListedTimersFire
  <1>1. Basic => ListedTimersFire
    BY DEF Basic
  <1> QED  BY InitBasic, BasicKept, <1>1, PTL DEF Spec
===============================================================================
