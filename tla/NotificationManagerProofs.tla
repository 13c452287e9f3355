---------------------- MODULE NotificationManagerProofs ----------------------
(***************************************************************************)
(* Theorems about NotificationManager, for every value of its constants.   *)
(***************************************************************************)
EXTENDS NotificationManager, FiniteSetTheorems, SequenceTheorems, TLAPS

-------------------------------------------------------------------------------
(* The operators of Notifications and Policy *)

\* identity.py yields an identity of the context or None.
LEMMA ConsumerIdType ==
  ASSUME NEW ctx \in Context
  PROVE  ConsumerId(ctx) \in Consumers \cup {None}
  BY NoneIsNoValue DEF ConsumerId, Context

\* The requester of a removal, whichever of the three places it comes from.
LEMMA RequesterType ==
  ASSUME NEW data \in RemoveData, NEW ctx \in Context
  PROVE  Requester(data, ctx) \in Requesters \cup {None}
  BY ConsumerIdType DEF Requester, Requesters, RemoveData

\* The client a removal is recorded against, when there is one.
LEMMA RemovalClientType ==
  ASSUME NEW r \in StoredNotification, NEW data \in RemoveData, NEW ctx \in Context
  PROVE  RemovalClient(r, data, ctx) \in Requesters \cup {None}
  BY RequesterType DEF RemovalClient, PerClientId

\* set_state for everyone: the state changes, the cursor moves, no more.
LEMMA WithStateForAll ==
  ASSUME NEW r \in StoredNotification, NEW s \in States, NEW t \in Nat
  PROVE  /\ WithState(r, s, None, t) \in StoredNotification
         /\ WithState(r, s, None, t).notification = r.notification
         /\ WithState(r, s, None, t).renotify_at = r.renotify_at
         /\ WithState(r, s, None, t).updated_at = t
         /\ WithState(r, s, None, t).state = s
         /\ WithState(r, s, None, t).dismissed_by_clients = r.dismissed_by_clients
  BY DEF WithState, StoredNotification

\* set_state for one client: the client is recorded, the shared state stays.
LEMMA WithStateForClient ==
  ASSUME NEW r \in StoredNotification, NEW s, NEW t \in Nat,
         NEW c \in Requesters, c # None
  PROVE  /\ WithState(r, s, c, t) \in StoredNotification
         /\ WithState(r, s, c, t).notification = r.notification
         /\ WithState(r, s, c, t).renotify_at = r.renotify_at
         /\ WithState(r, s, c, t).updated_at = t
         /\ WithState(r, s, c, t).state = r.state
         /\ WithState(r, s, c, t).dismissed_by_clients = r.dismissed_by_clients \cup {c}
  BY DEF WithState, StoredNotification

\* Either way a record stays a record.
LEMMA WithStateType ==
  ASSUME NEW r \in StoredNotification, NEW s \in States,
         NEW c \in Requesters \cup {None}, NEW t \in Nat
  PROVE  WithState(r, s, c, t) \in StoredNotification
  <1>1. CASE c = None
    BY <1>1, WithStateForAll
  <1>2. CASE c # None
    BY <1>2, WithStateForClient
  <1> QED  BY <1>1, <1>2

\* Filling in the target of a CLIENT notification keeps it a notification.
LEMMA ResolvedType ==
  ASSUME NEW p \in Notification, NEW ctx \in Context
  PROVE  /\ Resolved(p, ctx) \in Notification
         /\ Resolved(p, ctx).skill_id = p.skill_id
  BY ConsumerIdType DEF Resolved, Notification

\* The rate limiter drops a prefix of its history.
LEMMA RecentType ==
  ASSUME NEW h \in Seq(Nat), NEW t \in Nat
  PROVE  Recent(h, t) \in Seq(Nat)
  <1> DEFINE old == {i \in DOMAIN h : \A j \in 1..i : h[j] < t - RateWindow}
  <1>1. Cardinality(old) \in Nat
    <2>1. old \in SUBSET (1..Len(h)) /\ Len(h) \in Nat
      OBVIOUS
    <2>2. IsFiniteSet(old)
      BY <2>1, FS_Interval, FS_Subset
    <2> QED  BY <2>2, FS_CardinalityType
  <1>2. SubSeq(h, Cardinality(old) + 1, Len(h)) \in Seq(Nat)
    <2>1. \A i \in (Cardinality(old) + 1)..Len(h) : h[i] \in Nat
      BY <1>1
    <2> HIDE DEF old
    <2> QED  BY <1>1, <2>1, SubSeqProperties
  <1> QED  BY <1>2 DEF Recent

-------------------------------------------------------------------------------
(* Type correctness *)

\* What waking changes of a record, and what it leaves alone.
LEMMA WokenFields ==
  ASSUME NEW r \in StoredNotification, now \in Nat
  PROVE  /\ Woken(r) \in StoredNotification
         /\ Woken(r).notification = r.notification
         /\ Woken(r).dismissed_by_clients = r.dismissed_by_clients
         /\ Woken(r).updated_at = now
         /\ Woken(r).state = "ACTIVE"
         /\ Woken(r).renotify_at = None
  BY DEF Woken, StoredNotification, States, LiveStates

\* What snoozing changes of a record, and what it leaves alone.
LEMMA PostponedFields ==
  ASSUME NEW r \in StoredNotification, NEW t \in Nat, now \in Nat
  PROVE  /\ Postponed(r, t) \in StoredNotification
         /\ Postponed(r, t).notification = r.notification
         /\ Postponed(r, t).dismissed_by_clients = r.dismissed_by_clients
         /\ Postponed(r, t).updated_at = now
         /\ Postponed(r, t).state = "SNOOZED"
         /\ Postponed(r, t).renotify_at = t
  BY DEF Postponed, StoredNotification, States, LiveStates

\* The expiry sweep retires the stale records and leaves the others alone.
LEMMA SweptFields ==
  ASSUME TypeOK, NEW n \in Ids
  PROVE  /\ n \in Stale => /\ records[n] \in StoredNotification
                           /\ Swept(n) \in StoredNotification
                           /\ Swept(n).state = "EXPIRED"
                           /\ Swept(n).notification = records[n].notification
                           /\ Swept(n).dismissed_by_clients = records[n].dismissed_by_clients
                           /\ Swept(n).updated_at = now
         /\ n \notin Stale => Swept(n) = records[n]
  <1>1. CASE n \in Stale
    <2>1. records[n] \in StoredNotification /\ now \in Nat /\ "EXPIRED" \in States
      BY <1>1 DEF Stale, Live, TypeOK, States, RetiredStates
    <2> QED  BY <1>1, <2>1, WithStateForAll DEF Swept
  <1>2. CASE n \notin Stale
    BY <1>2 DEF Swept
  <1> QED  BY <1>1, <1>2

\* An empty store is well-typed, and every step keeps the types.
LEMMA InitType == Init => TypeOK
  <1>1. <<>> \in Seq(Nat)
    BY EmptySeq
  <1>2. Init => accepted \in [Skills -> Seq(Nat)]
    BY <1>1 DEF Init
  <1>3. Init => /\ now \in Nat
                /\ records \in [Ids -> StoredNotification \cup {None}]
                /\ timers \in [Ids -> Nat \cup {None}]
                /\ announced \in [Ids -> Event \cup {None}]
    BY DEF Init
  <1>4. Init => running \in BOOLEAN
    BY DEF Init
  <1> QED  BY <1>2, <1>3, <1>4 DEF TypeOK

LEMMA TypeKept ==
  ASSUME TypeOK, [Next]_vars
  PROVE  TypeOK'
  <1> USE DEF TypeOK
  <1>0. Notified \in Event /\ Snoozed \in Event /\ DismissedBy("expired") \in Event
    BY DEF Notified, Snoozed, DismissedBy, Event
  <1>c. \A S : Cancelled(S) \in [Ids -> Nat \cup {None}]
    BY DEF Cancelled
  <1>e. \A S : \A e \in Event : Emitted(S, e) \in [Ids -> Event \cup {None}]
    BY DEF Emitted
  <1>1. CASE Advance
    BY <1>1 DEF Advance
  <1>2. CASE Tick
    BY <1>2, <1>0, <1>c, <1>e, SweptFields DEF Tick
  <1>3. CASE Restore
    <2>1. timers' \in [Ids -> Nat \cup {None}]
      BY <1>3 DEF Restore, Rearmed, Ahead, Asleep, Live, StoredNotification
    <2>2. announced' \in [Ids -> Event \cup {None}]
      BY <1>3, <1>0 DEF Restore
    <2>3. records' \in [Ids -> StoredNotification \cup {None}]
      BY <1>3, SweptFields, WokenFields DEF Restore, Asleep, Live
    <2> QED  BY <2>1, <2>2, <2>3, <1>3 DEF Restore
  <1>4. CASE Stop
    BY <1>4, <1>c, EmptySeq DEF Stop
  <1>5. CASE AnnounceActive
    BY <1>5, <1>0, <1>e DEF AnnounceActive
  <1>6. ASSUME NEW n \in Ids, NEW p \in Payloads, NEW ctx \in Contexts, Set(n, p, ctx)
        PROVE  TypeOK'
    <2>1. p \in Notification /\ p.skill_id \in Skills /\ ctx \in Context
      BY ManagerAssumption DEF Notification
    <2>2. Recent(accepted[p.skill_id], now) \in Seq(Nat)
      BY <2>1, RecentType
    <2>3. FreshRecord(Resolved(p, ctx)) \in StoredNotification
      BY <2>1, ResolvedType
      DEF FreshRecord, StoredNotification, States, LiveStates
    <2>4. Append(Recent(accepted[p.skill_id], now), now) \in Seq(Nat)
      BY <2>2, AppendProperties
    <2>5. accepted' \in [Skills -> Seq(Nat)]
      BY <1>6, <2>1, <2>2, <2>4 DEF Set
    <2>6. records' \in [Ids -> StoredNotification \cup {None}]
      BY <1>6, <2>3 DEF Set
    <2> QED  BY <1>6, <1>0, <1>c, <1>e, <2>5, <2>6 DEF Set
  <1>7. ASSUME NEW data \in RemoveData, NEW ctx \in Contexts, Remove(data, ctx)
        PROVE  TypeOK'
    <2>1. ctx \in Context
      BY ManagerAssumption
    <2>2. DismissedBy(RemovedBy(data, ctx)) \in Event
      BY <2>1, RequesterType DEF DismissedBy, RemovedBy, Event
    <2>3. \A n \in RemovalTargets(data) :
            WithState(records[n], "DISMISSED", RemovalClient(records[n], data, ctx), now)
              \in StoredNotification
      BY <2>1, RemovalClientType, WithStateType
      DEF RemovalTargets, Live, States, RetiredStates
    <2> QED  BY <1>7, <1>c, <1>e, <2>2, <2>3 DEF Remove
  <1>8. ASSUME NEW n \in Ids, NEW d \in Durations, Snooze(n, d)
        PROVE  TypeOK'
    <2>1. now + d \in Nat /\ records[n] \in StoredNotification
      BY <1>8, ManagerAssumption DEF Snooze, MaySnooze
    <2> QED  BY <1>8, <1>0, <1>e, <2>1, PostponedFields DEF Snooze
  <1>9. ASSUME NEW n \in Ids, NEW a \in Actions, NEW ctx \in Contexts, Interact(n, a, ctx)
        PROVE  TypeOK'
    <2>1. records[n] \in StoredNotification /\ ConsumerId(ctx) \in Consumers \cup {None}
      BY <1>9, ConsumerIdType, ManagerAssumption DEF Interact, Live
    <2>2. PerClientId(records[n], ConsumerId(ctx)) \in Requesters \cup {None}
      BY <2>1 DEF PerClientId, Requesters
    <2>3. WithState(records[n], "DISMISSED", PerClientId(records[n], ConsumerId(ctx)), now)
            \in StoredNotification
      BY <2>1, <2>2, WithStateType DEF States, RetiredStates
    <2>4. DismissedBy(IF ConsumerId(ctx) = None THEN "action" ELSE ConsumerId(ctx)) \in Event
      BY <2>1 DEF DismissedBy, Event, Requesters
    <2> QED  BY <1>9, <1>c, <1>e, <2>3, <2>4 DEF Interact
  <1>10. ASSUME NEW ctx \in Contexts, NEW since \in {None} \cup 0..MaxTime, Sync(ctx, since)
         PROVE  TypeOK'
    BY <1>10, <1>0, <1>e DEF Sync
  <1>11. ASSUME NEW n \in Ids, Wake(n)
         PROVE  TypeOK'
    BY <1>11, <1>0, <1>c, <1>e, WokenFields DEF Wake, Asleep, Live
  <1>12. CASE UNCHANGED vars
    BY <1>12 DEF vars
  <1> QED  BY <1>1, <1>2, <1>3, <1>4, <1>5, <1>6, <1>7, <1>8, <1>9, <1>10, <1>11, <1>12
           DEF Next

\* Every reachable state is well-typed.
THEOREM TypeCorrect == Spec => []TypeOK
  BY InitType, TypeKept, PTL DEF Spec

-------------------------------------------------------------------------------
(* Timers *)

\* SnoozedIsArmed, one notification at a time.
ArmedAlone(n) ==
  /\ n \in Asleep => records[n].renotify_at # None
  /\ timers[n] = IF running /\ n \in Asleep THEN records[n].renotify_at ELSE None

\* The timers are a function on the ids, so they agree when they do at each id.
LEMMA ArmedEach ==
  ASSUME TypeOK
  PROVE  SnoozedIsArmed <=> \A n \in Ids : ArmedAlone(n)
  BY DEF TypeOK, SnoozedIsArmed, ArmedAlone, Asleep, Live

\* A snoozed notification has exactly the timer it promised, and a stopped
\* plugin none: the scheduler and the store never drift apart.
THEOREM TimersFollowRecords == Spec => []SnoozedIsArmed
  <1>1. Init => SnoozedIsArmed
    BY DEF Init, SnoozedIsArmed, Asleep, Live
  <1>2. TypeOK /\ TypeOK' /\ SnoozedIsArmed /\ [Next]_vars => SnoozedIsArmed'
    <2> SUFFICES ASSUME TypeOK, TypeOK', SnoozedIsArmed, [Next]_vars,
                        NEW m \in Ids
                 PROVE  ArmedAlone(m)'
      BY DEF TypeOK, SnoozedIsArmed, ArmedAlone, Asleep, Live
    <2>0. ArmedAlone(m)
      BY ArmedEach
    <2>t. now \in Nat /\ None \notin Nat /\ records[m] \in StoredNotification \cup {None}
      BY NoneIsNoValue DEF TypeOK
    <2> USE DEF ArmedAlone, Asleep, Live, Cancelled
    <2>1. CASE Advance
      BY <2>0, <2>1 DEF Advance
    <2>2. CASE Tick
      <3>1. CASE m \in Stale
        <4>1. m \notin Asleep'
          BY <2>2, <3>1, SweptFields DEF Tick
        <4> QED  BY <2>2, <3>1, <4>1 DEF Tick
      <3>2. CASE m \notin Stale /\ ~Prunable(records[m])
        BY <2>0, <2>2, <3>2 DEF Tick, Swept
      <3>3. CASE m \notin Stale /\ Prunable(records[m])
        BY <2>0, <2>2, <3>3 DEF Tick, Swept, Prunable, IsLive
      <3> QED  BY <3>1, <3>2, <3>3
    <2>3. CASE Restore
      <3>1. CASE m \in Stale
        <4>1. m \notin Asleep' /\ m \notin Ahead
          BY <2>3, <3>1, SweptFields DEF Restore, Ahead
        <4> QED  BY <2>3, <4>1 DEF Restore, Rearmed
      <3>2. CASE m \in Ahead
        BY <2>3, <3>2 DEF Restore, Rearmed, Ahead, Swept
      <3>3. CASE m \in Asleep /\ m \notin Stale /\ m \notin Ahead
        <4>1. m \notin Asleep'
          BY <2>3, <2>t, <3>3
          DEF Restore, Woken, StoredNotification, IsLive, LiveStates
        <4> QED  BY <2>3, <3>3, <4>1 DEF Restore, Rearmed
      <3>4. CASE m \notin Asleep /\ m \notin Stale
        BY <2>3, <3>4 DEF Restore, Rearmed, Ahead, Swept
      <3> QED  BY <3>1, <3>2, <3>3, <3>4
    <2>4. CASE Stop
      BY <2>0, <2>4 DEF Stop
    <2>5. CASE AnnounceActive
      BY <2>0, <2>5 DEF AnnounceActive
    <2>6. ASSUME NEW n \in Ids, NEW p \in Payloads, NEW ctx \in Contexts, Set(n, p, ctx)
          PROVE  ArmedAlone(m)'
      <3>1. CASE RateExceeded(accepted[p.skill_id], now)
        BY <2>0, <2>6, <3>1 DEF Set
      <3>2. CASE ~RateExceeded(accepted[p.skill_id], now)
        BY <2>0, <2>6, <3>2 DEF Set, FreshRecord, TypeOK
      <3> QED  BY <3>1, <3>2
    <2>7. ASSUME NEW data \in RemoveData, NEW ctx \in Contexts, Remove(data, ctx)
          PROVE  ArmedAlone(m)'
      <3> DEFINE client == RemovalClient(records[m], data, ctx)
                 removed == {n \in RemovalTargets(data) : MayRemove(records[n], data, ctx)}
      <3>r. client \in Requesters \cup {None} \/ m \notin removed
        BY <2>t, RemovalClientType, ManagerAssumption DEF RemovalTargets
      <3>1. CASE m \notin removed
        BY <2>0, <2>7, <3>1 DEF Remove
      <3>2. CASE m \in removed /\ client = None
        <4>1. records'[m].state = "DISMISSED" /\ timers'[m] = None
          BY <2>7, <2>t, <3>2 DEF Remove, RemovalTargets, WithState, StoredNotification
        <4> QED  BY <4>1 DEF IsLive, LiveStates
      <3>3. CASE m \in removed /\ client # None
        <4>1. /\ records'[m].state = records[m].state /\ timers'[m] = timers[m]
              /\ records'[m].renotify_at = records[m].renotify_at
              /\ records'[m] # None /\ records[m] # None
          <5>1. /\ records'[m] = WithState(records[m], "DISMISSED", client, now)
                /\ timers'[m] = timers[m] /\ records[m] \in StoredNotification
            BY <2>7, <2>t, <3>3 DEF Remove, RemovalTargets, TypeOK
          <5> HIDE DEF client
          <5> QED  BY <2>t, <3>3, <3>r, <5>1, WithStateForClient, NoneIsNoRecord
        <4>2. running' = running
          BY <2>7 DEF Remove
        <4> QED  BY <2>0, <4>1, <4>2 DEF IsLive
      <3> QED  BY <3>1, <3>2, <3>3
    <2>8. ASSUME NEW n \in Ids, NEW d \in Durations, Snooze(n, d)
          PROVE  ArmedAlone(m)'
      <3>1. CASE m # n
        BY <2>0, <2>8, <3>1 DEF Snooze, TypeOK
      <3>2. CASE m = n
        <4>1. now + d \in Nat /\ records[m] \in StoredNotification
          BY <2>8, <2>t, <3>2, ManagerAssumption DEF Snooze, MaySnooze
        <4>2. records'[m] = Postponed(records[m], now + d) /\ timers'[m] = now + d /\ running'
          BY <2>8, <3>2 DEF Snooze, TypeOK
        <4> QED  BY <2>t, <4>1, <4>2, PostponedFields, NoneIsNoRecord DEF IsLive, LiveStates
      <3> QED  BY <3>1, <3>2
    <2>9. ASSUME NEW n \in Ids, NEW a \in Actions, NEW ctx \in Contexts, Interact(n, a, ctx)
          PROVE  ArmedAlone(m)'
      <3> DEFINE client == PerClientId(records[n], ConsumerId(ctx))
      <3>r. client \in Requesters \cup {None}
        BY ConsumerIdType, ManagerAssumption DEF PerClientId, Requesters
      <3>s. records[n] \in StoredNotification /\ records[n] # None /\ running' = running
        BY <2>9 DEF Interact, TypeOK
      <3>u. records'[n] = WithState(records[n], "DISMISSED", client, now)
        BY <2>9 DEF Interact, TypeOK
      <3>1. CASE m # n
        BY <2>0, <2>9, <3>1 DEF Interact, TypeOK
      <3>2. CASE m = n /\ client = None
        <4>1. records'[n].state = "DISMISSED" /\ timers'[m] = None
          BY <2>9, <3>2, <3>s, <3>u, <2>t, WithStateForAll
          DEF Interact, States, RetiredStates
        <4> QED  BY <3>2, <4>1
      <3>3. CASE m = n /\ client # None
        <4>1. timers' = timers
          BY <2>9, <3>3 DEF Interact
        <4>2. /\ records'[n].state = records[n].state
              /\ records'[n].renotify_at = records[n].renotify_at
              /\ records'[n] \in StoredNotification
          <5>1. client \in Requesters /\ client # None /\ now \in Nat
            BY <3>3, <3>r, <2>t
          <5> HIDE DEF client
          <5>2. /\ WithState(records[n], "DISMISSED", client, now) \in StoredNotification
                /\ WithState(records[n], "DISMISSED", client, now).state = records[n].state
                /\ WithState(records[n], "DISMISSED", client, now).renotify_at
                     = records[n].renotify_at
            BY <5>1, <3>s, WithStateForClient
          <5> QED  BY <3>u, <5>2
        <4> QED  BY <2>0, <3>3, <3>s, <4>1, <4>2, NoneIsNoRecord DEF IsLive
      <3> QED  BY <3>1, <3>2, <3>3
    <2>10. ASSUME NEW ctx \in Contexts, NEW since \in {None} \cup 0..MaxTime, Sync(ctx, since)
           PROVE  ArmedAlone(m)'
      BY <2>0, <2>10 DEF Sync
    <2>11. ASSUME NEW n \in Ids, Wake(n)
           PROVE  ArmedAlone(m)'
      <3>1. CASE n \in Asleep
        BY <2>0, <2>11, <2>t, <3>1, WokenFields DEF Wake, TypeOK
      <3>2. CASE n \notin Asleep
        BY <2>0, <2>11, <3>2 DEF Wake, TypeOK
      <3> QED  BY <3>1, <3>2
    <2>12. CASE UNCHANGED vars
      BY <2>0, <2>12 DEF vars
    <2> QED  BY <2>1, <2>2, <2>3, <2>4, <2>5, <2>6, <2>7, <2>8, <2>9, <2>10, <2>11, <2>12
             DEF Next
  <1> QED  BY <1>1, <1>2, TypeCorrect, PTL DEF Spec

-------------------------------------------------------------------------------
(* The lifecycle *)

\* What is kept of a record is an entry, and never None.
LEMMA EntryFields ==
  ASSUME NEW r \in StoredNotification
  PROVE  /\ EntryOf(r) \in Lifecycle!Entry
         /\ EntryOf(r) # None
         /\ EntryOf(r) = [status |-> r.state, owner |-> r.notification.skill_id,
                          hidden |-> r.dismissed_by_clients, at |-> r.updated_at]
  BY NoneIsNoRecord, NoneIsNoEntry
  DEF EntryOf, Lifecycle!Entry, StoredNotification, Notification, States, LiveStates, RetiredStates

\* A live record is an open entry, a retired one a closed entry.
LEMMA EntryStatus ==
  ASSUME NEW n \in Ids, records[n] \in StoredNotification
  PROVE  /\ Lifecycle!IsKept(n)
         /\ IsLive(records[n]) => Lifecycle!IsOpen(n)
         /\ ~IsLive(records[n]) => Lifecycle!IsClosed(n)
  BY EntryFields
  DEF Lifecycle!IsKept, Lifecycle!IsOpen, Lifecycle!IsClosed, IsLive, LiveStates,
      StoredNotification, States, RetiredStates

\* The next record of n has the same producer and the cursor of this instant.
Moves(n) ==
  /\ records[n] \in StoredNotification /\ records'[n] \in StoredNotification
  /\ records'[n].notification.skill_id = records[n].notification.skill_id
  /\ records'[n].updated_at = now

\* A change of the shared state alone is a postponement, a resumption or a
\* closing, by the state it reaches.
LEMMA StatusChange ==
  ASSUME NEW n \in Ids, Moves(n),
         records'[n].dismissed_by_clients = records[n].dismissed_by_clients
  PROVE  /\ records[n].state = "SNOOZED" /\ records'[n].state = "ACTIVE" => Lifecycle!Resume(n)
         /\ IsLive(records[n]) /\ records'[n].state = "SNOOZED" => Lifecycle!Postpone(n)
         /\ IsLive(records[n]) /\ records'[n].state \in RetiredStates => Lifecycle!Close(n)
  <1> DEFINE e == EntryOf(records[n])
             f == EntryOf(records'[n])
  <1>1. e = [status |-> records[n].state, owner |-> records[n].notification.skill_id,
             hidden |-> records[n].dismissed_by_clients, at |-> records[n].updated_at]
    BY EntryFields DEF Moves
  <1>2. f = [status |-> records'[n].state, owner |-> records[n].notification.skill_id,
             hidden |-> records[n].dismissed_by_clients, at |-> now]
    BY EntryFields DEF Moves
  <1> HIDE DEF e, f
  <1>3. f = [status |-> records'[n].state, owner |-> e.owner, hidden |-> e.hidden, at |-> now]
    BY <1>1, <1>2
  <1>4. [m \in Ids |-> EntryOf(records[m])][n] = e /\ [m \in Ids |-> EntryOf(records'[m])][n] = f
    BY DEF e, f
  <1>5. Lifecycle!Becomes(n, records'[n].state, e.hidden)
    BY <1>3, <1>4 DEF Lifecycle!Becomes
  <1> QED  BY <1>1, <1>4, <1>5, EntryStatus
           DEF Moves, Lifecycle!Resume, Lifecycle!Postpone, Lifecycle!Close, RetiredStates

\* Recording one more client hides the entry for it.
LEMMA ClientChange ==
  ASSUME NEW n \in Ids, Moves(n), NEW c \in Requesters,
         IsLive(records[n]), records'[n].state = records[n].state,
         records'[n].dismissed_by_clients = records[n].dismissed_by_clients \cup {c}
  PROVE  Lifecycle!Hide(n)
  <1> DEFINE e == EntryOf(records[n])
             f == EntryOf(records'[n])
  <1>1. e = [status |-> records[n].state, owner |-> records[n].notification.skill_id,
             hidden |-> records[n].dismissed_by_clients, at |-> records[n].updated_at]
    BY EntryFields DEF Moves
  <1>2. f = [status |-> records[n].state, owner |-> records[n].notification.skill_id,
             hidden |-> records[n].dismissed_by_clients \cup {c}, at |-> now]
    BY EntryFields DEF Moves
  <1> HIDE DEF e, f
  <1>3. f = [status |-> e.status, owner |-> e.owner, hidden |-> e.hidden \cup {c}, at |-> now]
    BY <1>1, <1>2
  <1>4. [m \in Ids |-> EntryOf(records[m])][n] = e /\ [m \in Ids |-> EntryOf(records'[m])][n] = f
    BY DEF e, f
  <1>5. Lifecycle!Becomes(n, e.status, e.hidden \cup {c})
    BY <1>3, <1>4 DEF Lifecycle!Becomes
  <1> QED  BY <1>4, <1>5, EntryStatus DEF Moves, Lifecycle!Hide

\* When every id changes as the lifecycle allows or not at all, the manager's
\* step is one of the lifecycle's.
LEMMA ServeStep ==
  ASSUME TypeOK, TypeOK', now' = now,
         \A n \in Ids : records'[n] = records[n] \/ Lifecycle!Change(n)
  PROVE  Lifecycle!Serve
  <1>1. \A n \in Ids : EntryOf(records'[n]) \in Lifecycle!Entry \cup {None}
    <2> TAKE n \in Ids
    <2>1. CASE records'[n] \in StoredNotification
      BY <2>1, EntryFields
    <2>2. CASE records'[n] = None
      BY <2>2 DEF EntryOf
    <2> QED  BY <2>1, <2>2 DEF TypeOK
  <1>2. [n \in Ids |-> EntryOf(records[n])]' \in [Ids -> Lifecycle!Entry \cup {None}]
    BY <1>1
  <1> QED  BY <1>2 DEF Lifecycle!Serve

\* An accepted set publishes, under a free id or in place of its own.
LEMMA SetChange ==
  ASSUME NEW n \in Ids, NEW s \in Skills, now \in Nat,
         records[n] \in StoredNotification \cup {None},
         records'[n] \in StoredNotification,
         records[n] # None => Owner(n) = s,
         records'[n].notification.skill_id = s, records'[n].state = "ACTIVE",
         records'[n].dismissed_by_clients = {}, records'[n].updated_at = now
  PROVE  Lifecycle!Publish(n)
  <1> DEFINE e == EntryOf(records[n])
             f == EntryOf(records'[n])
  <1>1. f = [status |-> "ACTIVE", owner |-> s, hidden |-> {}, at |-> now]
    BY EntryFields
  <1>2. e # None => e.owner = s
    BY EntryFields DEF EntryOf, Owner
  <1> HIDE DEF e, f
  <1>3. [m \in Ids |-> EntryOf(records[m])][n] = e /\ [m \in Ids |-> EntryOf(records'[m])][n] = f
    BY DEF e, f
  <1> QED  BY <1>1, <1>2, <1>3 DEF Lifecycle!Publish, Lifecycle!IsKept

\* prune drops a tombstone that the lifecycle lets go.
LEMMA PruneChange ==
  ASSUME NEW n \in Ids, now \in Nat,
         records[n] \in StoredNotification, Prunable(records[n]), records'[n] = None
  PROVE  Lifecycle!Forget(n)
  <1> DEFINE e == EntryOf(records[n])
  <1>1. e.at = records[n].updated_at /\ EntryOf(records'[n]) = None
    BY EntryFields DEF EntryOf
  <1>2. e.at + Retention < now
    BY <1>1, ManagerAssumption DEF Prunable, StoredNotification
  <1> HIDE DEF e
  <1>3. [m \in Ids |-> EntryOf(records[m])][n] = e
    BY DEF e
  <1> QED  BY <1>1, <1>2, <1>3, EntryStatus DEF Prunable, Lifecycle!Forget

\* set_state does to one live record what the lifecycle allows.
LEMMA DismissChange ==
  ASSUME NEW n \in Ids, NEW c \in Requesters \cup {None}, now \in Nat,
         records[n] \in StoredNotification, IsLive(records[n]),
         records'[n] = WithState(records[n], "DISMISSED", c, now)
  PROVE  Lifecycle!Change(n)
  <1>1. CASE c = None
    <2>1. /\ Moves(n) /\ records'[n].state = "DISMISSED"
          /\ records'[n].dismissed_by_clients = records[n].dismissed_by_clients
      BY <1>1, WithStateForAll DEF Moves, States, RetiredStates
    <2> QED  BY <2>1, StatusChange DEF RetiredStates, Lifecycle!Change
  <1>2. CASE c # None
    <2>1. c \in Requesters
      BY <1>2
    <2>2. /\ Moves(n) /\ records'[n].state = records[n].state
          /\ records'[n].dismissed_by_clients = records[n].dismissed_by_clients \cup {c}
      BY <1>2, <2>1, WithStateForClient DEF Moves
    <2> QED  BY <2>1, <2>2, ClientChange DEF Lifecycle!Change
  <1> QED  BY <1>1, <1>2

\* The manager does nothing the abstract lifecycle does not allow, with any
\* ids, skills, policies and retention window, through restarts and sweeps.
THEOREM RefinesLifecycle == Spec => ImplementsLifecycle
  <1>1. Init => Lifecycle!Init
    BY DEF Init, Lifecycle!Init, EntryOf
  <1>2. TypeOK /\ TypeOK' /\ [Next]_vars =>
          [Lifecycle!Serve \/ Lifecycle!Pass]_<<now, [n \in Ids |-> EntryOf(records[n])]>>
    <2> SUFFICES ASSUME TypeOK, TypeOK', [Next]_vars
                 PROVE  \/ Lifecycle!Serve \/ Lifecycle!Pass
                        \/ now' = now /\ records' = records
      OBVIOUS
    <2> DEFINE Same(m) == records'[m] = records[m]
    <2>t. now \in Nat /\ \A m \in Ids : /\ records[m] \in StoredNotification \cup {None}
                                      /\ records'[m] \in StoredNotification \cup {None}
      BY DEF TypeOK
    <2>1. CASE Advance
      BY <2>1, <2>t DEF Advance, Lifecycle!Pass
    <2>2. CASE Tick
      <3> SUFFICES ASSUME NEW m \in Ids  PROVE  Same(m) \/ Lifecycle!Change(m)
        BY <2>2, ServeStep DEF Tick
      <3>1. CASE m \in Stale
        <4>1. Swept(m).updated_at = now /\ records[m] \in StoredNotification
          BY <3>1, SweptFields
        <4>2. ~Prunable(Swept(m))
          BY <4>1, <2>t, ManagerAssumption DEF Prunable
        <4>3. records'[m] = Swept(m)
          BY <2>2, <4>2 DEF Tick
        <4>4. /\ Moves(m) /\ records'[m].state = "EXPIRED" /\ IsLive(records[m])
              /\ records'[m].dismissed_by_clients = records[m].dismissed_by_clients
          BY <3>1, <4>3, SweptFields DEF Moves, Stale, Live
        <4> QED  BY <4>4, StatusChange DEF RetiredStates, Lifecycle!Change
      <3>2. CASE m \notin Stale /\ Prunable(records[m])
        <4>1. records'[m] = None /\ records[m] \in StoredNotification
          BY <2>2, <2>t, <3>2 DEF Tick, Swept, Prunable
        <4> QED  BY <2>t, <3>2, <4>1, PruneChange DEF Lifecycle!Change
      <3>3. CASE m \notin Stale /\ ~Prunable(records[m])
        BY <2>2, <3>3 DEF Tick, Swept
      <3> QED  BY <3>1, <3>2, <3>3
    <2>3. CASE Restore
      <3> SUFFICES ASSUME NEW m \in Ids  PROVE  Same(m) \/ Lifecycle!Change(m)
        BY <2>3, ServeStep DEF Restore
      <3>1. CASE m \in Stale
        <4>1. records'[m] = Swept(m)
          BY <2>3, <3>1 DEF Restore
        <4>2. /\ Moves(m) /\ records'[m].state = "EXPIRED" /\ IsLive(records[m])
              /\ records'[m].dismissed_by_clients = records[m].dismissed_by_clients
          BY <3>1, <4>1, SweptFields DEF Moves, Stale, Live
        <4> QED  BY <4>2, StatusChange DEF RetiredStates, Lifecycle!Change
      <3>2. CASE m \in Asleep \ (Stale \cup Ahead)
        <4>1. records'[m] = Woken(records[m]) /\ records[m] \in StoredNotification
          BY <2>3, <2>t, <3>2 DEF Restore, Asleep, Live
        <4>2. /\ Moves(m) /\ records'[m].state = "ACTIVE" /\ records[m].state = "SNOOZED"
              /\ records'[m].dismissed_by_clients = records[m].dismissed_by_clients
          BY <2>t, <3>2, <4>1, WokenFields DEF Moves, Asleep
        <4> QED  BY <4>2, StatusChange DEF Lifecycle!Change
      <3>3. CASE m \notin Stale /\ m \notin Asleep \ (Stale \cup Ahead)
        BY <2>3, <3>3 DEF Restore, Swept
      <3> QED  BY <3>1, <3>2, <3>3
    <2>4. CASE Stop \/ AnnounceActive \/ UNCHANGED vars
      BY <2>4 DEF Stop, AnnounceActive, vars
    <2>5. ASSUME NEW n \in Ids, NEW p \in Payloads, NEW ctx \in Contexts, Set(n, p, ctx)
          PROVE  Lifecycle!Serve \/ (now' = now /\ records' = records)
      <3>1. CASE RateExceeded(accepted[p.skill_id], now)
        BY <2>5, <3>1 DEF Set
      <3>2. CASE ~RateExceeded(accepted[p.skill_id], now)
        <4>1. p \in Notification /\ p.skill_id \in Skills /\ ctx \in Context
          BY ManagerAssumption DEF Notification
        <4>2. /\ records'[n] = FreshRecord(Resolved(p, ctx)) /\ now' = now
              /\ records[n] # None => Owner(n) = p.skill_id
              /\ \A m \in Ids \ {n} : Same(m)
          BY <2>5, <3>2 DEF Set, TypeOK
        <4>3. records'[n] \in StoredNotification
          BY <2>t, <4>1, <4>2, ResolvedType
          DEF FreshRecord, StoredNotification, States, LiveStates
        <4>4. /\ records'[n].state = "ACTIVE" /\ records'[n].updated_at = now
              /\ records'[n].dismissed_by_clients = {}
              /\ records'[n].notification.skill_id = p.skill_id
          BY <4>1, <4>2, ResolvedType DEF FreshRecord
        <4>5. Lifecycle!Change(n)
          BY <2>t, <4>1, <4>2, <4>3, <4>4, SetChange DEF Lifecycle!Change
        <4> QED  BY <4>2, <4>5, ServeStep
      <3> QED  BY <3>1, <3>2
    <2>6. ASSUME NEW data \in RemoveData, NEW ctx \in Contexts, Remove(data, ctx)
          PROVE  Lifecycle!Serve
      <3> SUFFICES ASSUME NEW m \in Ids  PROVE  Same(m) \/ Lifecycle!Change(m)
        BY <2>6, ServeStep DEF Remove
      <3>1. CASE Same(m)
        BY <3>1
      <3>2. CASE ~Same(m)
        <4> DEFINE client == RemovalClient(records[m], data, ctx)
        <4>1. /\ records'[m] = WithState(records[m], "DISMISSED", client, now)
              /\ records[m] \in StoredNotification /\ IsLive(records[m])
          BY <2>6, <2>t, <3>2 DEF Remove, RemovalTargets, Live
        <4>2. client \in Requesters \cup {None}
          BY <4>1, RemovalClientType, ManagerAssumption
        <4> HIDE DEF client
        <4> QED  BY <2>t, <4>1, <4>2, DismissChange
      <3> QED  BY <3>1, <3>2
    <2>7. ASSUME NEW n \in Ids, NEW d \in Durations, Snooze(n, d)
          PROVE  Lifecycle!Serve
      <3>1. /\ records'[n] = Postponed(records[n], now + d) /\ now' = now
            /\ records[n] \in StoredNotification /\ IsLive(records[n]) /\ now + d \in Nat
            /\ \A m \in Ids \ {n} : Same(m)
        BY <2>7, <2>t, ManagerAssumption DEF Snooze, MaySnooze, TypeOK
      <3>2. /\ Moves(n) /\ records'[n].state = "SNOOZED"
            /\ records'[n].dismissed_by_clients = records[n].dismissed_by_clients
        BY <2>t, <3>1, PostponedFields DEF Moves
      <3>3. Lifecycle!Change(n)
        BY <3>1, <3>2, StatusChange DEF Lifecycle!Change
      <3> QED  BY <3>1, <3>3, ServeStep
    <2>8. ASSUME NEW n \in Ids, NEW a \in Actions, NEW ctx \in Contexts, Interact(n, a, ctx)
          PROVE  Lifecycle!Serve
      <3> DEFINE client == PerClientId(records[n], ConsumerId(ctx))
      <3>1. client \in Requesters \cup {None}
        BY ConsumerIdType, ManagerAssumption DEF PerClientId, Requesters
      <3>2. /\ records'[n] = WithState(records[n], "DISMISSED", client, now) /\ now' = now
            /\ records[n] \in StoredNotification /\ IsLive(records[n])
            /\ \A m \in Ids \ {n} : Same(m)
        BY <2>8, <2>t DEF Interact, Live, TypeOK
      <3> HIDE DEF client
      <3>3. Lifecycle!Change(n)
        BY <2>t, <3>1, <3>2, DismissChange
      <3> QED  BY <3>2, <3>3, ServeStep
    <2>9. ASSUME NEW ctx \in Contexts, NEW since \in {None} \cup 0..MaxTime, Sync(ctx, since)
          PROVE  now' = now /\ records' = records
      BY <2>9 DEF Sync
    <2>10. ASSUME NEW n \in Ids, Wake(n)
           PROVE  Lifecycle!Serve \/ (now' = now /\ records' = records)
      <3>1. CASE n \in Asleep
        <4>1. /\ records'[n] = Woken(records[n]) /\ now' = now
              /\ records[n] \in StoredNotification /\ records[n].state = "SNOOZED"
              /\ \A m \in Ids \ {n} : Same(m)
          BY <2>10, <2>t, <3>1 DEF Wake, Asleep, Live, TypeOK
        <4>2. /\ Moves(n) /\ records'[n].state = "ACTIVE"
              /\ records'[n].dismissed_by_clients = records[n].dismissed_by_clients
          BY <2>t, <4>1, WokenFields DEF Moves
        <4>3. Lifecycle!Change(n)
          BY <4>1, <4>2, StatusChange DEF Lifecycle!Change
        <4> QED  BY <4>1, <4>3, ServeStep
      <3>2. CASE n \notin Asleep
        BY <2>10, <3>2 DEF Wake
      <3> QED  BY <3>1, <3>2
    <2> QED  BY <2>1, <2>2, <2>3, <2>4, <2>5, <2>6, <2>7, <2>8, <2>9, <2>10 DEF Next
  <1> QED  BY <1>1, <1>2, TypeCorrect, PTL DEF Spec, ImplementsLifecycle, Lifecycle!Spec

-------------------------------------------------------------------------------
(* Events *)

\* No event is None.
LEMMA EventIsSome ==
  /\ Notified # None /\ Snoozed # None
  /\ \A who \in Requesters \cup {"expired", "unknown", "action", None} : DismissedBy(who) # None
  BY NoneIsNoRecord DEF Notified, Snoozed, DismissedBy, Event

\* The event each shared state calls for.
LEMMA AgreesWithState ==
  ASSUME NEW r \in StoredNotification
  PROVE  /\ r.state = "ACTIVE" => Agrees(r, Notified)
         /\ r.state = "SNOOZED" => Agrees(r, Snoozed)
         /\ r.state = "EXPIRED" => Agrees(r, DismissedBy("expired"))
         /\ \A who \in Requesters \cup {"unknown", "action"} :
              r.state = "DISMISSED" => Agrees(r, DismissedBy(who))
  BY EventIsSome, NoneIsNoRecord DEF Agrees, DismissedBy

\* The dismissal of a client agrees with a live record that counts it.
LEMMA AgreesWithClient ==
  ASSUME NEW r \in StoredNotification, NEW c \in Requesters,
         IsLive(r), c \in r.dismissed_by_clients
  PROVE  Agrees(r, DismissedBy(c))
  BY EventIsSome, NoneIsNoRecord DEF Agrees, DismissedBy, IsLive, LiveStates

\* What agreed with a tombstone agrees with its absence.
LEMMA AgreesWithNone ==
  ASSUME NEW r \in StoredNotification, NEW e, ~IsLive(r), Agrees(r, e)
  PROVE  Agrees(None, e)
  BY NoneIsNoRecord
  DEF Agrees, DismissedBy, IsLive, LiveStates, StoredNotification, States, RetiredStates

\* A dismissal announced in the name of the client it was recorded for, or of
\* anyone when it was for all, agrees with the record.
LEMMA AgreesDismissed ==
  ASSUME NEW r \in StoredNotification, IsLive(r), now \in Nat,
         NEW c \in Requesters \cup {None},
         NEW who \in Requesters \cup {"unknown", "action"},
         c # None => who = c
  PROVE  Agrees(WithState(r, "DISMISSED", c, now), DismissedBy(who))
  <1>1. CASE c = None
    <2>1. /\ WithState(r, "DISMISSED", c, now) \in StoredNotification
          /\ WithState(r, "DISMISSED", c, now).state = "DISMISSED"
      BY <1>1, WithStateForAll DEF States, RetiredStates
    <2> QED  BY <2>1, AgreesWithState
  <1>2. CASE c # None
    <2>1. c \in Requesters /\ who = c
      BY <1>2
    <2>2. /\ WithState(r, "DISMISSED", c, now) \in StoredNotification
          /\ WithState(r, "DISMISSED", c, now).state = r.state
          /\ c \in WithState(r, "DISMISSED", c, now).dismissed_by_clients
      BY <1>2, <2>1, WithStateForClient
    <2>3. IsLive(WithState(r, "DISMISSED", c, now))
      BY <2>2 DEF IsLive
    <2> QED  BY <2>1, <2>2, <2>3, AgreesWithClient
  <1> QED  BY <1>1, <1>2

\* Whoever follows the events knows every notification's state, through
\* replays, restarts, sweeps and bulk removals.
THEOREM EventsFollowRecords == Spec => []LastEventAgrees
  <1>1. Init => LastEventAgrees
    BY DEF Init, LastEventAgrees, Agrees
  <1>2. TypeOK /\ TypeOK' /\ LastEventAgrees /\ [Next]_vars => LastEventAgrees'
    <2> SUFFICES ASSUME TypeOK, TypeOK', LastEventAgrees, [Next]_vars, NEW m \in Ids
                 PROVE  Agrees(records'[m], announced'[m])
      BY DEF LastEventAgrees
    <2> DEFINE Goal == Agrees(records'[m], announced'[m])
               Same == records'[m] = records[m] /\ announced'[m] = announced[m]
    <2>0. Same => Goal
      BY DEF LastEventAgrees
    <2>t. now \in Nat /\ records[m] \in StoredNotification \cup {None}
      BY DEF TypeOK
    <2>1. CASE Advance \/ Stop \/ UNCHANGED vars
      BY <2>0, <2>1 DEF Advance, Stop, vars
    <2>2. CASE Tick
      <3>1. CASE m \in Stale
        <4>1. Swept(m) \in StoredNotification /\ Swept(m).state = "EXPIRED"
              /\ Swept(m).updated_at = now
          BY <3>1, SweptFields
        <4>2. ~Prunable(Swept(m))
          BY <4>1, <2>t, ManagerAssumption DEF Prunable
        <4>3. records'[m] = Swept(m) /\ announced'[m] = DismissedBy("expired")
          BY <2>2, <3>1, <4>2 DEF Tick, Emitted
        <4> QED  BY <4>1, <4>3, AgreesWithState
      <3>2. CASE m \notin Stale /\ Prunable(records[m])
        <4>1. records'[m] = None /\ announced'[m] = announced[m]
          BY <2>2, <3>2 DEF Tick, Swept, Emitted
        <4>2. records[m] \in StoredNotification /\ ~IsLive(records[m])
          BY <2>t, <3>2 DEF Prunable
        <4> QED  BY <4>1, <4>2, AgreesWithNone DEF LastEventAgrees
      <3>3. CASE m \notin Stale /\ ~Prunable(records[m])
        BY <2>0, <2>2, <3>3 DEF Tick, Swept, Emitted
      <3> QED  BY <3>1, <3>2, <3>3
    <2>3. CASE Restore
      <3>1. CASE m \in Stale
        <4>1. Swept(m) \in StoredNotification /\ Swept(m).state = "EXPIRED"
          BY <3>1, SweptFields
        <4>2. records'[m] = Swept(m) /\ announced'[m] = DismissedBy("expired")
          BY <2>3, <3>1 DEF Restore
        <4> QED  BY <4>1, <4>2, AgreesWithState
      <3>2. CASE m \in Asleep \ (Stale \cup Ahead)
        <4>1. Woken(records[m]) \in StoredNotification /\ Woken(records[m]).state = "ACTIVE"
          BY <2>t, <3>2, WokenFields DEF Asleep, Live
        <4>2. records'[m] = Woken(records[m]) /\ announced'[m] = Notified
          BY <2>3, <3>2 DEF Restore
        <4> QED  BY <4>1, <4>2, AgreesWithState
      <3>3. CASE m \notin Stale /\ m \notin Asleep \ (Stale \cup Ahead)
        BY <2>0, <2>3, <3>3 DEF Restore, Swept
      <3> QED  BY <3>1, <3>2, <3>3
    <2>4. CASE AnnounceActive
      <3>1. CASE m \in ActiveFor(None, None)
        <4>1. records'[m] = records[m] /\ announced'[m] = Notified
          BY <2>4, <3>1 DEF AnnounceActive, Emitted
        <4>2. records[m] \in StoredNotification /\ records[m].state = "ACTIVE"
          BY <2>t, <3>1 DEF ActiveFor, Live
        <4> QED  BY <4>1, <4>2, AgreesWithState
      <3>2. CASE m \notin ActiveFor(None, None)
        BY <2>0, <2>4, <3>2 DEF AnnounceActive, Emitted
      <3> QED  BY <3>1, <3>2
    <2>5. ASSUME NEW n \in Ids, NEW p \in Payloads, NEW ctx \in Contexts, Set(n, p, ctx)
          PROVE  Goal
      <3>1. CASE m # n \/ RateExceeded(accepted[p.skill_id], now)
        BY <2>0, <2>5, <3>1 DEF Set, Emitted, TypeOK
      <3>2. CASE m = n /\ ~RateExceeded(accepted[p.skill_id], now)
        <4>1. records'[m] = FreshRecord(Resolved(p, ctx)) /\ announced'[m] = Notified
          BY <2>5, <3>2 DEF Set, TypeOK, Emitted
        <4>2. p \in Notification /\ ctx \in Context
          BY ManagerAssumption
        <4>3. records'[m] \in StoredNotification /\ records'[m].state = "ACTIVE"
          BY <2>t, <4>1, <4>2, ResolvedType
          DEF FreshRecord, StoredNotification, States, LiveStates
        <4> QED  BY <4>1, <4>3, AgreesWithState
      <3> QED  BY <3>1, <3>2
    <2>6. ASSUME NEW data \in RemoveData, NEW ctx \in Contexts, Remove(data, ctx)
          PROVE  Goal
      <3> DEFINE client == RemovalClient(records[m], data, ctx)
                 removed == {n \in RemovalTargets(data) : MayRemove(records[n], data, ctx)}
      <3>1. CASE m \notin removed
        BY <2>0, <2>6, <3>1 DEF Remove, Emitted
      <3>2. CASE m \in removed
        <4>1. /\ records'[m] = WithState(records[m], "DISMISSED", client, now)
              /\ announced'[m] = DismissedBy(RemovedBy(data, ctx))
              /\ records[m] \in StoredNotification /\ IsLive(records[m])
          BY <2>6, <2>t, <3>2 DEF Remove, RemovalTargets, Live, Emitted
        <4>2. /\ client \in Requesters \cup {None}
              /\ RemovedBy(data, ctx) \in Requesters \cup {"unknown", "action"}
          BY <4>1, RemovalClientType, RequesterType, ManagerAssumption DEF RemovedBy
        <4>3. client # None => RemovedBy(data, ctx) = client
          BY DEF RemovalClient, PerClientId, RemovedBy
        <4> HIDE DEF client
        <4> QED  BY <2>t, <4>1, <4>2, <4>3, AgreesDismissed
      <3> QED  BY <3>1, <3>2
    <2>7. ASSUME NEW n \in Ids, NEW d \in Durations, Snooze(n, d)
          PROVE  Goal
      <3>1. CASE m # n
        BY <2>0, <2>7, <3>1 DEF Snooze, Emitted, TypeOK
      <3>2. CASE m = n
        <4>1. /\ records'[m] = Postponed(records[m], now + d) /\ announced'[m] = Snoozed
              /\ records[m] \in StoredNotification /\ now + d \in Nat
          BY <2>7, <2>t, <3>2, ManagerAssumption DEF Snooze, MaySnooze, TypeOK, Emitted
        <4> QED  BY <2>t, <4>1, PostponedFields, AgreesWithState
      <3> QED  BY <3>1, <3>2
    <2>8. ASSUME NEW n \in Ids, NEW a \in Actions, NEW ctx \in Contexts, Interact(n, a, ctx)
          PROVE  Goal
      <3> DEFINE client == PerClientId(records[n], ConsumerId(ctx))
                 who == IF ConsumerId(ctx) = None THEN "action" ELSE ConsumerId(ctx)
      <3>1. CASE m # n
        BY <2>0, <2>8, <3>1 DEF Interact, Emitted, TypeOK
      <3>2. CASE m = n
        <4>1. /\ client \in Requesters \cup {None}
              /\ who \in Requesters \cup {"unknown", "action"}
          BY ConsumerIdType, ManagerAssumption DEF PerClientId, Requesters
        <4>2. client # None => who = client
          BY DEF PerClientId
        <4>3. /\ records'[m] = WithState(records[m], "DISMISSED", client, now)
              /\ announced'[m] = DismissedBy(who)
              /\ records[m] \in StoredNotification /\ IsLive(records[m])
          BY <2>8, <2>t, <3>2 DEF Interact, Live, TypeOK, Emitted
        <4> HIDE DEF client, who
        <4> QED  BY <2>t, <4>1, <4>2, <4>3, AgreesDismissed
      <3> QED  BY <3>1, <3>2
    <2>9. ASSUME NEW ctx \in Contexts, NEW since \in {None} \cup 0..MaxTime, Sync(ctx, since)
          PROVE  Goal
      <3>1. CASE Same
        BY <2>0, <3>1
      <3>2. CASE ~Same
        <4>1. /\ records'[m] = records[m] /\ announced'[m] = Notified
              /\ m \in ActiveFor(ConsumerId(ctx), UserId(ctx))
          BY <2>9, <3>2 DEF Sync, Emitted
        <4>2. records[m] \in StoredNotification /\ records[m].state = "ACTIVE"
          BY <2>t, <4>1 DEF ActiveFor, Live
        <4> QED  BY <4>1, <4>2, AgreesWithState
      <3> QED  BY <3>1, <3>2
    <2>10. ASSUME NEW n \in Ids, Wake(n)
           PROVE  Goal
      <3>1. CASE n \in Asleep /\ m = n
        <4>1. /\ records'[m] = Woken(records[m]) /\ announced'[m] = Notified
              /\ records[m] \in StoredNotification
          BY <2>10, <2>t, <3>1 DEF Wake, Asleep, Live, TypeOK, Emitted
        <4> QED  BY <2>t, <4>1, WokenFields, AgreesWithState
      <3>2. CASE n \notin Asleep \/ m # n
        BY <2>0, <2>10, <3>2 DEF Wake, Emitted, TypeOK
      <3> QED  BY <3>1, <3>2
    <2> QED  BY <2>1, <2>2, <2>3, <2>4, <2>5, <2>6, <2>7, <2>8, <2>9, <2>10 DEF Next
  <1> QED  BY <1>1, <1>2, TypeCorrect, PTL DEF Spec

-------------------------------------------------------------------------------
(* Dismissals and reminders *)

\* Only a removal or an interaction dismisses, and only the record it is about.
LEMMA OnlyTwoDismiss ==
  ASSUME TypeOK, TypeOK', [Next]_vars, NEW m \in Ids, Dismisses(m)
  PROVE  \/ \E data \in RemoveData, ctx \in Contexts :
              /\ Remove(data, ctx)
              /\ m \in RemovalTargets(data) /\ MayRemove(records[m], data, ctx)
         \/ \E a \in Actions, ctx \in Contexts : Interact(m, a, ctx)
  <1> DEFINE Retired == records'[m].state = "DISMISSED"
             Hidden == ~(records'[m].dismissed_by_clients \subseteq records[m].dismissed_by_clients)
  <1>t. /\ now \in Nat /\ records[m] \in StoredNotification /\ records'[m] # None
        /\ records[m].state \in {"ACTIVE", "SNOOZED"} /\ (Retired \/ Hidden)
    BY DEF TypeOK, Dismisses, Live, IsLive, LiveStates
  <1>0. records'[m] # records[m]
    BY <1>t
  <1>1. CASE Advance \/ Stop \/ AnnounceActive \/ UNCHANGED vars
    BY <1>0, <1>1 DEF Advance, Stop, AnnounceActive, vars
  <1>2. CASE Tick
    <2>1. records'[m] = Swept(m)
      BY <1>2, <1>t DEF Tick
    <2>2. m \in Stale
      BY <1>0, <2>1, SweptFields
    <2> QED  BY <1>t, <2>1, <2>2, SweptFields
  <1>3. CASE Restore
    <2>1. records'[m] = Swept(m) \/ records'[m] = Woken(records[m])
      BY <1>3 DEF Restore
    <2>2. CASE records'[m] = Swept(m)
      BY <1>0, <1>t, <2>2, SweptFields
    <2>3. CASE records'[m] = Woken(records[m])
      BY <1>t, <2>3, WokenFields
    <2> QED  BY <2>1, <2>2, <2>3
  <1>4. ASSUME NEW n \in Ids, NEW p \in Payloads, NEW ctx \in Contexts, Set(n, p, ctx)
        PROVE  FALSE
    <2>1. records'[m] = FreshRecord(Resolved(p, ctx))
      BY <1>0, <1>4 DEF Set, TypeOK
    <2> QED  BY <1>t, <2>1 DEF FreshRecord
  <1>5. ASSUME NEW data \in RemoveData, NEW ctx \in Contexts, Remove(data, ctx)
        PROVE  m \in RemovalTargets(data) /\ MayRemove(records[m], data, ctx)
    BY <1>0, <1>5 DEF Remove
  <1>6. ASSUME NEW n \in Ids, NEW d \in Durations, Snooze(n, d)
        PROVE  FALSE
    <2>1. records'[m] = Postponed(records[m], now + d) /\ now + d \in Nat
      BY <1>0, <1>6, <1>t, ManagerAssumption DEF Snooze, MaySnooze, TypeOK
    <2> QED  BY <1>t, <2>1, PostponedFields
  <1>7. ASSUME NEW n \in Ids, NEW a \in Actions, NEW ctx \in Contexts, Interact(n, a, ctx)
        PROVE  n = m
    BY <1>0, <1>7 DEF Interact, TypeOK
  <1>8. ASSUME NEW ctx \in Contexts, NEW since \in {None} \cup 0..MaxTime, Sync(ctx, since)
        PROVE  FALSE
    BY <1>0, <1>8 DEF Sync
  <1>9. ASSUME NEW n \in Ids, Wake(n)
        PROVE  FALSE
    <2>1. records'[m] = Woken(records[m])
      BY <1>0, <1>9 DEF Wake, TypeOK
    <2> QED  BY <1>t, <2>1, WokenFields
  <1> QED  BY <1>1, <1>2, <1>3, <1>4, <1>5, <1>6, <1>7, <1>8, <1>9 DEF Next

\* What a removal announces of a record it dismisses.
LEMMA RemoveAnnounces ==
  ASSUME NEW data \in RemoveData, NEW ctx \in Contexts, Remove(data, ctx), NEW m \in Ids,
         m \in RemovalTargets(data), MayRemove(records[m], data, ctx)
  PROVE  /\ announced'[m].by = RemovedBy(data, ctx)
         /\ records'[m] = WithState(records[m], "DISMISSED",
                                   RemovalClient(records[m], data, ctx), now)
  BY DEF Remove, Emitted, DismissedBy

\* For any policy, a dismissal other than by a closing action is charged to
\* the producer or to a consumer whom the flag and both lists let through.  A
\* requester without identity is announced as "unknown", which no list names.
THEOREM DismissalsAreAuthorized ==
  ASSUME "unknown" \notin BlockedConsumers
  PROVE  Spec => DismissalAuthorized
  <1>1. TypeOK /\ TypeOK' /\ [Next]_vars =>
          \A n \in Ids : Dismisses(n) /\ records[n].notification.closing_actions = {} =>
             \/ announced'[n].by = Owner(n)
             \/ /\ records[n].notification.removable_by_user
                /\ announced'[n].by \notin BlockedConsumers
                /\ AllowedConsumers # None => announced'[n].by \in AllowedConsumers
    <2> SUFFICES ASSUME TypeOK, TypeOK', [Next]_vars, NEW m \in Ids, Dismisses(m),
                        records[m].notification.closing_actions = {},
                        announced'[m].by # Owner(m)
                 PROVE  /\ records[m].notification.removable_by_user
                        /\ announced'[m].by \notin BlockedConsumers
                        /\ AllowedConsumers # None => announced'[m].by \in AllowedConsumers
      OBVIOUS
    <2>1. PICK data \in RemoveData, ctx \in Contexts :
            /\ Remove(data, ctx)
            /\ m \in RemovalTargets(data) /\ MayRemove(records[m], data, ctx)
      BY OnlyTwoDismiss DEF Interact
    <2>2. announced'[m].by = RemovedBy(data, ctx)
      BY <2>1, RemoveAnnounces
    <2> DEFINE who == Requester(data, ctx)
    <2>3. Owner(m) # None
      BY <2>1, NoneIsNoValue
      DEF RemovalTargets, Live, Owner, TypeOK, StoredNotification, Notification
    <2>4. who # Owner(m)
      BY <2>2, <2>3 DEF RemovedBy
    <2>5. /\ who \notin BlockedConsumers /\ records[m].notification.removable_by_user
          /\ AllowedConsumers # None => who \in AllowedConsumers
      BY <2>1, <2>4 DEF MayRemove, IsProducer, Owner, MayDismiss
    <2>6. None \notin Requesters
      BY NoneIsNoValue DEF Requesters
    <2>7. CASE who = None
      <3>1. announced'[m].by = "unknown" /\ AllowedConsumers = None
        BY <2>2, <2>5, <2>6, <2>7, PolicyAssumption DEF RemovedBy
      <3> QED  BY <2>5, <3>1
    <2>8. CASE who # None
      BY <2>2, <2>5, <2>8 DEF RemovedBy
    <2> QED  BY <2>7, <2>8
  <1> QED  BY <1>1, TypeCorrect, PTL DEF Spec, DismissalAuthorized

\* With any clients and policies, a consumer that has an identity never ends a
\* PER_CLIENT notification for the others.
THEOREM PerClientHides == Spec => PerClientOnlyHides
  <1>1. TypeOK /\ TypeOK' /\ [Next]_vars =>
          \A n \in Live :
            /\ records[n].notification.per_client
            /\ records'[n] # None /\ records'[n].state = "DISMISSED"
            => announced'[n].by \in {Owner(n), "action"}
    <2> SUFFICES ASSUME TypeOK, TypeOK', [Next]_vars, NEW m \in Live,
                        records[m].notification.per_client,
                        records'[m] # None, records'[m].state = "DISMISSED"
                 PROVE  announced'[m].by \in {Owner(m), "action"}
      OBVIOUS
    <2>t. /\ m \in Ids /\ now \in Nat /\ records[m] \in StoredNotification
          /\ records[m].state # "DISMISSED" /\ Dismisses(m)
      BY DEF Live, TypeOK, IsLive, LiveStates, Dismisses
    <2>1. ASSUME NEW data \in RemoveData, NEW ctx \in Contexts, Remove(data, ctx),
                 m \in RemovalTargets(data), MayRemove(records[m], data, ctx)
          PROVE  announced'[m].by = Owner(m)
      <3> DEFINE client == RemovalClient(records[m], data, ctx)
      <3>1. /\ announced'[m].by = RemovedBy(data, ctx)
            /\ records'[m] = WithState(records[m], "DISMISSED", client, now)
        BY <2>1, <2>t, RemoveAnnounces
      <3>2. client \in Requesters \cup {None}
        BY <2>t, RemovalClientType, ManagerAssumption
      <3>3. client = None
        <4> HIDE DEF client
        <4> SUFFICES ASSUME client # None  PROVE FALSE
          OBVIOUS
        <4>1. client \in Requesters /\ now \in Nat /\ records[m] \in StoredNotification
          BY <2>t, <3>2
        <4>2. WithState(records[m], "DISMISSED", client, now).state = records[m].state
          BY <4>1 DEF WithState, StoredNotification
        <4> QED  BY <2>t, <3>1, <4>2
      <3>4. IsProducer(records[m], data, ctx)
        BY <2>1, <3>3 DEF RemovalClient, PerClientId, MayRemove
      <3> QED  BY <2>t, <3>1, <3>4, NoneIsNoValue
               DEF IsProducer, RemovedBy, Owner, StoredNotification, Notification
    <2>2. ASSUME NEW a \in Actions, NEW ctx \in Contexts, Interact(m, a, ctx)
          PROVE  announced'[m].by = "action"
      <3> DEFINE client == PerClientId(records[m], ConsumerId(ctx))
      <3>1. /\ announced'[m].by = (IF ConsumerId(ctx) = None THEN "action" ELSE ConsumerId(ctx))
            /\ records'[m] = WithState(records[m], "DISMISSED", client, now)
        BY <2>2, <2>t DEF Interact, Emitted, DismissedBy, TypeOK
      <3>2. client = ConsumerId(ctx) /\ client \in Requesters \cup {None}
        BY ConsumerIdType, ManagerAssumption DEF PerClientId, Requesters
      <3> HIDE DEF client
      <3>3. client \in Requesters /\ client # None =>
              WithState(records[m], "DISMISSED", client, now).state = records[m].state
        BY <2>t, WithStateForClient
      <3> QED  BY <2>t, <3>1, <3>2, <3>3
    <2> QED  BY <2>t, <2>1, <2>2, OnlyTwoDismiss
  <1> QED  BY <1>1, TypeCorrect, PTL DEF Spec, PerClientOnlyHides

\* An accepted set is seen in the history, however much of it is trimmed.
LEMMA AcceptIsRecorded ==
  ASSUME NEW h \in Seq(Nat), NEW t \in Nat
  PROVE  Append(Recent(h, t), t) # h
  <1> SUFFICES ASSUME Append(Recent(h, t), t) = h  PROVE FALSE
    OBVIOUS
  <1> DEFINE recent == Recent(h, t)
  <1>1. recent \in Seq(Nat) /\ Len(recent) \in Nat
    BY RecentType
  <1>2. /\ Len(h) = Len(recent) + 1 /\ h[Len(recent) + 1] = t
        /\ \A i \in 1..Len(recent) : h[i] = recent[i]
    BY <1>1, AppendProperties
  <1>3. CASE RateLimit <= 0
    <2>1. recent = h
      BY <1>3 DEF Recent
    <2> QED  BY <1>1, <1>2, <2>1
  <1>4. CASE ~(RateLimit <= 0)
    <2> DEFINE old == {i \in DOMAIN h : \A j \in 1..i : h[j] < t - RateWindow}
               k == Cardinality(old)
    <2>1. old \in SUBSET (1..Len(h)) /\ Len(h) \in Nat
      OBVIOUS
    <2>2. IsFiniteSet(old) /\ k \in Nat /\ k <= Len(h)
      <3>1. IsFiniteSet(1..Len(h)) /\ Cardinality(1..Len(h)) = Len(h)
        <4>1. /\ IsFiniteSet(1..Len(h))
              /\ Cardinality(1..Len(h)) = IF 1 > Len(h) THEN 0 ELSE Len(h) - 1 + 1
          <5>1. 1 \in Int /\ Len(h) \in Int
            BY <2>1
          <5> QED  BY ONLY <5>1, FS_Interval
        <4> QED  BY <2>1, <4>1
      <3>2. IsFiniteSet(old) /\ k <= Len(h)
        BY <2>1, <3>1, FS_Subset
      <3>3. k \in Nat
        BY <3>2, FS_CardinalityType
      <3> QED  BY <3>2, <3>3
    <2>3. recent = SubSeq(h, k + 1, Len(h))
      BY <1>4 DEF Recent
    <2>4. /\ Len(recent) = IF k + 1 <= Len(h) THEN Len(h) - (k + 1) + 1 ELSE 0
          /\ \A i \in 1..(Len(h) - (k + 1) + 1) : recent[i] = h[k + 1 + i - 1]
      <3>1. \A i \in (k + 1)..Len(h) : h[i] \in Nat
        BY <2>2
      <3> HIDE DEF k, recent
      <3> QED  BY <2>1, <2>2, <2>3, <3>1, SubSeqProperties
    <2>6. k = 1
      <3> HIDE DEF k, recent
      <3> QED  BY <1>1, <1>2, <2>1, <2>2, <2>4
    <2>7. \E x : old = {x}
      BY <2>2, <2>6, FS_Singleton
    <2>8. old = {1} /\ h[1] < t - RateWindow
      BY <2>1, <2>7
    <2>9. CASE Len(h) = 1
      <3> HIDE DEF k, recent
      <3>1. h[1] = t
        BY <1>1, <1>2, <2>9
      <3> QED  BY <2>8, <3>1, PolicyAssumption
    <2>10. CASE Len(h) # 1
      <3>1. 2 \in DOMAIN h /\ h[1] = h[2]
        <4> HIDE DEF k, recent
        <4> QED  BY <1>1, <1>2, <2>1, <2>4, <2>6, <2>10
      <3>2. \A j \in 1..2 : h[j] < t - RateWindow
        BY <2>8, <3>1
      <3>3. 2 \in old
        BY <3>1, <3>2
      <3> QED  BY <2>8, <3>3
    <2> QED  BY <2>9, <2>10
  <1> QED  BY <1>3, <1>4

\* For any durations and any number of restarts and re-snoozes, a reminder
\* comes no sooner than the renotify_at last announced.
THEOREM RemindersAreNeverEarly == Spec => NeverEarly
  <1>1. TypeOK /\ SnoozedIsArmed /\ [Next]_vars =>
          \A n \in Asleep :
            /\ accepted' = accepted
            /\ records'[n] # None /\ records'[n].state = "ACTIVE"
            => records[n].renotify_at <= now
    <2> SUFFICES ASSUME TypeOK, SnoozedIsArmed, [Next]_vars, NEW m \in Asleep,
                        accepted' = accepted, records'[m].state = "ACTIVE"
                 PROVE  records[m].renotify_at <= now
      OBVIOUS
    <2>t. /\ m \in Ids /\ now \in Nat /\ records[m] \in StoredNotification
          /\ records[m].state = "SNOOZED" /\ records[m].renotify_at \in Nat
      BY DEF Asleep, Live, TypeOK, SnoozedIsArmed, StoredNotification
    <2>0. records'[m] # records[m]
      BY <2>t
    <2>1. CASE Advance \/ Stop \/ AnnounceActive \/ UNCHANGED vars
      BY <2>0, <2>1 DEF Advance, Stop, AnnounceActive, vars
    <2>2. CASE Tick
      <3>1. CASE m \in Stale /\ ~Prunable(Swept(m))
        BY <2>2, <2>t, <3>1, SweptFields DEF Tick
      <3>2. CASE m \notin Stale /\ ~Prunable(Swept(m))
        BY <2>0, <2>2, <2>t, <3>2, SweptFields DEF Tick
      <3>3. CASE Prunable(Swept(m))
        <4>1. CASE m \in Stale
          BY <2>t, <3>3, <4>1, SweptFields, ManagerAssumption DEF Prunable
        <4>2. CASE m \notin Stale
          BY <2>t, <3>3, <4>2, SweptFields DEF Prunable, IsLive, LiveStates
        <4> QED  BY <4>1, <4>2
      <3> QED  BY <3>1, <3>2, <3>3
    <2>3. CASE Restore
      <3>1. CASE m \in Stale
        BY <2>3, <2>t, <3>1, SweptFields DEF Restore
      <3>2. CASE m \in Ahead
        BY <2>0, <2>3, <2>t, <3>2 DEF Restore, Ahead, Swept
      <3>3. CASE m \notin Stale /\ m \notin Ahead
        BY <2>t, <3>3, NoneIsNoValue DEF Ahead
      <3> QED  BY <3>1, <3>2, <3>3
    <2>4. ASSUME NEW n \in Ids, NEW p \in Payloads, NEW ctx \in Contexts, Set(n, p, ctx)
          PROVE  FALSE
      <3>1. p.skill_id \in Skills
        BY ManagerAssumption DEF Notification
      <3>2. accepted'[p.skill_id] = Append(Recent(accepted[p.skill_id], now), now)
        BY <2>0, <2>4, <3>1 DEF Set, TypeOK
      <3> QED  BY <2>t, <3>1, <3>2, AcceptIsRecorded DEF TypeOK
    <2>5. ASSUME NEW data \in RemoveData, NEW ctx \in Contexts, Remove(data, ctx)
          PROVE  FALSE
      <3>1. records'[m] = WithState(records[m], "DISMISSED",
                                    RemovalClient(records[m], data, ctx), now)
        BY <2>0, <2>5, <2>t DEF Remove
      <3> QED  BY <2>t, <3>1 DEF WithState, StoredNotification
    <2>6. ASSUME NEW n \in Ids, NEW d \in Durations, Snooze(n, d)
          PROVE  FALSE
      <3>1. records'[m] = Postponed(records[m], now + d) /\ now + d \in Nat
        BY <2>0, <2>6, <2>t, ManagerAssumption DEF Snooze, MaySnooze, TypeOK
      <3> QED  BY <2>t, <3>1, PostponedFields
    <2>7. ASSUME NEW n \in Ids, NEW a \in Actions, NEW ctx \in Contexts, Interact(n, a, ctx)
          PROVE  FALSE
      <3>1. records'[m] = WithState(records[m], "DISMISSED",
                                    PerClientId(records[m], ConsumerId(ctx)), now)
        BY <2>0, <2>7, <2>t DEF Interact, TypeOK
      <3> QED  BY <2>t, <3>1 DEF WithState, StoredNotification
    <2>8. ASSUME NEW ctx \in Contexts, NEW since \in {None} \cup 0..MaxTime, Sync(ctx, since)
          PROVE  FALSE
      BY <2>0, <2>8 DEF Sync
    <2>9. ASSUME NEW n \in Ids, Wake(n)
          PROVE  records[m].renotify_at <= now
      <3>1. n = m /\ timers[m] # None /\ timers[m] <= now
        BY <2>0, <2>9, <2>t DEF Wake, TypeOK
      <3>2. timers[m] = records[m].renotify_at
        BY <2>t, <3>1 DEF SnoozedIsArmed
      <3> QED  BY <3>1, <3>2
    <2> QED  BY <2>1, <2>2, <2>3, <2>4, <2>5, <2>6, <2>7, <2>8, <2>9 DEF Next
  <1> QED  BY <1>1, TypeCorrect, TimersFollowRecords, PTL DEF Spec, NeverEarly
==============================================================================
