----------------------------- MODULE CatchUpProofs -----------------------------
(***************************************************************************)
(* Theorems about CatchUp, for any retention window, any lengths of        *)
(* absence and everything the manager may do in between: a node that has   *)
(* caught up shows what the manager has.                                   *)
(***************************************************************************)
EXTENDS CatchUp, NotificationManagerProofs

-------------------------------------------------------------------------------
(* What the manager does to a record *)

Touched(n) == records'[n] \in StoredNotification /\ records'[n].updated_at = now

\* prune took it: retired, and older than the window.
Pruned(n) ==
  /\ records'[n] = None /\ records[n] \in StoredNotification
  /\ ~IsLive(records[n]) /\ records[n].updated_at < now - Retention

LEMMA PrunedOnly ==
  ASSUME TypeOK, NEW n \in Ids, Prunable(Swept(n))
  PROVE  /\ records[n] \in StoredNotification /\ ~IsLive(records[n])
         /\ records[n].updated_at < now - Retention
  <1>1. n \notin Stale
    <2>1. ASSUME n \in Stale  PROVE FALSE
      <3>1. Swept(n).updated_at = now /\ now \in Nat
        BY <2>1, SweptFields DEF TypeOK
      <3> QED  BY <3>1, ManagerAssumption DEF Prunable
    <2> QED  BY <2>1
  <1> QED  BY <1>1, SweptFields DEF Prunable, TypeOK

LEMMA WithStateTouches ==
  ASSUME NEW r \in StoredNotification, NEW c \in Requesters \cup {None}, now \in Nat
  PROVE  /\ WithState(r, "DISMISSED", c, now) \in StoredNotification
         /\ WithState(r, "DISMISSED", c, now).updated_at = now
  <1>1. "DISMISSED" \in States
    BY DEF States, RetiredStates
  <1>2. CASE c = None
    BY <1>1, <1>2, WithStateForAll
  <1>3. CASE c # None
    BY <1>3, WithStateForClient
  <1> QED  BY <1>2, <1>3

LEMMA ChangeOfRecord ==
  ASSUME TypeOK, Next, NEW n \in Ids
  PROVE  records'[n] = records[n] \/ Touched(n) \/ Pruned(n)
  <1> USE DEF TypeOK
  <1>1. CASE Tick
    <2>1. records'[n] = IF Prunable(Swept(n)) THEN None ELSE Swept(n)
      BY <1>1 DEF Tick
    <2> QED  BY <2>1, PrunedOnly, SweptFields DEF Touched, Pruned
  <1>2. CASE Restore
    <2>1. \/ records'[n] = Woken(records[n]) /\ records[n] \in StoredNotification
          \/ records'[n] = Swept(n)
      BY <1>2 DEF Restore, Asleep, Live
    <2> QED  BY <2>1, SweptFields, WokenFields DEF Touched
  <1>3. ASSUME NEW m \in Ids, NEW p \in Payloads, NEW ctx \in Contexts, Set(m, p, ctx)
        PROVE  records'[n] = records[n] \/ Touched(n)
    <2>1. FreshRecord(Resolved(p, ctx)).updated_at = now
      BY DEF FreshRecord
    <2>2. records'[n] = records[n] \/ records'[n] = FreshRecord(Resolved(p, ctx))
      BY <1>3 DEF Set
    <2>3. FreshRecord(Resolved(p, ctx)) \in StoredNotification
      BY ResolvedType, ManagerAssumption DEF FreshRecord, StoredNotification, States, LiveStates
    <2> QED  BY <2>1, <2>2, <2>3 DEF Touched
  <1>4. ASSUME NEW data \in RemoveData, NEW ctx \in Contexts, Remove(data, ctx)
        PROVE  records'[n] = records[n] \/ Touched(n)
    <2> DEFINE client == RemovalClient(records[n], data, ctx)
    <2>1. \/ records'[n] = records[n]
          \/ /\ records[n] \in StoredNotification
             /\ records'[n] = WithState(records[n], "DISMISSED", client, now)
      BY <1>4 DEF Remove, RemovalTargets, Live
    <2>2. records[n] \in StoredNotification => client \in Requesters \cup {None}
      BY RemovalClientType, ManagerAssumption
    <2> HIDE DEF client
    <2> QED  BY <2>1, <2>2, WithStateTouches DEF Touched
  <1>5. ASSUME NEW m \in Ids, NEW d \in Durations, Snooze(m, d)
        PROVE  records'[n] = records[n] \/ Touched(n)
    <2>1. now + d \in Nat /\ records[m] \in StoredNotification
      BY <1>5, ManagerAssumption DEF Snooze, MaySnooze
    <2> QED  BY <1>5, <2>1, PostponedFields DEF Snooze, Touched
  <1>6. ASSUME NEW m \in Ids, NEW a \in Actions, NEW ctx \in Contexts, Interact(m, a, ctx)
        PROVE  records'[n] = records[n] \/ Touched(n)
    <2> DEFINE client == PerClientId(records[m], ConsumerId(ctx))
    <2>1. /\ records' = [records EXCEPT ![m] = WithState(@, "DISMISSED", client, now)]
          /\ records[m] \in StoredNotification
      BY <1>6 DEF Interact, Live
    <2>2. client \in Requesters \cup {None}
      BY ConsumerIdType, ManagerAssumption DEF PerClientId, Requesters
    <2> HIDE DEF client
    <2> QED  BY <2>1, <2>2, WithStateTouches DEF Touched
  <1>7. ASSUME NEW m \in Ids, Wake(m)
        PROVE  records'[n] = records[n] \/ Touched(n)
    BY <1>7, WokenFields DEF Wake, Asleep, Live, Touched
  <1>8. ASSUME UNCHANGED records
        PROVE  records'[n] = records[n]
    BY <1>8
  <1> QED  BY <1>1, <1>2, <1>3, <1>4, <1>5, <1>6, <1>7, <1>8
           DEF Next, Advance, Stop, AnnounceActive, Sync

LEMMA ClockRuns ==
  ASSUME TypeOK, Next
  PROVE  now \in Nat /\ now' \in Nat /\ now <= now'
  <1>1. now' = now \/ now' = now + 1
    BY DEF Next, Advance, Tick, Restore, Stop, AnnounceActive, Set, Remove, Snooze, Interact, Sync,
           Wake
  <1> QED  BY <1>1 DEF TypeOK

-------------------------------------------------------------------------------
(* What a node can rely on between two catch-ups *)

IsFor(n) == records[n] # None /\ AddressedTo(records[n], Node, User)

\* The ids of which the node has missed nothing the next list will not bring.
Steady == Ids \ missed

NotAhead == /\ cursor # None => cursor <= now
            /\ pending # None => pending <= now

\* Its view is right of what has not changed since the cursor.
UpToDate ==
  cursor # None =>
    \A n \in Steady :
      IsFor(n) /\ records[n].updated_at <= cursor => view[n] = StateForClient(records[n], Node)

\* For as long as the window covers its absence, it shows nothing pruned.
Forgotten ==
  WithinRetention => \A n \in Steady : records[n] = None => view[n] \notin LiveStates

\* It shows nothing that is for others.
Strangers ==
  \A n \in Steady : records[n] # None /\ ~IsFor(n) => view[n] \notin LiveStates

IInv == CatchUpTypeOK /\ NotAhead /\ UpToDate /\ Forgotten /\ Strangers

LEMMA ClientStates ==
  ASSUME NEW r \in StoredNotification, NEW c
  PROVE  /\ StateForClient(r, c) \in States
         /\ ~IsLive(r) => StateForClient(r, c) \notin LiveStates
  BY DEF StateForClient, StoredNotification, States, LiveStates, RetiredStates, IsLive

LEMMA InitSteady == CatchUpInit => IInv
  <1> SUFFICES ASSUME CatchUpInit  PROVE IInv
    OBVIOUS
  <1>1. CatchUpTypeOK
    BY InitType DEF CatchUpInit, CatchUpTypeOK
  <1> QED  BY <1>1, CatchUpAssumption
           DEF CatchUpInit, Init, IInv, NotAhead, UpToDate, Forgotten, Strangers, WithinRetention,
               Steady, IsFor

\* The answer to a sync carries only what has changed since the cursor.
LEMMA AskSyncKeeps ==
  ASSUME IInv, AskSync
  PROVE  IInv'
  <1> DEFINE active == {n \in ActiveFor(Node, User) : cursor # None => records[n].updated_at > cursor}
  <1>1. /\ UNCHANGED <<now, running, records, timers, accepted, cursor, missed>>
        /\ announced' = Emitted(active, Notified) /\ pending' = now
        /\ view' = [n \in Ids |-> IF n \in active THEN "ACTIVE" ELSE view[n]]
    BY DEF AskSync
  <1>2. \A n \in active : IsFor(n) /\ (cursor # None => records[n].updated_at > cursor)
    BY DEF ActiveFor, Live, IsFor
  <1> HIDE DEF active
  <1>3. CatchUpTypeOK'
    <2>1. announced' \in [Ids -> Event \cup {None}]
      BY <1>1 DEF Emitted, Notified, Event, IInv, CatchUpTypeOK, TypeOK
    <2>2. "ACTIVE" \in States /\ now \in Nat
      BY DEF States, LiveStates, IInv, CatchUpTypeOK, TypeOK
    <2> QED  BY <1>1, <2>1, <2>2 DEF IInv, CatchUpTypeOK, TypeOK
  <1>4. NotAhead'
    BY <1>1 DEF IInv, CatchUpTypeOK, TypeOK, NotAhead
  <1>5. UpToDate'
    <2> SUFFICES ASSUME cursor # None, NEW n \in Steady, IsFor(n), records[n].updated_at <= cursor
                 PROVE  view'[n] = StateForClient(records[n], Node)
      BY <1>1 DEF UpToDate, Steady, IsFor
    <2>1. n \notin active
      BY <1>2 DEF IInv, CatchUpTypeOK, TypeOK, StoredNotification, IsFor, Steady
    <2> QED  BY <1>1, <2>1 DEF IInv, UpToDate, Steady
  <1>6. Forgotten'
    BY <1>1, <1>2 DEF IInv, Forgotten, WithinRetention, Steady, IsFor
  <1>7. Strangers'
    BY <1>1, <1>2 DEF IInv, Strangers, Steady, IsFor
  <1> QED  BY <1>3, <1>4, <1>5, <1>6, <1>7 DEF IInv

\* What a list makes of the node's view: everything kept for it, or its changes.
LEMMA AskListSees ==
  ASSUME IInv, AskList
  PROVE  /\ UNCHANGED <<now, running, records, timers, accepted, announced>>
         /\ pending # None /\ cursor' = pending /\ pending' = None
         /\ \/ /\ missed' = {}
               /\ \A n \in Ids : view'[n] = IF IsFor(n) THEN StateForClient(records[n], Node)
                                                     ELSE None
            \/ /\ missed' = missed /\ WithinRetention
               /\ \A n \in Ids :
                    view'[n] = IF IsFor(n) /\ records[n].updated_at > cursor
                               THEN StateForClient(records[n], Node) ELSE view[n]
         /\ view' \in [Ids -> States \cup {None}]
  <1> DEFINE since == IF WithinRetention THEN cursor ELSE None
             listed == Listed(None, None, since, Node, User)
             shown(n) == CASE n \in listed                    -> StateForClient(records[n], Node)
                           [] n \notin listed /\ since # None -> view[n]
                           [] OTHER                           -> None
  <1>1. /\ UNCHANGED <<now, running, records, timers, accepted, announced>>
        /\ pending # None /\ cursor' = pending /\ pending' = None
        /\ view' = [n \in Ids |-> shown(n)]
        /\ missed' = IF since = None THEN {} ELSE missed
    BY DEF AskList
  <1>2. since # None <=> WithinRetention
    BY DEF WithinRetention
  <1>3. \A n \in Ids : n \in listed <=> IsFor(n) /\ (since # None => records[n].updated_at > since)
    BY DEF Listed, Matches, IsFor
  <1>4. \A n \in listed : n \in Ids /\ StateForClient(records[n], Node) \in States
    BY ClientStates DEF Listed, IInv, CatchUpTypeOK, TypeOK
  <1>5. ASSUME NEW n \in Ids  PROVE shown(n) \in States \cup {None}
    BY <1>4 DEF IInv, CatchUpTypeOK
  <1>6. CASE ~WithinRetention
    <2>1. since = None /\ missed' = {}
      BY <1>1, <1>6
    <2>2. \A n \in Ids : n \in listed <=> IsFor(n)
      BY <1>3, <2>1
    <2> HIDE DEF listed, since
    <2>3. \A n \in Ids : shown(n) = IF IsFor(n) THEN StateForClient(records[n], Node) ELSE None
      BY <2>1, <2>2
    <2> QED  BY <1>1, <1>5, <2>1, <2>3
  <1>7. CASE WithinRetention
    <2>1. since # None /\ since = cursor /\ missed' = missed
      BY <1>1, <1>2, <1>7
    <2>2. \A n \in Ids : n \in listed <=> IsFor(n) /\ records[n].updated_at > cursor
      BY <1>3, <2>1
    <2> HIDE DEF listed, since
    <2>3. \A n \in Ids : shown(n) = IF IsFor(n) /\ records[n].updated_at > cursor
                                    THEN StateForClient(records[n], Node) ELSE view[n]
      BY <2>1, <2>2
    <2> QED  BY <1>1, <1>5, <1>7, <2>1, <2>3
  <1> QED  BY <1>6, <1>7

\* So a node that has listed shows what the manager has.
LEMMA AskListShows ==
  ASSUME IInv, AskList, NEW n \in Ids \ missed'
  PROVE  Shows(view'[n], records[n])
  <1>1. records[n] # None => records[n] \in StoredNotification
    BY DEF IInv, CatchUpTypeOK, TypeOK
  <1>2. None \notin LiveStates
    BY CatchUpAssumption DEF States
  <1>3. CASE missed' = {}
           /\ \A m \in Ids : view'[m] = IF IsFor(m) THEN StateForClient(records[m], Node) ELSE None
    BY <1>2, <1>3 DEF Shows, IsFor
  <1>4. CASE /\ missed' = missed /\ WithinRetention
             /\ \A m \in Ids :
                  view'[m] = IF IsFor(m) /\ records[m].updated_at > cursor
                             THEN StateForClient(records[m], Node) ELSE view[m]
    <2>1. n \in Steady /\ cursor # None /\ cursor \in Nat
      BY <1>4 DEF Steady, WithinRetention, IInv, CatchUpTypeOK
    <2>2. CASE records[n] = None
      BY <1>4, <2>1, <2>2 DEF IInv, Forgotten, Shows, IsFor
    <2>3. CASE records[n] # None
      <3>1. records[n].updated_at \in Nat
        BY <1>1, <2>3 DEF StoredNotification
      <3> QED  BY <1>4, <2>1, <2>3, <3>1 DEF IInv, UpToDate, Shows, IsFor
    <2> QED  BY <2>2, <2>3
  <1> QED  BY <1>3, <1>4, AskListSees

LEMMA AskListKeeps ==
  ASSUME IInv, AskList
  PROVE  IInv'
  <1>1. /\ UNCHANGED <<now, running, records, timers, accepted, announced>>
        /\ pending # None /\ cursor' = pending /\ pending' = None
        /\ missed' = {} \/ missed' = missed
        /\ view' \in [Ids -> States \cup {None}]
    BY AskListSees
  <1>2. \A n \in Steady' : n \in Ids /\ Shows(view'[n], records[n])
    BY AskListShows DEF Steady
  <1>3. CatchUpTypeOK'
    BY <1>1 DEF IInv, CatchUpTypeOK, TypeOK
  <1>4. NotAhead'
    BY <1>1 DEF IInv, NotAhead
  <1>5. UpToDate'
    BY <1>1, <1>2 DEF UpToDate, Shows, IsFor
  <1>6. Forgotten'
    BY <1>1, <1>2 DEF Forgotten, Shows
  <1>7. Strangers'
    <2> SUFFICES ASSUME NEW n \in Steady', records[n] # None, ~IsFor(n)
                 PROVE  view'[n] \notin LiveStates
      BY <1>1 DEF Strangers, IsFor
    <2>1. n \in Ids /\ None \notin LiveStates
      BY CatchUpAssumption DEF Steady, States
    <2> QED  BY <2>1, AskListSees DEF IInv, Strangers, Steady
  <1> QED  BY <1>3, <1>4, <1>5, <1>6, <1>7 DEF IInv

\* The manager goes on: what it changes is newer than the cursor, or missed;
\* what it prunes within the window the node had been told is over.
LEMMA ServeKeeps ==
  ASSUME IInv, Serve
  PROVE  IInv'
  <1>1. /\ Next /\ TypeOK /\ UNCHANGED <<view, cursor, pending>>
        /\ missed' = {n \in missed : ~Seen(n)} \cup {n \in Ids : Unseen(n)}
    BY DEF Serve, IInv, CatchUpTypeOK
  <1>2. now \in Nat /\ now' \in Nat /\ now <= now'
    BY <1>1, ClockRuns
  <1>3. cursor \in Nat \cup {None} /\ pending \in Nat \cup {None} /\ None \notin Nat
        /\ (cursor # None => cursor <= now)
    BY NoneIsNoValue DEF IInv, CatchUpTypeOK, NotAhead
  <1>4. CatchUpTypeOK'
    <2>1. TypeOK'
      BY <1>1, TypeKept
    <2> QED  BY <1>1, <2>1 DEF IInv, CatchUpTypeOK
  <1>5. NotAhead'
    BY <1>1, <1>2, <1>3 DEF IInv, NotAhead
  <1>6. ASSUME NEW n \in Steady'
        PROVE  /\ n \in Ids /\ ~Unseen(n)
               /\ \/ n \in Steady /\ records'[n] = records[n]
                  \/ Touched(n) /\ IsFor(n)' /\ (cursor # None => now > cursor)
                  \/ n \in Steady /\ Pruned(n)
    <2>1. n \in Ids /\ ~Unseen(n) /\ (n \in Steady \/ Seen(n))
      BY <1>1 DEF Steady
    <2>2. records'[n] = records[n] \/ Touched(n) \/ Pruned(n)
      BY <1>1, <2>1, ChangeOfRecord
    <2>3. CASE records'[n] = records[n]
      BY <2>1, <2>3 DEF Seen
    <2>4. CASE records'[n] # records[n] /\ Touched(n)
      <3>1. records'[n] # None
        BY <2>4, NoneIsNoRecord DEF Touched
      <3>2. ~(cursor # None /\ now = cursor) /\ AddressedTo(records'[n], Node, User)
        BY <2>1, <2>4, <3>1 DEF Unseen
      <3>3. IsFor(n)'
        BY <3>1, <3>2 DEF IsFor
      <3>4. cursor # None => now > cursor
        BY <1>2, <1>3, <3>2
      <3> QED  BY <2>1, <2>4, <3>3, <3>4
    <2>5. CASE records'[n] # records[n] /\ Pruned(n)
      BY <2>1, <2>5 DEF Seen, Pruned
    <2> QED  BY <2>1, <2>2, <2>3, <2>4, <2>5
  <1>7. UpToDate'
    <2> SUFFICES ASSUME cursor # None, NEW n \in Steady', IsFor(n)', records'[n].updated_at <= cursor
                 PROVE  view[n] = StateForClient(records'[n], Node)
      BY <1>1 DEF UpToDate
    <2>1. CASE n \in Steady /\ records'[n] = records[n]
      BY <2>1 DEF IInv, UpToDate, IsFor
    <2>2. CASE Touched(n) /\ now > cursor
      BY <1>2, <1>3, <2>2 DEF Touched
    <2>3. CASE Pruned(n)
      BY <2>3 DEF Pruned, IsFor
    <2> QED  BY <1>6, <2>1, <2>2, <2>3
  <1>8. Forgotten'
    <2> SUFFICES ASSUME WithinRetention', NEW n \in Steady', records'[n] = None
                 PROVE  view[n] \notin LiveStates
      BY <1>1 DEF Forgotten
    <2>1. WithinRetention /\ cursor \in Nat /\ now - cursor <= Retention
      <3>1. cursor # None /\ now' - cursor <= Retention
        BY <1>1 DEF WithinRetention
      <3>2. cursor \in Nat
        BY <1>3, <3>1
      <3>3. now - cursor <= Retention
        <4>1. \A a, b \in Nat, c \in Nat, d \in Nat : a <= b /\ b - c <= d => a - c <= d
          OBVIOUS
        <4> QED  BY <1>2, <3>1, <3>2, <4>1, ManagerAssumption
      <3> QED  BY <3>1, <3>2, <3>3 DEF WithinRetention
    <2>2. CASE n \in Steady /\ records'[n] = records[n]
      BY <2>1, <2>2 DEF IInv, Forgotten
    <2>3. CASE n \in Steady /\ Pruned(n)
      <3>1. /\ records[n] \in StoredNotification /\ records[n] # None
            /\ ~IsLive(records[n]) /\ records[n].updated_at <= cursor
        BY <1>2, <2>1, <2>3, ManagerAssumption, NoneIsNoRecord DEF Pruned, StoredNotification
      <3>2. CASE IsFor(n)
        BY <2>1, <2>3, <3>1, <3>2, <1>3, ClientStates DEF IInv, UpToDate
      <3>3. CASE ~IsFor(n)
        BY <2>3, <3>1, <3>3 DEF IInv, Strangers
      <3> QED  BY <3>2, <3>3
    <2>4. ~IsFor(n)'
      BY DEF IsFor
    <2> QED  BY <1>6, <2>2, <2>3, <2>4
  <1>9. Strangers'
    <2> SUFFICES ASSUME NEW n \in Steady', records'[n] # None, ~IsFor(n)'
                 PROVE  view[n] \notin LiveStates
      BY <1>1 DEF Strangers
    <2>1. n \in Steady /\ records'[n] = records[n]
      BY <1>6 DEF Pruned
    <2> QED  BY <2>1 DEF IInv, Strangers, IsFor
  <1> QED  BY <1>4, <1>5, <1>7, <1>8, <1>9 DEF IInv

LEMMA SteadyKept == IInv /\ [CatchUpNext]_catchUpVars => IInv'
  <1> SUFFICES ASSUME IInv, [CatchUpNext]_catchUpVars  PROVE IInv'
    OBVIOUS
  <1>1. CASE UNCHANGED catchUpVars
    BY <1>1 DEF catchUpVars, IInv, CatchUpTypeOK, TypeOK, NotAhead, UpToDate, Forgotten, Strangers,
                WithinRetention, Steady, IsFor
  <1> QED  BY <1>1, ServeKeeps, AskSyncKeeps, AskListKeeps DEF CatchUpNext

-------------------------------------------------------------------------------
(***************************************************************************)
(* The node's view, its cursors and what it may have missed are within     *)
(* their types, whatever the manager does between its two requests.        *)
(***************************************************************************)
THEOREM CatchUpTypeCorrect == CatchUpSpec => []CatchUpTypeOK
  <1>1. IInv => CatchUpTypeOK
    BY DEF IInv
  <1> QED  BY InitSteady, SteadyKept, <1>1, PTL DEF CatchUpSpec

(***************************************************************************)
(* README.md:80-86, for any retention window and any absence: each time a  *)
(* node has caught up it shows the state of every notification for it,     *)
(* those dismissed elsewhere and since pruned included, but for the        *)
(* changes made at the cursor's own instant or that took a notification    *)
(* away from the node.                                                     *)
(***************************************************************************)
THEOREM NodesCatchUp == CatchUpSpec => CaughtUp
  <1>1. IInv /\ [CatchUpNext]_catchUpVars =>
          [AskList => \A n \in Ids \ missed' : Shows(view'[n], records[n])]_catchUpVars
    BY AskListShows
  <1> QED  BY InitSteady, SteadyKept, <1>1, PTL DEF CatchUpSpec, CaughtUp
===============================================================================
