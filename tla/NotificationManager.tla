-------------------------- MODULE NotificationManager --------------------------
(***************************************************************************)
(* NotificationManager (manager.py) over its store (store.py) and snooze   *)
(* timers (scheduler.py), one request, timer or tick at a time.  Requests  *)
(* the manager refuses change nothing and are the absence of a step, but   *)
(* for the rate limiter's own bookkeeping.                                 *)
(***************************************************************************)
EXTENDS Policy

CONSTANTS
  Payloads,    \* the notifications producers send (bounds the inputs)
  Contexts,    \* the message contexts requests carry (bounds the inputs)
  Durations,   \* the snooze durations consumers ask for (bounds the inputs)
  Retention,   \* retention_max_age
  MaxTime      \* last instant of the clock (bounds the model)

ASSUME ManagerAssumption ==
  /\ Payloads \subseteq Notification
  /\ Contexts \subseteq Context
  /\ Durations \subseteq Int
  /\ Retention \in Nat /\ MaxTime \in Nat

VARIABLES
  now,        \* the clock
  running,    \* the plugin is constructed and not shut down
  records,    \* the store, which writes through to its file: id -> record or None
  timers,     \* the scheduler's timers: id -> fire_at or None
  accepted,   \* the emission policy's accept times: skill -> sequence of times
  announced   \* history: the last event emitted for each id, or None

vars == <<now, running, records, timers, accepted, announced>>

Event ==
  [kind : {"notify", "snoozed", "dismiss"},
   by   : Requesters \cup {"expired", "unknown", "action", None}]

\* An absent record or event is told from a present one.
ASSUME NoneIsNoRecord == None \notin StoredNotification \cup Event

Notified == [kind |-> "notify", by |-> None]
Snoozed == [kind |-> "snoozed", by |-> None]
DismissedBy(who) == [kind |-> "dismiss", by |-> who]

TypeOK ==
  /\ now \in Nat
  /\ running \in BOOLEAN
  /\ records \in [Ids -> StoredNotification \cup {None}]
  /\ timers \in [Ids -> Nat \cup {None}]
  /\ accepted \in [Skills -> Seq(Nat)]
  /\ announced \in [Ids -> Event \cup {None}]

Live == {n \in Ids : records[n] # None /\ IsLive(records[n])}
Asleep == {n \in Live : records[n].state = "SNOOZED"}
Owner(n) == records[n].notification.skill_id

\* Live records past their expires_at.
Stale ==
  {n \in Live : /\ records[n].notification.expires_at # None
                /\ records[n].notification.expires_at <= now}

\* cancel and cancel_all; a scheduler that keeps the timer is the faulty form.
Cancelled_Kept(S) == timers

Cancelled(S) == [n \in Ids |-> IF n \in S THEN None ELSE timers[n]]
Emitted(S, event) == [n \in Ids |-> IF n \in S THEN event ELSE announced[n]]

Init ==
  /\ now = 0
  /\ running = FALSE
  /\ records = [n \in Ids |-> None]
  /\ timers = [n \in Ids |-> None]
  /\ accepted = [s \in Skills |-> <<>>]
  /\ announced = [n \in Ids |-> None]

Advance ==
  /\ now < MaxTime
  /\ now' = now + 1
  /\ UNCHANGED <<running, records, timers, accepted, announced>>

-------------------------------------------------------------------------------
(* Producers *)

\* A CLIENT-scoped notification without a target takes the requester's identity.
Resolved(p, ctx) ==
  IF p.scope = "CLIENT" /\ p.target = None
  THEN [p EXCEPT !.target = ConsumerId(ctx)] ELSE p

FreshRecord(p) ==
  [notification |-> p, state |-> "ACTIVE", renotify_at |-> None,
   dismissed_by_clients |-> {}, updated_at |-> now]

\* The upsert.  A set over the rate limit only trims the producer's history.
Set(n, p, ctx) ==
  LET recent == Recent(accepted[p.skill_id], now) IN
  /\ running
  /\ records[n] # None => Owner(n) = p.skill_id
  /\ MayEmit(p)
  /\ \/ /\ RateExceeded(accepted[p.skill_id], now)
        /\ accepted' = [accepted EXCEPT ![p.skill_id] = recent]
        /\ UNCHANGED <<records, timers, announced>>
     \/ /\ ~RateExceeded(accepted[p.skill_id], now)
        /\ accepted' = [accepted EXCEPT ![p.skill_id] = Append(recent, now)]
        /\ timers' = Cancelled({n})
        /\ records' = [records EXCEPT ![n] = FreshRecord(Resolved(p, ctx))]
        /\ announced' = Emitted({n}, Notified)
  /\ UNCHANGED <<now, running>>

\* Live records a removal request selects; none when it is malformed.
RemovalTargets_AnyState(data) ==
  {n \in Ids : /\ records[n] # None
               /\ data.notification_id \in {None, n}
               /\ data.skill_id \in {None, Owner(n)}
               /\ data.notification_id # None \/ data.skill_id # None}

RemovalTargets(data) ==
  {n \in Live : /\ data.notification_id \in {None, n}
                /\ data.skill_id \in {None, Owner(n)}
                /\ data.notification_id # None \/ data.skill_id # None}

\* Every target is authorized on its own: some may be removed, others refused.
Remove(data, ctx) ==
  LET removed == {n \in RemovalTargets(data) : MayRemove(records[n], data, ctx)}
      client(n) == RemovalClient(records[n], data, ctx)
  IN
  /\ running
  /\ removed # {}
  /\ timers' = Cancelled({n \in removed : client(n) = None})
  /\ records' = [n \in Ids |-> IF n \in removed
                               THEN WithState(records[n], "DISMISSED", client(n), now)
                               ELSE records[n]]
  /\ announced' = Emitted(removed, DismissedBy(RemovedBy(data, ctx)))
  /\ UNCHANGED <<now, running, accepted>>

-------------------------------------------------------------------------------
(* Consumers *)

Postponed(r, t) == [r EXCEPT !.state = "SNOOZED", !.renotify_at = t, !.updated_at = now]

Snooze(n, duration) ==
  /\ running
  /\ MaySnooze(records[n], duration)
  /\ records' = [records EXCEPT ![n] = Postponed(@, now + duration)]
  /\ timers' = [timers EXCEPT ![n] = now + duration]
  /\ announced' = Emitted({n}, Snoozed)
  /\ UNCHANGED <<now, running, accepted>>

\* An activated action that closes its notification dismisses it, for the
\* client if it is PER_CLIENT and the client is known, else for everyone.
\* The forwarded copy of the interaction leaves the manager's state alone.
Interact(n, action, ctx) ==
  LET consumer == ConsumerId(ctx)
      client == PerClientId(records[n], consumer)
  IN
  /\ running
  /\ n \in Live
  /\ action \in records[n].notification.closing_actions
  /\ timers' = IF client = None THEN Cancelled({n}) ELSE timers
  /\ records' = [records EXCEPT ![n] = WithState(@, "DISMISSED", client, now)]
  /\ announced' = Emitted({n}, DismissedBy(IF consumer = None THEN "action" ELSE consumer))
  /\ UNCHANGED <<now, running, accepted>>

ActiveFor_Live(node, user) ==
  {n \in Live : /\ AddressedTo(records[n], node, user)
                /\ StateForClient(records[n], node) # "DISMISSED"}

ActiveFor(node, user) ==
  {n \in Live : /\ records[n].state = "ACTIVE"
                /\ AddressedTo(records[n], node, user)
                /\ StateForClient(records[n], node) = "ACTIVE"}

\* A node asks for what it missed since its cursor; mycroft.ready asks for all.
Sync(ctx, since) ==
  LET fresh == {n \in ActiveFor(ConsumerId(ctx), UserId(ctx)) :
                  since # None => records[n].updated_at > since}
  IN
  /\ running
  /\ announced' = Emitted(fresh, Notified)
  /\ UNCHANGED <<now, running, records, timers, accepted>>

AnnounceActive ==
  /\ running
  /\ announced' = Emitted(ActiveFor(None, None), Notified)
  /\ UNCHANGED <<now, running, records, timers, accepted>>

-------------------------------------------------------------------------------
(* Timers, ticks, restarts *)

Woken(r) == [r EXCEPT !.state = "ACTIVE", !.renotify_at = None, !.updated_at = now]

\* A due timer fires; _wake does nothing for a record no longer snoozed.
Wake(n) ==
  /\ timers[n] # None /\ timers[n] <= now
  /\ timers' = Cancelled({n})
  /\ \/ /\ n \in Asleep
        /\ records' = [records EXCEPT ![n] = Woken(@)]
        /\ announced' = Emitted({n}, Notified)
     \/ /\ n \notin Asleep
        /\ UNCHANGED <<records, announced>>
  /\ UNCHANGED <<now, running, accepted>>

\* The record of n once expire_stale has run.
Swept_ReportOnly(n) == records[n]

Swept(n) ==
  IF n \in Stale THEN WithState(records[n], "EXPIRED", None, now) ELSE records[n]

Prunable_AtWindow(r) ==
  r # None /\ ~IsLive(r) /\ r.updated_at <= now - Retention

Prunable(r) == r # None /\ ~IsLive(r) /\ r.updated_at < now - Retention

Tick ==
  /\ running
  /\ timers' = Cancelled(Stale)
  /\ records' = [n \in Ids |-> IF Prunable(Swept(n)) THEN None ELSE Swept(n)]
  /\ announced' = Emitted(Stale, DismissedBy("expired"))
  /\ UNCHANGED <<now, running, accepted>>

\* Snoozed records whose renotify_at is still ahead when the plugin starts.
Ahead_Forgotten == {n \in Ids : FALSE}

Ahead ==
  {n \in Asleep \ Stale : records[n].renotify_at # None /\ records[n].renotify_at > now}

Rearmed_Nothing == [n \in Ids |-> None]

Rearmed == [n \in Ids |-> IF n \in Ahead THEN records[n].renotify_at ELSE None]

\* The plugin starts over what the file holds: expire, then re-arm or wake.
Restore ==
  LET due == Asleep \ (Stale \cup Ahead) IN
  /\ ~running
  /\ running' = TRUE
  /\ records' = [n \in Ids |-> IF n \in due THEN Woken(records[n]) ELSE Swept(n)]
  /\ timers' = Rearmed
  /\ announced' = [n \in Ids |-> CASE n \in Stale -> DismissedBy("expired")
                                   [] n \in due   -> Notified
                                   [] OTHER       -> announced[n]]
  /\ UNCHANGED <<now, accepted>>

\* Shutdown, or a kill: the timers and the accept history are gone.
Stop ==
  /\ running
  /\ running' = FALSE
  /\ timers' = Cancelled(Ids)
  /\ accepted' = [s \in Skills |-> <<>>]
  /\ UNCHANGED <<now, records, announced>>

-------------------------------------------------------------------------------
Next ==
  \/ Advance \/ Tick \/ Restore \/ Stop \/ AnnounceActive
  \/ \E n \in Ids, p \in Payloads, ctx \in Contexts : Set(n, p, ctx)
  \/ \E data \in RemoveData, ctx \in Contexts : Remove(data, ctx)
  \/ \E n \in Ids, d \in Durations : Snooze(n, d)
  \/ \E n \in Ids, action \in Actions, ctx \in Contexts : Interact(n, action, ctx)
  \/ \E ctx \in Contexts, since \in {None} \cup 0..MaxTime : Sync(ctx, since)
  \/ \E n \in Ids : Wake(n)

Spec == Init /\ [][Next]_vars

\* Time passes, timer threads and the tick thread are scheduled, and a stopped
\* plugin is started again.
Fairness ==
  /\ WF_vars(Advance) /\ WF_vars(Tick) /\ WF_vars(Restore)
  /\ \A n \in Ids : WF_vars(Wake(n))

FairSpec == Spec /\ Fairness

-------------------------------------------------------------------------------
(* Properties *)

(***************************************************************************)
(* While the plugin runs, the scheduler holds a timer for exactly the      *)
(* snoozed notifications, set for the very instant promised to consumers   *)
(* (renotify_at); a stopped plugin has no timer left.  It takes snooze,    *)
(* every cancel, the wake-up and restore together to keep this.            *)
(***************************************************************************)
SnoozedIsArmed ==
  /\ \A n \in Asleep : records[n].renotify_at # None
  /\ timers = [n \in Ids |-> IF running /\ n \in Asleep
                            THEN records[n].renotify_at ELSE None]

\* The event e, the last about an id, agrees with the record r kept under it.
Agrees(r, e) ==
  LET hides == e # None /\ e.kind = "dismiss" /\ e.by \in r.dismissed_by_clients IN
  IF r = None THEN e = None \/ e.kind = "dismiss"
  ELSE /\ e # None
       /\ r.state = "ACTIVE"    => e = Notified \/ hides
       /\ r.state = "SNOOZED"   => e = Snoozed \/ hides
       /\ r.state = "DISMISSED" => e.kind = "dismiss"
       /\ r.state = "EXPIRED"   => e = DismissedBy("expired")

(***************************************************************************)
(* A consumer that does nothing but follow the events knows the state of   *)
(* every notification: the last event about it is the one its state calls  *)
(* for, or else the dismissal of a client the record counts as dismissing. *)
(* Replays (sync, mycroft.ready), restarts and pruning do not break it.    *)
(***************************************************************************)
LastEventAgrees == \A n \in Ids : Agrees(records[n], announced[n])

\* What is kept about an id, as the abstract lifecycle sees it.
EntryOf(r) ==
  IF r = None THEN None
  ELSE [status |-> r.state, owner |-> r.notification.skill_id,
        hidden |-> r.dismissed_by_clients, at |-> r.updated_at]

Lifecycle == INSTANCE NotificationLifecycle
  WITH Clients <- Requesters, clock <- now, entry <- [n \in Ids |-> EntryOf(records[n])]

ASSUME NoneIsNoEntry == None \notin Lifecycle!Entry

(***************************************************************************)
(* Every step of the manager, restarts and bulk operations included, does  *)
(* to each id what the lifecycle allows: nobody takes over another skill's *)
(* id, nothing retired comes back except by its producer's set, no change  *)
(* leaves the sync cursor behind, no tombstone goes before its window.     *)
(***************************************************************************)
ImplementsLifecycle == Lifecycle!Spec

\* This step dismisses n, for everyone or for one client.
Dismisses(n) ==
  /\ n \in Live /\ records'[n] # None
  /\ \/ records'[n].state = "DISMISSED"
     \/ ~(records'[n].dismissed_by_clients \subseteq records[n].dismissed_by_clients)

(***************************************************************************)
(* Unless an action of the notification closes it, a notification is       *)
(* dismissed only in the name of its producer, or, when removable_by_user, *)
(* of a consumer both dismiss lists let through: whichever of the three    *)
(* places a removal request takes its identity from, single or bulk.       *)
(***************************************************************************)
DismissalAuthorized ==
  [][\A n \in Ids :
       Dismisses(n) /\ records[n].notification.closing_actions = {} =>
         \/ announced'[n].by = Owner(n)
         \/ /\ records[n].notification.removable_by_user
            /\ announced'[n].by \notin BlockedConsumers
            /\ AllowedConsumers # None => announced'[n].by \in AllowedConsumers]_vars

(***************************************************************************)
(* A consumer with an identity never ends a PER_CLIENT notification for    *)
(* the others: one goes to DISMISSED only for its producer, or by a closing*)
(* action that nobody can be charged with.                                 *)
(***************************************************************************)
PerClientOnlyHides ==
  [][\A n \in Live :
       /\ records[n].notification.per_client
       /\ records'[n] # None /\ records'[n].state = "DISMISSED"
       => announced'[n].by \in {Owner(n), "action"}]_vars

(***************************************************************************)
(* A reminder is never early, whatever re-snoozes, restarts and shutdowns  *)
(* came since: but for a set of its producer, a snoozed notification goes  *)
(* back to ACTIVE no sooner than the last renotify_at it promised.         *)
(***************************************************************************)
NeverEarly ==
  [][\A n \in Asleep :
       /\ accepted' = accepted
       /\ records'[n] # None /\ records'[n].state = "ACTIVE"
       => records[n].renotify_at <= now]_vars

(***************************************************************************)
(* A snooze ends: for every renotify_at the clock reaches, a notification  *)
(* snoozed until then is at some time no longer so, even if the plugin is  *)
(* stopped and started in between (scheduler.py, restore).                 *)
(***************************************************************************)
SnoozeEnds ==
  \A n \in Ids, t \in 0..MaxTime :
    n \in Asleep /\ records[n].renotify_at = t ~> ~(n \in Asleep /\ records[n].renotify_at = t)

(***************************************************************************)
(* No notification outlives its expires_at for good: a tick or a restart   *)
(* retires it, unless its producer or a consumer does so first.            *)
(***************************************************************************)
StaleRetired == \A n \in Ids : n \in Stale ~> n \notin Stale

(***************************************************************************)
(* README.md:98-99, of PER_CLIENT: "a consumer dismissal records that      *)
(* client and leaves the shared state ACTIVE".  Fails: interact with a     *)
(* closing action and no identity in the context dismisses for everyone.   *)
(***************************************************************************)
PerClientStaysShared ==
  [][\A n \in Live :
       /\ records[n].notification.per_client
       /\ records'[n] # None /\ records'[n].state = "DISMISSED"
       => announced'[n].by = Owner(n)]_vars

(***************************************************************************)
(* policy.py:122-124, of "which consumers may dismiss or remove": "a       *)
(* consumer must be listed AND not blocked".  Fails: interact dismisses    *)
(* without asking ConsumerDismissPolicy.                                   *)
(***************************************************************************)
BlockedNeverDismisses ==
  [][\A n \in Ids :
       Dismisses(n) => announced'[n].by \notin BlockedConsumers \ {Owner(n)}]_vars
===============================================================================
