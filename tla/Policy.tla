------------------------------- MODULE Policy -------------------------------
(***************************************************************************)
(* The decisions of policy.py and authorization.py, without side effects:  *)
(* what a producer may emit, who may remove what, what may be snoozed.     *)
(***************************************************************************)
EXTENDS Notifications

CONSTANTS
  AllowGlobal,         \* skills that may emit GLOBAL notifications
  AllowNonRemovable,   \* skills that may emit non-removable ones
  AllowedConsumers,    \* dismiss allowlist; None when the key is empty or absent
  BlockedConsumers,    \* dismiss blocklist
  RateLimit,           \* accepted sets per producer per window; <= 0 is no limit
  RateWindow           \* length of that window

ASSUME PolicyAssumption ==
  /\ AllowGlobal \subseteq Skills /\ AllowNonRemovable \subseteq Skills
  /\ BlockedConsumers \subseteq Requesters
  /\ AllowedConsumers = None \/ AllowedConsumers \subseteq Requesters
  /\ RateLimit \in Int /\ RateWindow \in Nat

(***************************************************************************)
(* EmissionPolicy.check, first its two allowlists, then the rate limit on  *)
(* the history of accept times, which it trims as a side effect.           *)
(***************************************************************************)
MayEmit(n) ==
  /\ n.scope = "GLOBAL" => n.skill_id \in AllowGlobal
  /\ ~n.removable_by_user => n.skill_id \in AllowNonRemovable

Recent(history, t) ==
  LET old == {i \in DOMAIN history : \A j \in 1..i : history[j] < t - RateWindow}
  IN  IF RateLimit <= 0 THEN history
      ELSE SubSeq(history, Cardinality(old) + 1, Len(history))

RateExceeded(history, t) == RateLimit > 0 /\ Len(Recent(history, t)) >= RateLimit

(***************************************************************************)
(* Removal.  A request names a notification, a producer, or both, and may  *)
(* carry the identity of the consumer that dismisses.                      *)
(***************************************************************************)
RemoveData ==
  [notification_id : Ids \cup {None},
   skill_id        : Skills \cup {None},
   dismissed_by    : Requesters \cup {None}]

Requester(data, ctx) ==
  CASE data.dismissed_by # None -> data.dismissed_by
    [] data.dismissed_by = None /\ data.skill_id # None -> data.skill_id
    [] OTHER -> ConsumerId(ctx)

MayDismiss_AllowlistWins(consumer) ==
  IF AllowedConsumers # None THEN consumer \in AllowedConsumers
                             ELSE consumer \notin BlockedConsumers

MayDismiss(consumer) ==
  /\ consumer \notin BlockedConsumers
  /\ AllowedConsumers # None => consumer \in AllowedConsumers

PerClientId_Shared(r, consumer) == None

PerClientId(r, consumer) == IF r.notification.per_client THEN consumer ELSE None

IsProducer(r, data, ctx) == Requester(data, ctx) = r.notification.skill_id

MayRemove_AnyConsumer(r, data, ctx) ==
  IsProducer(r, data, ctx) \/ MayDismiss(Requester(data, ctx))

\* authorize_removal: the verdict, the client to record, and who dismissed.
MayRemove(r, data, ctx) ==
  \/ IsProducer(r, data, ctx)
  \/ /\ MayDismiss(Requester(data, ctx))
     /\ r.notification.removable_by_user
     /\ r.notification.per_client => Requester(data, ctx) # None

RemovalClient(r, data, ctx) ==
  IF IsProducer(r, data, ctx) THEN None ELSE PerClientId(r, Requester(data, ctx))

RemovedBy(data, ctx) ==
  IF Requester(data, ctx) = None THEN "unknown" ELSE Requester(data, ctx)

MaySnooze_AnyDuration(r, duration) == r # None /\ IsLive(r)

MaySnooze(r, duration) == r # None /\ IsLive(r) /\ duration > 0
==============================================================================
