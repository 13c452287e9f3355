---------------------------- MODULE Notifications ----------------------------
(***************************************************************************)
(* The values the Notification Manager handles: notifications, the stored  *)
(* records that wrap them (store.py), and the requester identities taken   *)
(* from a message context (identity.py).  Constant-level: no variables.    *)
(*                                                                         *)
(* Text, style, display hints, session, callback data and created_at are   *)
(* left out: no decision of the manager reads them.                        *)
(***************************************************************************)
EXTENDS Integers, Sequences, FiniteSets

CONSTANTS
  Ids,        \* notification ids
  Skills,     \* producers
  Consumers,  \* identities a consumer can have (node, client, session id)
  Users,      \* user names
  Actions,    \* action ids
  None        \* Python's None

ASSUME NoneIsNoValue ==
  /\ None \notin Ids \cup Skills \cup Consumers \cup Users \cup Actions
  /\ None \notin Nat

LocalSession == "default"
LocalUser == "local"

(***************************************************************************)
(* Who sent a message, as far as its context tells.                        *)
(***************************************************************************)
Context ==
  [node_id       : Consumers \cup {None},
   client_id     : Consumers \cup {None},
   session_id    : Consumers \cup {None, LocalSession},
   user_id       : Users \cup {None},
   username      : Users \cup {None, LocalUser},
   user_profiles : Seq(Users \cup {None})]

ConsumerId(ctx) ==
  CASE ctx.node_id # None   -> ctx.node_id
    [] ctx.node_id = None /\ ctx.client_id # None -> ctx.client_id
    [] OTHER -> IF ctx.session_id = LocalSession THEN None ELSE ctx.session_id

UserId(ctx) ==
  LET named == SelectSeq(ctx.user_profiles, LAMBDA u : u # None) IN
  CASE ctx.user_id # None -> ctx.user_id
    [] ctx.user_id = None /\ ctx.username \notin {None, LocalUser} -> ctx.username
    [] OTHER -> IF named = <<>> THEN None ELSE Head(named)

(***************************************************************************)
(* Notifications and stored records.  closing_actions are the ids of the   *)
(* notification's actions that have dismiss_on_activate; any other action  *)
(* id, known or not, leaves the record alone.                              *)
(***************************************************************************)
Scopes == {"GLOBAL", "CLIENT", "USER"}
LiveStates == {"ACTIVE", "SNOOZED"}
RetiredStates == {"DISMISSED", "EXPIRED"}
States == LiveStates \cup RetiredStates

Notification ==
  [skill_id          : Skills,
   scope             : Scopes,
   target            : Consumers \cup Users \cup {None},
   per_client        : BOOLEAN,            \* dismiss_policy = PER_CLIENT
   removable_by_user : BOOLEAN,
   expires_at        : Nat \cup {None},
   closing_actions   : SUBSET Actions]

Requesters == Skills \cup Consumers \cup Users

StoredNotification ==
  [notification         : Notification,
   state                : States,
   renotify_at          : Nat \cup {None},
   dismissed_by_clients : SUBSET Requesters,
   updated_at           : Nat]

IsLive(r) == r.state \in LiveStates

StateForClient(r, client) ==
  IF client # None /\ client \in r.dismissed_by_clients THEN "DISMISSED" ELSE r.state

AddressedTo(r, node, user) ==
  \/ node = None /\ user = None
  \/ r.notification.scope = "GLOBAL"
  \/ r.notification.scope = "CLIENT" /\ node # None /\ r.notification.target = node
  \/ r.notification.scope = "USER" /\ user # None /\ r.notification.target = user

\* Faulty: a client's dismissal is no change of the record.
WithState_ClientUntouched(r, state, client, t) ==
  IF client # None
  THEN [r EXCEPT !.dismissed_by_clients = @ \cup {client}]
  ELSE [r EXCEPT !.state = state, !.updated_at = t]

\* NotificationStore.set_state: a client id records that client's dismissal
\* and leaves the shared state alone; either way the record is touched.
WithState(r, state, client, t) ==
  IF client # None
  THEN [r EXCEPT !.dismissed_by_clients = @ \cup {client}, !.updated_at = t]
  ELSE [r EXCEPT !.state = state, !.updated_at = t]
==============================================================================
