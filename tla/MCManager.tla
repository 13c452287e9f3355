------------------------------ MODULE MCManager ------------------------------
(***************************************************************************)
(* Small instances of NotificationManager for TLC: the producers' payloads *)
(* and the message contexts, picked so that every scope, dismiss policy,   *)
(* expiry and kind of requester occurs.                                    *)
(***************************************************************************)
EXTENDS NotificationManager

CONSTANTS s1, s2, c1, c2, u1, a1, a2

NoOne ==
  [node_id |-> None, client_id |-> None, session_id |-> LocalSession,
   user_id |-> None, username |-> LocalUser, user_profiles |-> <<>>]

\* A request relayed from the node c1, and one from a client of user u1.
FromNode == [NoOne EXCEPT !.node_id = c1, !.session_id = c2]
FromClient == [NoOne EXCEPT !.client_id = c1, !.user_profiles = <<None, u1>>]
FromOther == [NoOne EXCEPT !.session_id = c2, !.username = u1]

Plain ==
  [skill_id |-> s1, scope |-> "GLOBAL", target |-> None, per_client |-> FALSE,
   removable_by_user |-> TRUE, expires_at |-> None, closing_actions |-> {}]

Shared == [Plain EXCEPT !.closing_actions = {a1}]
PerClient == [Plain EXCEPT !.scope = "CLIENT", !.per_client = TRUE, !.expires_at = 2,
                           !.closing_actions = {a1}]
Kept == [Plain EXCEPT !.scope = "USER", !.target = u1, !.removable_by_user = FALSE]
PerClientKept == [Plain EXCEPT !.per_client = TRUE, !.removable_by_user = FALSE]
Foreign == [Plain EXCEPT !.skill_id = s2, !.scope = "USER", !.target = u1, !.expires_at = 1]
ForeignGlobal == [Plain EXCEPT !.skill_id = s2]

\* One id, everything that can happen to it.
OneIdPayloads == {Shared, PerClient, Kept, Foreign, ForeignGlobal}
OneIdContexts == {NoOne, FromNode}
OneIdDurations == {-1, 1, 2}

\* Two ids, everyone who can remove them.
TwoIdPayloads == {Plain, PerClientKept, [PerClient EXCEPT !.closing_actions = {}],
                  [Foreign EXCEPT !.expires_at = None]}
TwoIdContexts == {NoOne, FromClient, FromOther}

\* One id, the events that decide when a snooze or a stale record ends.
TimedPayloads == {[PerClient EXCEPT !.expires_at = None], [Shared EXCEPT !.expires_at = 1]}
TimedContexts == {FromNode}
==============================================================================
