------------------------------- MODULE Payloads -------------------------------
(***************************************************************************)
(* What the plugin makes of the data of a set request (__init__.py) and of *)
(* the flat payloads of the legacy GUI API (legacy.py).  Constant-level.   *)
(*                                                                         *)
(* A payload is the dict the request's fields are in: the one under the    *)
(* key "notification", or the message's data itself when there is none.    *)
(***************************************************************************)
EXTENDS Integers

CONSTANTS
  Skills,   \* producers
  Styles,   \* values of NotificationStyle, INFO among them
  None      \* key absent

INFO == "info"

ASSUME PayloadsAssumption ==
  INFO \in Styles /\ None \notin Skills \cup Styles

\* data["notification"]: no such key, a value that is false, a dict, or
\* anything else (but no list of pairs, which dict() makes a dict of).
Nestings == {"absent", "falsy", "dict", "other"}

Payload ==
  [nested            : Nestings,
   text              : BOOLEAN,
   skill_id          : Skills \cup {None},
   sender            : Skills \cup {None},
   removable_by_user : BOOLEAN \cup {None},
   style             : Styles \cup {"unknown", None},
   type              : {"sticky", "transient", "unknown", None},
   action            : BOOLEAN,
   session           : BOOLEAN]

\* What the data model makes of it, as far as this code has a say.
Parsed ==
  [skill_id          : Skills,
   removable_by_user : BOOLEAN,
   style             : Styles,
   tray              : {"STICKY", "EPHEMERAL"},
   action            : BOOLEAN,
   session           : {"own", "context", None}]

\* The two ways it can fail: an exception _handle_set turns into a refusal,
\* and one it does not.
Refused == [failed |-> "refused"]
Raised == [failed |-> "raised"]

IsLegacyPayload(p) == p.nested = "absent" /\ p.text

NormalizedSkillId(p) == IF p.skill_id # None THEN p.skill_id ELSE p.sender

LegacyStyle(style) == IF style \in Styles THEN style ELSE INFO

LegacyTray(type) == IF type = "transient" THEN "EPHEMERAL" ELSE "STICKY"

LegacyToNotification(p, removable) ==
  IF NormalizedSkillId(p) = None THEN Refused
  ELSE [skill_id          |-> NormalizedSkillId(p),
        removable_by_user |-> removable,
        style             |-> LegacyStyle(p.style),
        tray              |-> LegacyTray(p.type),
        action            |-> p.action,
        session           |-> None]

\* NotificationSetData: its required fields and its defaults.
Validated(p, removable, session) ==
  IF NormalizedSkillId(p) = None \/ ~p.text \/ p.style = "unknown" \/ p.type = "unknown"
  THEN Refused
  ELSE [skill_id          |-> NormalizedSkillId(p),
        removable_by_user |-> (removable # FALSE),
        style             |-> IF p.style = None THEN INFO ELSE p.style,
        tray              |-> LegacyTray(p.type),
        action            |-> p.action,
        session           |-> session]

Controlled_Canonical(p, controlled) ==
  IF IsLegacyPayload(p) THEN TRUE ELSE IF controlled THEN FALSE ELSE p.removable_by_user

\* removable_by_user as the request has it: set.controlled overrides it, and
\* a legacy payload has none.
Controlled(p, controlled) ==
  IF controlled THEN FALSE ELSE IF IsLegacyPayload(p) THEN TRUE ELSE p.removable_by_user

\* _parse_notification, and what the handler makes of its failure.  Of a
\* "notification" that is no dict, dict() raises TypeError, which is not caught, or
\* ValueError, and then _requested_id raises AttributeError for it.
ParseNotification(p, controlled, context_session) ==
  LET removable == Controlled(p, controlled)
      session == IF p.session THEN "own" ELSE IF context_session THEN "context" ELSE None
      empty == [p EXCEPT !.text = FALSE]
  IN IF IsLegacyPayload(p) THEN LegacyToNotification(p, removable)
     ELSE IF p.nested = "other" THEN Raised
     ELSE Validated(IF p.nested = "dict" THEN p ELSE empty, removable, session)
===============================================================================
