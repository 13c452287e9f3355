------------------------------- MODULE MCPlugin -------------------------------
(***************************************************************************)
(* Plugin for TLC: one payload of every form a set request can have.       *)
(***************************************************************************)
EXTENDS Plugin

CONSTANTS s1, s2

Canonical ==
  [nested |-> "dict", text |-> TRUE, skill_id |-> s1, sender |-> s2,
   removable_by_user |-> FALSE, style |-> None, type |-> None, action |-> TRUE,
   session |-> TRUE]

Aliased == [Canonical EXCEPT !.skill_id = None, !.session = FALSE, !.removable_by_user = None]
Legacy == [Aliased EXCEPT !.nested = "absent", !.style = "unknown", !.type = "unknown"]

Forms ==
  {Canonical, Aliased, Legacy, [Legacy EXCEPT !.sender = None], [Legacy EXCEPT !.text = FALSE],
   [Legacy EXCEPT !.removable_by_user = FALSE],
   [Aliased EXCEPT !.style = "unknown"], [Aliased EXCEPT !.nested = "falsy"],
   [Aliased EXCEPT !.nested = "other"]}
===============================================================================
