------------------------------- MODULE MCCatchUp -------------------------------
(***************************************************************************)
(* A node of CatchUp for TLC, with notifications for everyone, for it and  *)
(* for another one.                                                        *)
(***************************************************************************)
EXTENDS CatchUp, MCManager

CatchUpPayloads ==
  {[Shared EXCEPT !.expires_at = 2],
   [PerClient EXCEPT !.expires_at = None, !.target = c1],
   [Plain EXCEPT !.scope = "CLIENT", !.target = c2]}

CatchUpDurations == {-1, 1}
CatchUpContexts == {FromNode}
===============================================================================
