-------------------------------- MODULE CatchUp --------------------------------
(***************************************************************************)
(* A node that is not listening while notifications change and catches up  *)
(* when it connects: it asks for a sync, whose server_time is its cursor   *)
(* for the next time, then lists what changed since the cursor it has.     *)
(* Retired entries are in the list for as long as the retention window;    *)
(* a node away for longer asks for everything.                             *)
(*                                                                         *)
(* The manager is NotificationManager, whose calls may come between the    *)
(* two of the node.                                                        *)
(***************************************************************************)
EXTENDS NotificationManager

CONSTANTS
  Node,   \* the node_id it lists with, and is known by
  User    \* its user_id, or None

ASSUME CatchUpAssumption ==
  Node \in Consumers /\ User \in Users \cup {None} /\ None \notin States

VARIABLES
  view,      \* what the node shows: id -> state, or None
  cursor,    \* server_time of its last complete catch-up, or None
  pending,   \* server_time of the one under way, or None
  missed     \* history: ids of which the node may have missed a change

catchUpVars == <<now, running, records, timers, accepted, announced, view, cursor, pending, missed>>
nodeVars == <<view, cursor, pending, missed>>

CatchUpTypeOK ==
  /\ TypeOK
  /\ view \in [Ids -> States \cup {None}]
  /\ cursor \in Nat \cup {None} /\ pending \in Nat \cup {None}
  /\ missed \subseteq Ids

CatchUpInit ==
  /\ Init
  /\ view = [n \in Ids |-> None]
  /\ cursor = None /\ pending = None
  /\ missed = {}

\* NotificationStore.list and its filters.
Matches(r, skill_id, state, since, node, user) ==
  /\ skill_id # None => r.notification.skill_id = skill_id
  /\ state # None => r.state = state
  /\ since # None => r.updated_at > since
  /\ AddressedTo(r, node, user)

Listed(skill_id, state, since, node, user) ==
  {n \in Ids : records[n] # None /\ Matches(records[n], skill_id, state, since, node, user)}

\* The node asks what is ACTIVE for it; the answer carries the time.
AskSync ==
  LET active == {n \in ActiveFor(Node, User) : cursor # None => records[n].updated_at > cursor} IN
  /\ running /\ pending = None
  /\ announced' = Emitted(active, Notified)
  /\ view' = [n \in Ids |-> IF n \in active THEN "ACTIVE" ELSE view[n]]
  /\ pending' = now
  /\ UNCHANGED <<now, running, records, timers, accepted, cursor, missed>>

\* An absence the tombstones cover.
WithinRetention == cursor # None /\ now - cursor <= Retention

AskList ==
  LET since == IF WithinRetention THEN cursor ELSE None
      listed == Listed(None, None, since, Node, User)
  IN
  /\ running /\ pending # None
  /\ view' = [n \in Ids |->
                CASE n \in listed                    -> StateForClient(records[n], Node)
                  [] n \notin listed /\ since # None -> view[n]
                  [] OTHER                           -> None]
  /\ cursor' = pending /\ pending' = None
  /\ missed' = IF since = None THEN {} ELSE missed
  /\ UNCHANGED <<now, running, records, timers, accepted, announced>>

\* A change the next list will not bring: made at the cursor's own instant, or
\* to a notification that is not for this node (any more).
Unseen(n) ==
  /\ records'[n] # records[n]
  /\ \/ cursor # None /\ now = cursor
     \/ records'[n] # None /\ ~AddressedTo(records'[n], Node, User)

\* One that it will bring.
Seen(n) == records'[n] # records[n] /\ records'[n] # None /\ ~Unseen(n)

Serve ==
  /\ Next
  /\ missed' = {n \in missed : ~Seen(n)} \cup {n \in Ids : Unseen(n)}
  /\ UNCHANGED <<view, cursor, pending>>

CatchUpNext == Serve \/ AskSync \/ AskList

CatchUpSpec == CatchUpInit /\ [][CatchUpNext]_catchUpVars

-------------------------------------------------------------------------------
(* Properties *)

\* What a node is to show of the record r.
Shows(state, r) ==
  IF r = None THEN state \notin LiveStates
              ELSE AddressedTo(r, Node, User) => state = StateForClient(r, Node)

(***************************************************************************)
(* README.md:80-86: each time a node has caught up, it shows the state of  *)
(* every notification for it, those dismissed elsewhere and since pruned   *)
(* included, unless the last change was made at the very instant of the    *)
(* cursor, or took the notification away from the node.                    *)
(***************************************************************************)
CaughtUp ==
  [][AskList => \A n \in Ids \ missed' : Shows(view'[n], records[n])]_catchUpVars
===============================================================================
