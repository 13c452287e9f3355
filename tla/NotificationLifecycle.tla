------------------------ MODULE NotificationLifecycle ------------------------
(***************************************************************************)
(* What the manager promises about each notification id, whatever happens: *)
(* the states an entry goes through, who may replace it, that every change *)
(* moves its sync cursor, and when it may be forgotten.  No timers, no     *)
(* policies, no restarts.  NotificationManager implements it.              *)
(***************************************************************************)
EXTENDS Integers

CONSTANTS Ids, Skills, Clients, Retention, None

VARIABLES
  clock,   \* the time
  entry    \* id -> [status, owner, hidden, at], or None when nothing is kept

Entry ==
  [status : {"ACTIVE", "SNOOZED", "DISMISSED", "EXPIRED"},
   owner  : Skills,
   hidden : SUBSET Clients,   \* clients for which it is dismissed
   at     : Nat]              \* time of the last change

Init ==
  /\ clock = 0
  /\ entry = [n \in Ids |-> None]

Becomes(n, status, hidden) ==
  entry'[n] = [status |-> status, owner |-> entry[n].owner, hidden |-> hidden, at |-> clock]

IsKept(n) == entry[n] # None
IsOpen(n) == IsKept(n) /\ entry[n].status \in {"ACTIVE", "SNOOZED"}
IsClosed(n) == IsKept(n) /\ entry[n].status \in {"DISMISSED", "EXPIRED"}

\* A producer publishes under a free id or replaces its own notification.
Publish(n) ==
  \E s \in Skills :
    /\ IsKept(n) => entry[n].owner = s
    /\ entry'[n] = [status |-> "ACTIVE", owner |-> s, hidden |-> {}, at |-> clock]

Postpone(n) == IsOpen(n) /\ Becomes(n, "SNOOZED", entry[n].hidden)

Resume(n) ==
  IsKept(n) /\ entry[n].status = "SNOOZED"
            /\ Becomes(n, "ACTIVE", entry[n].hidden)

Hide(n) ==
  IsOpen(n) /\ \E c \in Clients : Becomes(n, entry[n].status, entry[n].hidden \cup {c})

Close(n) ==
  IsOpen(n) /\ \E s \in {"DISMISSED", "EXPIRED"} :
                  Becomes(n, s, entry[n].hidden)

\* A tombstone is forgotten only when it is older than the retention window.
Forget(n) == IsClosed(n) /\ entry[n].at + Retention < clock /\ entry'[n] = None

Change(n) ==
  \/ Publish(n) \/ Postpone(n) \/ Resume(n) \/ Hide(n) \/ Close(n) \/ Forget(n)

\* One step may change several entries: sweeps and bulk removals do.
Serve ==
  /\ clock' = clock
  /\ entry' \in [Ids -> Entry \cup {None}]
  /\ \A n \in Ids : entry'[n] = entry[n] \/ Change(n)

Pass == clock' > clock /\ entry' = entry

Spec == Init /\ [][Serve \/ Pass]_<<clock, entry>>
==============================================================================
