----------------------------- MODULE EmissionRate -----------------------------
(***************************************************************************)
(* The sliding window of EmissionPolicy (policy.py) for one producer, step *)
(* by step: a worker of the bus that handles a set runs _rate_exceeded     *)
(* over the producer's deque without a lock and, once the manager has      *)
(* stored the notification, calls record_accepted.  The module keeps every *)
(* accept time in a log, of which the deque holds the part from head on.   *)
(* A rate_limit <= 0 turns all this off.                                   *)
(***************************************************************************)
EXTENDS Integers, Sequences

CONSTANTS
  Workers,     \* threads that handle set requests
  RateLimit,   \* accepts per window
  RateWindow,  \* its length
  MaxTime      \* last instant of the clock (bounds the model)

ASSUME RateAssumption ==
  RateLimit \in Nat \ {0} /\ RateWindow \in Nat /\ MaxTime \in Nat

VARIABLES
  now,      \* the clock
  log,      \* times of all accepts
  head,     \* the deque is log[head..Len(log)]
  pc,       \* what each worker does next
  start,    \* the window_start each worker computed
  met       \* history: two workers have been in here at the same time

vars == <<now, log, head, pc, start, met>>

Steps == {"idle", "test", "peek", "pop", "count", "accept", "error"}

TypeOK ==
  /\ now \in Nat
  /\ log \in Seq(Nat)
  /\ head \in 1..(Len(log) + 1)
  /\ pc \in [Workers -> Steps]
  /\ start \in [Workers -> Int]
  /\ met \in BOOLEAN

Init ==
  /\ now = 0
  /\ log = <<>>
  /\ head = 1
  /\ pc = [w \in Workers |-> "idle"]
  /\ start = [w \in Workers |-> 0]
  /\ met = FALSE

HistoryLength == Len(log) - head + 1

NonEmpty == HistoryLength > 0

Outdated_AtStart(t, window_start) == t <= window_start

Outdated(t, window_start) == t < window_start

Full_Kept == Len(log) >= RateLimit

Full == HistoryLength >= RateLimit

Goto(w, step) == pc' = [pc EXCEPT ![w] = step]

Advance == now < MaxTime /\ now' = now + 1 /\ UNCHANGED <<log, head, pc, start, met>>

Enter(w) ==
  /\ pc[w] = "idle"
  /\ start' = [start EXCEPT ![w] = now - RateWindow]
  /\ Goto(w, "test")
  /\ met' = (met \/ \E v \in Workers : pc[v] # "idle")
  /\ UNCHANGED <<now, log, head>>

\* `while history and ...`
Test(w) ==
  /\ pc[w] = "test"
  /\ Goto(w, IF NonEmpty THEN "peek" ELSE "count")
  /\ UNCHANGED <<now, log, head, start, met>>

\* `... history[0] < window_start`, an IndexError on a deque emptied since.
Peek(w) ==
  /\ pc[w] = "peek"
  /\ Goto(w, IF HistoryLength <= 0 THEN "error"
             ELSE IF Outdated(log[head], start[w]) THEN "pop" ELSE "count")
  /\ UNCHANGED <<now, log, head, start, met>>

\* `history.popleft()`, whatever is leftmost by now.
Pop(w) ==
  /\ pc[w] = "pop"
  /\ IF HistoryLength <= 0
     THEN Goto(w, "error") /\ head' = head
     ELSE Goto(w, "test") /\ head' = head + 1
  /\ UNCHANGED <<now, log, start, met>>

Count(w) ==
  /\ pc[w] = "count"
  /\ Goto(w, IF Full THEN "idle" ELSE "accept")
  /\ UNCHANGED <<now, log, head, start, met>>

\* record_accepted reads the clock again, after the upsert.
Accept(w) ==
  /\ pc[w] = "accept"
  /\ log' = Append(log, now)
  /\ Goto(w, "idle")
  /\ UNCHANGED <<now, head, start, met>>

\* The exception ends the handler: the request gets no reply.
Fail(w) ==
  /\ pc[w] = "error"
  /\ Goto(w, "idle")
  /\ UNCHANGED <<now, log, head, start, met>>

Handle(w) ==
  \/ Enter(w) \/ Test(w) \/ Peek(w) \/ Pop(w) \/ Count(w) \/ Accept(w) \/ Fail(w)

Next == Advance \/ \E w \in Workers : Handle(w)

Spec == Init /\ [][Next]_vars

-------------------------------------------------------------------------------
(* Properties *)

(***************************************************************************)
(* As long as no two sets of the producer were handled at the same time,   *)
(* no window of rate_window, wherever it starts, holds more than           *)
(* rate_limit accepts: of rate_limit + 1 successive ones, the first is     *)
(* more than a window older than the last (policy.py:56-60).  Two that     *)
(* overlap may both pass the check before either is recorded.              *)
(***************************************************************************)
RateHeld ==
  ~met => \A i \in 1..(Len(log) - RateLimit) : log[i + RateLimit] - log[i] > RateWindow

(***************************************************************************)
(* A set is refused only to a producer that has rate_limit accepts no      *)
(* older than the window: trimming never stops short, however the handlers *)
(* interleave in the deque.                                                *)
(***************************************************************************)
RefusedOnlyWhenFull ==
  [][\A w \in Workers :
       pc[w] = "count" /\ pc'[w] = "idle" =>
         /\ Len(log) >= RateLimit
         /\ log[Len(log) - RateLimit + 1] >= start[w]]_vars
===============================================================================
