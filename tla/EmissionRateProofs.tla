-------------------------- MODULE EmissionRateProofs --------------------------
(***************************************************************************)
(* Theorems about EmissionRate.  As long as no two handlers overlap, the   *)
(* limit holds for any number of them, every limit, window and length of   *)
(* the run.                                                                *)
(***************************************************************************)
EXTENDS EmissionRate, SequenceTheorems, TLAPS

\* No clock is read out of order.
Sorted ==
  /\ \A i, j \in 1..Len(log) : i <= j => log[i] <= log[j]
  /\ \A i \in 1..Len(log) : log[i] <= now

\* What left the deque is older than any window that ends now or later.
DroppedAreOld == \A i \in 1..(head - 1) : log[i] < now - RateWindow

\* What a worker has found out so far still holds: nobody else came between.
Knows(w) ==
  /\ pc[w] # "idle" => start[w] <= now - RateWindow
  /\ pc[w] \in {"peek", "pop"} => NonEmpty
  /\ pc[w] = "pop" => log[head] < start[w]
  /\ pc[w] = "accept" => ~Full

Held == \A i \in 1..(Len(log) - RateLimit) : log[i + RateLimit] - log[i] > RateWindow

Alone == \A v, w \in Workers : pc[v] # "idle" /\ pc[w] # "idle" => v = w

Calm == Sorted /\ DroppedAreOld /\ Alone /\ (\A w \in Workers : Knows(w)) /\ Held

IInv == TypeOK /\ (~met => Calm)

\* Types are kept whoever steps.
LEMMA TypeKept ==
  ASSUME TypeOK, [Next]_vars  PROVE TypeOK'
  <1> USE RateAssumption DEF TypeOK, HistoryLength, NonEmpty, Full, Steps
  <1>1. CASE Advance
    BY <1>1 DEF Advance
  <1>2. ASSUME NEW w \in Workers, Handle(w)  PROVE TypeOK'
    <2>1. CASE Enter(w)  BY <2>1 DEF Enter, Goto
    <2>2. CASE Test(w)  BY <2>2 DEF Test, Goto
    <2>3. CASE Peek(w)  BY <2>3 DEF Peek, Goto
    <2>4. CASE Pop(w)  BY <2>4 DEF Pop, Goto
    <2>5. CASE Count(w)  BY <2>5 DEF Count, Goto
    <2>6. CASE Accept(w)
      <3>1. Append(log, now) \in Seq(Nat) /\ Len(Append(log, now)) = Len(log) + 1
        BY AppendProperties
      <3> QED  BY <2>6, <3>1 DEF Accept, Goto
    <2>7. CASE Fail(w)  BY <2>7 DEF Fail, Goto
    <2> QED  BY <1>2, <2>1, <2>2, <2>3, <2>4, <2>5, <2>6, <2>7 DEF Handle
  <1>3. CASE UNCHANGED vars
    BY <1>3 DEF vars
  <1> QED  BY <1>1, <1>2, <1>3 DEF Next

\* A worker that steps while all others are idle keeps the calm; the accept is
\* where it counts: the entry rate_limit places before the new one has left
\* the deque.
LEMMA WorkerKeepsCalm ==
  ASSUME NEW w \in Workers, TypeOK, TypeOK', Calm, Handle(w), ~met'
  PROVE  Calm'
  <1> USE RateAssumption DEF TypeOK, HistoryLength, NonEmpty, Full, Steps
  <1>0. \A v \in Workers \ {w} : pc[v] = "idle" /\ pc'[v] = "idle"
    BY DEF Calm, Alone, Handle, Enter, Test, Peek, Pop, Count, Accept, Fail, Goto
  <1>1. Alone' /\ (Knows(w)' => \A v \in Workers : Knows(v)')
    BY <1>0 DEF Alone, Knows
  <1>9. Knows(w) /\ Sorted /\ DroppedAreOld /\ Held
    BY DEF Calm
  <1> SUFFICES Knows(w)' /\ Sorted' /\ DroppedAreOld' /\ Held'
    BY <1>1 DEF Calm
  <1> USE <1>9
  <1>2. CASE Enter(w)
    BY <1>0, <1>2 DEF Enter, Goto, Sorted, DroppedAreOld, Knows, Held
  <1>3. CASE Test(w)
    BY <1>3 DEF Test, Goto, Sorted, DroppedAreOld, Knows, Held
  <1>4. CASE Peek(w)
    BY <1>4 DEF Peek, Goto, Outdated, Sorted, DroppedAreOld, Knows, Held
  <1>5. CASE Pop(w)
    <2>1. /\ pc[w] = "pop" /\ head' = head + 1 /\ pc' = [pc EXCEPT ![w] = "test"]
          /\ now' = now /\ log' = log /\ start' = start /\ log[head] < now - RateWindow
      BY <1>5 DEF Pop, Goto, Knows, Sorted
    <2>2. DroppedAreOld'
      <3> SUFFICES ASSUME NEW i \in 1..head  PROVE log[i] < now - RateWindow
        BY <2>1 DEF DroppedAreOld
      <3> QED  BY <2>1 DEF DroppedAreOld
    <2>3. Sorted' /\ Knows(w)' /\ Held'
      BY <2>1 DEF Sorted, Knows, Held
    <2> QED  BY <2>2, <2>3
  <1>6. CASE Count(w)
    BY <1>6 DEF Count, Goto, Sorted, DroppedAreOld, Knows, Held
  <1>7. CASE Accept(w)
    <2>1. /\ log' = Append(log, now) /\ now' = now /\ head' = head /\ start' = start
          /\ pc' = [pc EXCEPT ![w] = "idle"] /\ pc[w] = "accept"
      BY <1>7 DEF Accept, Goto
    <2>2. /\ log' \in Seq(Nat) /\ Len(log') = Len(log) + 1 /\ log'[Len(log) + 1] = now
          /\ \A i \in 1..Len(log) : log'[i] = log[i]
      BY <2>1, AppendProperties
    <2>3. Knows(w)'
      BY <2>1, <2>2 DEF Knows
    <2>4. Sorted' /\ DroppedAreOld'
      BY <2>1, <2>2 DEF Sorted, DroppedAreOld
    <2>5. Held'
      <3> SUFFICES ASSUME NEW i \in 1..(Len(log') - RateLimit)
                   PROVE  log'[i + RateLimit] - log'[i] > RateWindow
        BY DEF Held
      <3> USE <2>2
      <3>0. i \in Nat /\ i >= 1 /\ i + RateLimit <= Len(log) + 1 /\ Len(log) \in Nat
        OBVIOUS
      <3>1. CASE i + RateLimit <= Len(log)
        <4>1. i \in 1..Len(log) /\ i + RateLimit \in 1..Len(log)
          BY <3>0, <3>1
        <4>2. log'[i] = log[i] /\ log'[i + RateLimit] = log[i + RateLimit]
          BY <4>1
        <4>3. log[i + RateLimit] - log[i] > RateWindow
          BY <3>0, <3>1 DEF Held
        <4> QED  BY <4>2, <4>3
      <3>2. CASE i + RateLimit = Len(log) + 1
        <4>1. i < head /\ i \in 1..Len(log)
          BY <2>1, <3>2 DEF Knows
        <4>2. log[i] < now - RateWindow
          BY <4>1 DEF DroppedAreOld
        <4>3. log'[i] = log[i] /\ log'[i + RateLimit] = now
          BY <3>2, <4>1
        <4>4. log[i] \in Nat /\ now \in Nat /\ RateWindow \in Nat
          BY <4>1
        <4> QED  BY ONLY <4>2, <4>3, <4>4
      <3>3. \/ i + RateLimit <= Len(log)
            \/ i + RateLimit = Len(log) + 1
        <4>1. \A m, n \in Int : m <= n + 1 => m <= n \/ m = n + 1
          OBVIOUS
        <4>2. i + RateLimit \in Int /\ Len(log) \in Int
          BY <3>0
        <4> QED  BY ONLY <3>0, <4>1, <4>2
      <3> QED  BY <3>1, <3>2, <3>3
    <2> QED  BY <2>3, <2>4, <2>5
  <1>8. CASE Fail(w)
    BY <1>8 DEF Fail, Goto, Sorted, DroppedAreOld, Knows, Held
  <1> QED  BY <1>2, <1>3, <1>4, <1>5, <1>6, <1>7, <1>8 DEF Handle

LEMMA InitCalm == Init => IInv
  <1>1. <<>> \in Seq(Nat) /\ Len(<<>>) = 0
    BY EmptySeq
  <1> SUFFICES ASSUME Init  PROVE IInv
    OBVIOUS
  <1>2. TypeOK
    <2>1. pc \in [Workers -> Steps] /\ start \in [Workers -> Int]
      BY DEF Init, Steps
    <2>3. met \in BOOLEAN
      BY DEF Init
    <2>2. now \in Nat /\ log \in Seq(Nat) /\ head \in 1..(Len(log) + 1)
      BY <1>1 DEF Init
    <2> QED  BY <2>1, <2>2, <2>3 DEF TypeOK
  <1>4. \A w \in Workers : pc[w] = "idle"
    BY DEF Init
  <1>3. Sorted /\ DroppedAreOld /\ Held
    BY <1>1, RateAssumption DEF Init, Sorted, DroppedAreOld, Held
  <1> QED  BY <1>2, <1>3, <1>4 DEF IInv, Calm, Alone, Knows

LEMMA CalmUntilOverlap == Spec => []IInv
  <1>1. Init => IInv
    BY InitCalm
  <1>2. IInv /\ [Next]_vars => IInv'
    <2> SUFFICES ASSUME IInv, [Next]_vars, ~met'  PROVE TypeOK' /\ Calm'
      BY TypeKept DEF IInv
    <2>1. TypeOK /\ TypeOK'
      BY TypeKept DEF IInv
    <2>2. Calm
      BY DEF IInv, Next, Handle, Advance, Enter, Test, Peek, Pop, Count, Accept, Fail, vars
    <2>3. ASSUME Advance  PROVE Calm'
      <3>1. /\ now' = now + 1 /\ log' = log /\ head' = head /\ pc' = pc /\ start' = start
        BY <2>3 DEF Advance
      <3> QED  BY <2>1, <2>2, <3>1, RateAssumption
               DEF Calm, Alone, TypeOK, Sorted, DroppedAreOld, Knows, Held,
                   HistoryLength, NonEmpty, Full
    <2>4. ASSUME NEW w \in Workers, Handle(w)  PROVE Calm'
      BY <2>1, <2>2, <2>4, WorkerKeepsCalm
    <2>5. ASSUME UNCHANGED vars  PROVE Calm'
      <3>1. /\ now' = now /\ log' = log /\ head' = head /\ pc' = pc /\ start' = start
        BY <2>5 DEF vars
      <3>2. Sorted' /\ DroppedAreOld' /\ Held' /\ Alone'
        BY <2>2, <3>1 DEF Calm, Alone, Sorted, DroppedAreOld, Held
      <3>3. \A w \in Workers : Knows(w)'
        BY <2>2, <3>1 DEF Calm, Knows, HistoryLength, NonEmpty, Full
      <3> QED  BY <3>2, <3>3 DEF Calm
    <2>6. Calm'
      BY <2>3, <2>4, <2>5 DEF Next
    <2> QED  BY <2>1, <2>6
  <1> QED  BY <1>1, <1>2, PTL DEF Spec

\* As long as no two of any number of handlers overlap, no window of any
\* placement holds more than rate_limit accepts (policy.py:56-60).
THEOREM SeparateSetsHoldRate == Spec => []RateHeld
  <1>1. IInv => RateHeld
    BY DEF IInv, Calm, Held, RateHeld
  <1> QED  BY <1>1, CalmUntilOverlap, PTL

-------------------------------------------------------------------------------
(* Handlers that do overlap *)

\* A worker that is done trimming has an empty deque before it or entries inside
\* its window only: what others take away or add does not change that.
Trimmed(w) ==
  /\ pc[w] # "idle" => start[w] <= now
  /\ pc[w] = "count" => \A i \in 1..Len(log) : i >= head => log[i] >= start[w]

Earned == Sorted /\ \A w \in Workers : Trimmed(w)

LEMMA WorkerKeepsEarned ==
  ASSUME NEW w \in Workers, TypeOK, TypeOK', Earned, Handle(w)
  PROVE  Earned'
  <1> USE RateAssumption DEF TypeOK, HistoryLength, Steps
  <1>1. CASE Enter(w)
    BY <1>1 DEF Enter, Goto, Earned, Sorted, Trimmed
  <1>2. CASE Test(w)
    BY <1>2 DEF Test, Goto, NonEmpty, Earned, Sorted, Trimmed
  <1>3. CASE Peek(w)
    BY <1>3 DEF Peek, Goto, Outdated, Earned, Sorted, Trimmed
  <1>4. CASE Pop(w)
    BY <1>4 DEF Pop, Goto, Earned, Sorted, Trimmed
  <1>5. CASE Count(w)
    BY <1>5 DEF Count, Goto, Earned, Sorted, Trimmed
  <1>6. CASE Accept(w)
    <2>1. /\ log' = Append(log, now) /\ now' = now /\ head' = head /\ start' = start
          /\ pc' = [pc EXCEPT ![w] = "idle"]
      BY <1>6 DEF Accept, Goto
    <2>2. /\ Len(log') = Len(log) + 1 /\ log'[Len(log) + 1] = now
          /\ \A i \in 1..Len(log) : log'[i] = log[i]
      BY <2>1, AppendProperties
    <2>3. Sorted'
      BY <2>1, <2>2 DEF Earned, Sorted
    <2>4. ASSUME NEW v \in Workers  PROVE Trimmed(v)'
      BY <2>1, <2>2 DEF Earned, Trimmed
    <2> QED  BY <2>3, <2>4 DEF Earned
  <1>7. CASE Fail(w)
    BY <1>7 DEF Fail, Goto, Earned, Sorted, Trimmed
  <1> QED  BY <1>1, <1>2, <1>3, <1>4, <1>5, <1>6, <1>7 DEF Handle

\* However any number of handlers interleave in the deque, only a producer with
\* rate_limit accepts inside the window is refused (policy.py:110-117).
THEOREM RefusalsAreEarned == Spec => RefusedOnlyWhenFull
  <1> DEFINE Inv == TypeOK /\ Earned
  <1>1. Init => Inv
    <2>1. Init => IInv
      BY InitCalm
    <2> QED  BY <2>1 DEF Init, IInv, Earned, Trimmed, Sorted
  <1>2. Inv /\ [Next]_vars => Inv'
    <2> SUFFICES ASSUME TypeOK, Earned, [Next]_vars  PROVE Earned'
      BY TypeKept
    <2>1. TypeOK'
      BY TypeKept
    <2>2. CASE Advance
      BY <2>2, RateAssumption DEF Advance, TypeOK, Earned, Sorted, Trimmed
    <2>3. ASSUME NEW w \in Workers, Handle(w)  PROVE Earned'
      BY <2>1, <2>3, WorkerKeepsEarned
    <2>4. CASE UNCHANGED vars
      BY <2>4 DEF vars, Earned, Sorted, Trimmed
    <2> QED  BY <2>2, <2>3, <2>4 DEF Next
  <1>3. Inv /\ [Next]_vars =>
          [\A w \in Workers :
             pc[w] = "count" /\ pc'[w] = "idle" =>
               /\ Len(log) >= RateLimit
               /\ log[Len(log) - RateLimit + 1] >= start[w]]_vars
    <2> SUFFICES ASSUME Inv, Next, NEW w \in Workers, pc[w] = "count", pc'[w] = "idle"
                 PROVE  /\ Len(log) >= RateLimit
                        /\ log[Len(log) - RateLimit + 1] >= start[w]
      OBVIOUS
    <2>1. Count(w) /\ Full
      BY DEF Next, Advance, Handle, Enter, Test, Peek, Pop, Count, Accept, Fail, Goto, TypeOK
    <2>2. /\ Len(log) - RateLimit + 1 \in 1..Len(log)
          /\ Len(log) - RateLimit + 1 >= head
      BY <2>1, RateAssumption DEF Full, HistoryLength, TypeOK
    <2> QED  BY <2>2, RateAssumption DEF Earned, Trimmed, TypeOK
  <1> QED  BY <1>1, <1>2, <1>3, PTL DEF Spec, RefusedOnlyWhenFull
===============================================================================
