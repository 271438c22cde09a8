--------------------------- MODULE RateLimitProofs ---------------------------
(***************************************************************************)
(* Proofs about RateLimit, for every rate, burst, delay and number of      *)
(* clients.  The argument follows Level(c): time raises it by one per      *)
(* tick, an admission lowers it by Cost, the order in which requests reach *)
(* the mutex does not raise it, and a sweep raises it by Gain at most.     *)
(***************************************************************************)
EXTENDS RateLimit, TLAPS

\* Every bucket is worth between nothing and a full bucket at the present
\* time, and its tokens go below zero by the delay of a late request at most.
BucketsOK ==
    \A c \in Clients :
        /\ tokens[c] <= Cap /\ tokens[c] >= -Lateness
        /\ tokens[c] + (ticks - lastFill[c]) >= 0

\* In every window, what a client has spent and can still spend adds up to
\* what a bucket gives.
SpendingOK ==
    \A c \in Clients :
        /\ spent[c] + Level(c) <= Cap + Lateness + (ticks - opened) + Gain * sweeps
        /\ spent[c] + Level(c) >= Cap \/ spent[c] + Level(c) >= ticks - opened

\* The sweeps of the window are more than Idle ticks apart, by the times of the
\* requests that did them.
SweepsOK ==
    sweeps > 0 => (sweeps - 1) * (Idle + 1) <= lastSweep - opened + Lateness

IInv == LimitTypeOK /\ BucketsOK /\ SpendingOK /\ SweepsOK

-----------------------------------------------------------------------------
\* The types of the constants, and of a bucket's level.
LEMMA Constants ==
  /\ Cap \in Nat /\ Cost \in Nat /\ Lateness \in Nat /\ Idle \in Nat
  /\ MaxTicks \in Nat /\ Cost > 0 /\ Idle >= Cap
  /\ Gain \in Nat /\ Gain >= Cap + 2 * Lateness - (Idle + 1)
BY RateLimitAssumption DEF Gain

\* What one sweep more adds.
LEMMA OneMore == ASSUME NEW g \in Int, NEW n \in Int PROVE g * (n + 1) = g * n + g
OBVIOUS

LEMMA NoneYet == ASSUME NEW g \in Int PROVE g * 0 = 0
OBVIOUS

LEMMA GainOfSweeps == ASSUME sweeps \in Nat PROVE Gain * sweeps \in Nat
<1>1. ASSUME NEW g \in Nat, NEW n \in Nat PROVE g * n \in Nat
  OBVIOUS
<1> QED
  BY <1>1, Constants

LEMMA LevelRange ==
  ASSUME LimitTypeOK, BucketsOK, NEW c \in Clients
  PROVE  Level(c) \in Int /\ 0 <= Level(c) /\ Level(c) <= Cap + Lateness
BY Constants DEF Level, LimitTypeOK, BucketsOK

\* A request that waits for the mutex has a client and a time, not too old.
LEMMA Pending ==
  ASSUME LimitTypeOK, NEW p \in Workers, arrival[p].pc = "lock"
  PROVE  /\ arrival[p].key \in Clients /\ arrival[p].now \in 0..MaxTicks
         /\ arrival[p].now <= ticks /\ ticks - arrival[p].now <= Lateness
<1>1. arrival[p] \in Arrivals
  BY DEF LimitTypeOK, NoArrival
<1> QED
  BY <1>1 DEF LimitTypeOK, Arrivals

\* The level after the sweep of a request with time now.
Raised(c, now) == IF c \in Swept(now) THEN Level(c) ELSE Cap + Lateness

\* The sweep comment: a bucket that is dropped is as good as full, up to Gain.
LEMMA DroppedIsNearlyFull ==
  ASSUME LimitTypeOK, BucketsOK, NEW p \in Workers, arrival[p].pc = "lock", NEW c \in Clients
  PROVE  /\ Raised(c, arrival[p].now) \in Int /\ Raised(c, arrival[p].now) <= Cap + Lateness
         /\ Level(c) <= Raised(c, arrival[p].now)
         /\ \/ Raised(c, arrival[p].now) = Level(c)
            \/ /\ Sweeps(arrival[p].now) /\ Raised(c, arrival[p].now) = Cap + Lateness
               /\ Level(c) + Gain >= Cap + Lateness
<1>1. arrival[p].now \in Int /\ arrival[p].now <= ticks /\ ticks - arrival[p].now <= Lateness
  BY Pending
<1>2. Level(c) \in Int /\ Level(c) <= Cap + Lateness
  BY LevelRange
<1>3. CASE c \in Swept(arrival[p].now)
  BY <1>2, <1>3 DEF Raised
<1>4. CASE c \notin Swept(arrival[p].now)
  <2>1. CASE c \notin known
    BY <1>2, <1>4, <2>1, Constants DEF Raised, Level
  <2>2. CASE c \in known
    <3>1. Sweeps(arrival[p].now) /\ arrival[p].now - lastFill[c] > Idle
      BY <1>4, <2>2 DEF Swept, IdleTooLong
    <3>2. Level(c) + Gain >= Cap + Lateness
      BY <1>1, <2>2, <3>1, Constants DEF Level, LimitTypeOK, BucketsOK
    <3> QED
      BY <1>2, <1>4, <3>1, <3>2, Constants DEF Raised
  <2> QED
    BY <2>1, <2>2
<1> QED
  BY <1>3, <1>4

\* What the refill under the mutex leaves in the bucket of a request, and how
\* that relates to the level.
LEMMA RefillLevel ==
  ASSUME LimitTypeOK, BucketsOK, NEW p \in Workers, arrival[p].pc = "lock"
  PROVE  LET c == arrival[p].key
             now == arrival[p].now
             t == Refilled(c, now)
         IN /\ c \in Clients /\ now \in 0..MaxTicks
            /\ now <= ticks /\ ticks - now <= Lateness
            /\ t \in Int /\ t <= Cap /\ t >= -Lateness /\ t + (ticks - now) >= 0
            /\ t + (ticks - now) <= Raised(c, now)
            /\ t < Cap => t + (ticks - now) = Raised(c, now)
<1> DEFINE c == arrival[p].key
           now == arrival[p].now
<1>1. c \in Clients /\ now \in 0..MaxTicks /\ now <= ticks /\ ticks - now <= Lateness
  BY Pending
<1>2. CASE c \in Swept(now)
  <2>1. c \in known
    BY <1>2 DEF Swept
  <2> QED
    BY <1>1, <1>2, <2>1, Constants DEF Refilled, Raised, Level, LimitTypeOK, BucketsOK
<1>3. CASE c \notin Swept(now)
  BY <1>1, <1>3, Constants DEF Refilled, Raised, LimitTypeOK
<1> QED
  BY <1>2, <1>3

\* The level after the section under the mutex: the client pays for an
\* admission, the others notice at most the sweep.
LEMMA TakeLevel ==
  ASSUME LimitTypeOK, BucketsOK, NEW p \in Workers, Take(p),
         NEW k, k = arrival[p].key, NEW t, t = Refilled(k, arrival[p].now),
         NEW paid, paid = IF t >= Cost THEN Cost ELSE 0
  PROVE  /\ Level(k)' = t - paid + (ticks - arrival[p].now)
         /\ \A c \in Clients : c # k => Level(c)' = Raised(c, arrival[p].now)
<1>1. arrival[p].pc = "lock"
  BY DEF Take
<1>2. /\ k \in Clients /\ arrival[p].now \in Int /\ arrival[p].now <= ticks
      /\ ticks - arrival[p].now <= Lateness /\ t \in Int /\ t <= Cap
  BY <1>1, RefillLevel
<1>3. /\ ticks' = ticks /\ k \in known'
      /\ tokens'[k] = t - paid /\ lastFill'[k] = arrival[p].now
  BY <1>2 DEF Take, LimitTypeOK
<1>4. Level(k)' = t - paid + (ticks - arrival[p].now)
  BY <1>2, <1>3, Constants DEF Level, LimitTypeOK
<1>5. ASSUME NEW c \in Clients, c # k PROVE Level(c)' = Raised(c, arrival[p].now)
  <2>1. /\ tokens'[c] = tokens[c] /\ lastFill'[c] = lastFill[c] /\ ticks' = ticks
        /\ c \in known' <=> c \in Swept(arrival[p].now)
    BY <1>2, <1>5 DEF Take, LimitTypeOK
  <2>2. CASE c \in Swept(arrival[p].now)
    <3>1. c \in known
      BY <2>2 DEF Swept
    <3> QED
      BY <2>1, <2>2, <3>1 DEF Level, Raised
  <2>3. CASE c \notin Swept(arrival[p].now)
    BY <2>1, <2>3 DEF Level, Raised
  <2> QED
    BY <2>2, <2>3
<1> QED
  BY <1>4, <1>5

-----------------------------------------------------------------------------
LEMMA InitIsGood == LimitInit => IInv
BY Constants, NoneYet DEF LimitInit, IInv, LimitTypeOK, BucketsOK, SpendingOK, SweepsOK, Level,
   NoArrival

\* The section under the mutex preserves each part of the invariant.
LEMMA TakePreserves ==
  ASSUME IInv, NEW p \in Workers, Take(p)
  PROVE  IInv'
<1> USE DEF IInv
<1>1. PICK k : k = arrival[p].key
  OBVIOUS
<1>2. PICK t : t = Refilled(k, arrival[p].now)
  OBVIOUS
<1>3. PICK paid : paid = IF t >= Cost THEN Cost ELSE 0
  OBVIOUS
<1>4. /\ arrival[p].pc = "lock" /\ k \in Clients
      /\ arrival[p].now \in 0..MaxTicks /\ arrival[p].now <= ticks
      /\ ticks - arrival[p].now <= Lateness
      /\ t \in Int /\ t <= Cap /\ t >= -Lateness
      /\ t + (ticks - arrival[p].now) >= 0
      /\ t + (ticks - arrival[p].now) <= Raised(k, arrival[p].now)
      /\ t < Cap => t + (ticks - arrival[p].now) = Raised(k, arrival[p].now)
      /\ ticks \in Int
  BY <1>1, <1>2, RefillLevel DEF Take, LimitTypeOK
<1>5. /\ ticks' = ticks /\ opened' = opened
      /\ tokens' = [tokens EXCEPT ![k] = t - paid]
      /\ lastFill' = [lastFill EXCEPT ![k] = arrival[p].now]
      /\ spent' = [spent EXCEPT ![k] = @ + paid]
      /\ arrival' = [arrival EXCEPT ![p] = NoArrival]
      /\ known' = Swept(arrival[p].now) \cup {k}
      /\ lastSweep' = SweptAt(arrival[p].now)
      /\ sweeps' = IF Sweeps(arrival[p].now) THEN sweeps + 1 ELSE sweeps
  BY <1>1, <1>2, <1>3 DEF Take
<1>6. paid \in {0, Cost} /\ (paid = Cost => t >= Cost) /\ (t >= Cost => paid = Cost)
  BY <1>3, Constants
<1>7. /\ Level(k)' = t - paid + (ticks - arrival[p].now)
      /\ \A c \in Clients : c # k => Level(c)' = Raised(c, arrival[p].now)
  BY <1>1, <1>2, <1>3, TakeLevel
<1>8. LimitTypeOK'
  <2>1. tokens' \in [Clients -> Int] /\ spent' \in [Clients -> Nat]
    BY <1>4, <1>5, <1>6, Constants DEF LimitTypeOK
  <2>2. /\ lastFill' \in [Clients -> 0..MaxTicks]
        /\ \A c \in Clients : lastFill'[c] <= ticks'
    BY <1>4, <1>5 DEF LimitTypeOK
  <2>3. known' \subseteq Clients /\ lastSweep' \in 0..ticks'
    BY <1>4, <1>5 DEF LimitTypeOK, Swept, SweptAt
  <2>4. /\ arrival' \in [Workers -> Arrivals \cup {NoArrival}]
        /\ \A q \in Workers : arrival'[q].pc = "lock" =>
              arrival'[q].now <= ticks' /\ ticks' - arrival'[q].now <= Lateness
    BY <1>5 DEF LimitTypeOK, NoArrival
  <2> QED
    BY <1>5, <2>1, <2>2, <2>3, <2>4 DEF LimitTypeOK
<1>9. BucketsOK'
  <2>1. t - paid <= Cap /\ t - paid >= -Lateness /\ t - paid + (ticks - arrival[p].now) >= 0
    BY <1>4, <1>6, Constants
  <2> QED
    BY <1>4, <1>5, <2>1 DEF BucketsOK, LimitTypeOK
<1>10. SpendingOK'
  <2>1. PICK g : g = Gain * sweeps
    OBVIOUS
  <2>2. g \in Int /\ Gain * (sweeps + 1) = g + Gain /\ sweeps \in Nat
    BY <2>1, Constants, GainOfSweeps, OneMore DEF LimitTypeOK
  <2>3. PICK h : h = Gain * sweeps'
    OBVIOUS
  <2>4. h = IF Sweeps(arrival[p].now) THEN g + Gain ELSE g
    BY <1>5, <2>1, <2>2, <2>3
  <2>5. ASSUME NEW c \in Clients
        PROVE  /\ spent'[c] + Level(c)' <= Cap + Lateness + (ticks' - opened') + h
               /\ spent'[c] + Level(c)' >= Cap \/ spent'[c] + Level(c)' >= ticks' - opened'
    <3>1. PICK r : r = Raised(c, arrival[p].now)
      OBVIOUS
    <3>2. PICK l : l = Level(c)
      OBVIOUS
    <3>3. /\ l \in Int /\ r \in Int /\ l <= r /\ r <= Cap + Lateness
          /\ r = l \/ (Sweeps(arrival[p].now) /\ l + Gain >= r)
      BY <1>4, <3>1, <3>2, DroppedIsNearlyFull, LevelRange
    <3>4. /\ spent[c] \in Nat /\ spent[c] + l <= Cap + Lateness + (ticks - opened) + g
          /\ spent[c] + l >= Cap \/ spent[c] + l >= ticks - opened
      BY <2>1, <3>2 DEF SpendingOK, LimitTypeOK
    <3>5. /\ spent[c] + r <= Cap + Lateness + (ticks - opened) + h
          /\ spent[c] + r >= Cap \/ spent[c] + r >= ticks - opened
      BY <1>4, <2>2, <2>4, <3>3, <3>4, Constants DEF LimitTypeOK
    <3>6. CASE c # k
      BY <1>5, <1>7, <3>1, <3>5, <3>6 DEF LimitTypeOK
    <3>7. CASE c = k
      <4>1. spent'[k] = spent[k] + paid
        BY <1>4, <1>5 DEF LimitTypeOK
      <4>2. Level(k)' = t - paid + (ticks - arrival[p].now)
        BY <1>7
      <4>3. opened \in Int
        BY DEF LimitTypeOK
      <4> QED
        BY <1>4, <1>5, <1>6, <3>1, <3>3, <3>4, <3>5, <3>7, <4>1, <4>2, <4>3, <2>2, <2>4,
           Constants
    <3> QED
      BY <3>6, <3>7
  <2> QED
    BY <2>3, <2>5 DEF SpendingOK
<1>11. SweepsOK'
  <2>1. CASE ~Sweeps(arrival[p].now)
    BY <1>5, <2>1 DEF SweepsOK, SweptAt
  <2>2. CASE Sweeps(arrival[p].now)
    <3>1. /\ sweeps' = sweeps + 1 /\ lastSweep' = arrival[p].now /\ opened' = opened
          /\ arrival[p].now - lastSweep > Idle /\ sweeps \in Nat
          /\ opened \in 0..ticks /\ lastSweep \in Nat
      BY <1>5, <2>2 DEF SweptAt, Sweeps, LimitTypeOK
    <3>2. CASE sweeps = 0
      <4>1. (sweeps' - 1) * (Idle + 1) = 0
        BY <3>1, <3>2, Constants
      <4> QED
        BY <1>4, <3>1, <4>1, Constants DEF SweepsOK
    <3>3. CASE sweeps > 0
      <4>1. PICK n : n = (sweeps - 1) * (Idle + 1)
        OBVIOUS
      <4>2. n \in Int /\ n <= lastSweep - opened + Lateness
        <5>1. \A a, b \in Int : a * b \in Int
          OBVIOUS
        <5>2. sweeps - 1 \in Int /\ Idle + 1 \in Int
          BY <3>1, Constants
        <5> QED
          BY <3>3, <4>1, <5>1, <5>2 DEF SweepsOK
      <4>3. (sweeps' - 1) * (Idle + 1) = n + (Idle + 1)
        <5>1. \A a, b \in Int : (a + 1) * b = a * b + b
          OBVIOUS
        <5>2. sweeps - 1 \in Int /\ Idle + 1 \in Int /\ sweeps' - 1 = (sweeps - 1) + 1
          BY <3>1, Constants
        <5> QED
          BY <4>1, <5>1, <5>2
      <4> QED
        BY <1>4, <3>1, <4>2, <4>3, Constants DEF SweepsOK
    <3> QED
      BY <3>1, <3>2, <3>3
  <2> QED
    BY <2>1, <2>2
<1> QED
  BY <1>8, <1>9, <1>10, <1>11

LEMMA NextPreserves == IInv /\ [LimitNext]_limitVars => IInv'
<1> SUFFICES ASSUME IInv, [LimitNext]_limitVars PROVE IInv'
  OBVIOUS
<1> USE DEF IInv
<1>1. ASSUME NEW p \in Workers, Arrive(p) PROVE IInv'
  <2>1. PICK c \in Clients :
          arrival' = [arrival EXCEPT ![p] = [pc |-> "lock", key |-> c, now |-> ticks]]
    BY <1>1 DEF Arrive
  <2>2. LimitTypeOK'
    BY <1>1, <2>1, Constants DEF Arrive, LimitTypeOK, Arrivals, observed
  <2>3. BucketsOK' /\ SpendingOK' /\ SweepsOK'
    BY <1>1 DEF Arrive, BucketsOK, SpendingOK, SweepsOK, Level, observed
  <2> QED
    BY <2>2, <2>3
<1>2. ASSUME NEW p \in Workers, Take(p) PROVE IInv'
  BY <1>2, TakePreserves
<1>3. CASE LimitTick
  <2>1. LimitTypeOK'
    <3>1. ASSUME NEW p \in Workers, arrival[p].pc = "lock"
          PROVE  arrival[p].now <= ticks + 1 /\ (ticks + 1) - arrival[p].now <= Lateness
      BY <1>3, <3>1, Pending, Constants DEF LimitTick, LimitTypeOK
    <3>2. /\ ticks' \in 0..MaxTicks /\ opened' \in 0..ticks' /\ lastSweep' \in 0..ticks'
          /\ \A c \in Clients : lastFill'[c] <= ticks'
      BY <1>3, Constants DEF LimitTick, LimitTypeOK, observed
    <3>3. \A p \in Workers : arrival'[p].pc = "lock" =>
            arrival'[p].now <= ticks' /\ ticks' - arrival'[p].now <= Lateness
      <4>1. arrival' = arrival /\ ticks' = ticks + 1
        BY <1>3 DEF LimitTick
      <4> QED
        BY <3>1, <4>1
    <3> QED
      BY <1>3, <3>2, <3>3 DEF LimitTick, LimitTypeOK, observed
  <2>2. BucketsOK'
    BY <1>3, Constants DEF LimitTick, BucketsOK, LimitTypeOK, observed
  <2>3. SpendingOK'
    BY <1>3, Constants, GainOfSweeps DEF LimitTick, BucketsOK, SpendingOK, Level, LimitTypeOK, observed
  <2>4. SweepsOK'
    BY <1>3 DEF LimitTick, SweepsOK, observed
  <2> QED
    BY <2>1, <2>2, <2>3, <2>4
<1>4. CASE OpenWindow
  <2>1. LimitTypeOK' /\ BucketsOK'
    BY <1>4 DEF OpenWindow, LimitTypeOK, BucketsOK
  <2>2. SpendingOK'
    <3>1. ASSUME NEW c \in Clients
          PROVE  Level(c)' = Level(c) /\ Level(c) \in Int
                 /\ 0 <= Level(c) /\ Level(c) <= Cap + Lateness
      BY <1>4, LevelRange DEF OpenWindow, Level
    <3> QED
      BY <1>4, <3>1, Constants, NoneYet DEF OpenWindow, SpendingOK, LimitTypeOK
  <2>3. SweepsOK'
    BY <1>4 DEF OpenWindow, SweepsOK
  <2> QED
    BY <2>1, <2>2, <2>3
<1>5. CASE UNCHANGED limitVars
  BY <1>5 DEF limitVars, observed, LimitTypeOK, BucketsOK, SpendingOK, SweepsOK, Level
<1> QED
  BY <1>1, <1>2, <1>3, <1>4, <1>5 DEF LimitNext

LEMMA Invariance == LimitSpec => []IInv
BY InitIsGood, NextPreserves, PTL DEF LimitSpec

\* Types, and the order of the times in a reachable state.
THEOREM TypeCorrect == LimitSpec => []LimitTypeOK
<1>1. IInv => LimitTypeOK
  BY DEF IInv
<1> QED
  BY <1>1, Invariance, PTL

\* In any window of w ticks at most Cap + w is spent by one client, a burst, then
\* one request every Cost ticks; late requests add Lateness once, and Gain with
\* each sweep of the window, of which there is one every Idle ticks at most.
THEOREM AdmissionBoundHolds == LimitSpec => []AdmissionBound
<1>1. IInv => AdmissionBound
  <2> SUFFICES ASSUME IInv PROVE AdmissionBound
    OBVIOUS
  <2>1. ASSUME NEW c \in Clients
        PROVE  spent[c] <= Cap + Lateness + (ticks - opened) + Gain * sweeps
    <3>1. Level(c) \in Int /\ 0 <= Level(c)
      BY LevelRange DEF IInv
    <3> QED
      BY <3>1, Constants, GainOfSweeps DEF IInv, SpendingOK, LimitTypeOK
  <2>2. sweeps > 0 => (sweeps - 1) * (Idle + 1) <= ticks - opened + Lateness
    <3>1. \A a, b \in Int : a * b \in Int
      OBVIOUS
    <3>2. (sweeps - 1) * (Idle + 1) \in Int
      BY <3>1, Constants DEF IInv, LimitTypeOK
    <3> QED
      BY <3>2, Constants DEF IInv, SweepsOK, LimitTypeOK
  <2> QED
    BY <2>1, <2>2 DEF AdmissionBound
<1> QED
  BY <1>1, Invariance, PTL

\* Whoever is refused has been served: up to one request and the Lateness of a
\* late one, a refused client has spent what its bucket gave in the window.
THEOREM RefusedOnlyIfServedHolds == LimitSpec => RefusedOnlyIfServed
<1>1. IInv /\ [LimitNext]_limitVars => RefusalStep
  <2> SUFFICES ASSUME IInv, [LimitNext]_limitVars, NEW p \in Workers, arrival[p].pc = "lock",
                      arrival'[p] # arrival[p], spent' = spent
               PROVE  LET c == arrival[p].key
                          since == IF ticks - opened > Cap THEN Cap ELSE ticks - opened
                      IN spent[c] + Cost + Lateness > since
    BY DEF RefusalStep
  <2> USE DEF IInv
  <2>1. PICK k : k = arrival[p].key
    OBVIOUS
  <2>2. PICK t : t = Refilled(k, arrival[p].now)
    OBVIOUS
  <2>3. Take(p)
    <3>1. ASSUME NEW q \in Workers, Arrive(q) \/ Take(q) PROVE q = p
      BY <3>1 DEF Arrive, Take, LimitTypeOK
    <3>2. ~Arrive(p)
      BY DEF Arrive
    <3> QED
      BY <3>1, <3>2 DEF LimitNext, LimitTick, OpenWindow, limitVars, observed
  <2>4. /\ k \in Clients /\ t \in Int /\ ticks \in Int /\ opened \in Int
        /\ arrival[p].now \in Int /\ ticks - arrival[p].now <= Lateness
        /\ t < Cap => t + (ticks - arrival[p].now) >= Level(k)
    <3>1. /\ k \in Clients /\ t < Cap => t + (ticks - arrival[p].now) = Raised(k, arrival[p].now)
      BY <2>1, <2>2, RefillLevel
    <3>2. Level(k) <= Raised(k, arrival[p].now)
      BY <2>1, RefillLevel, DroppedIsNearlyFull
    <3> QED
      BY <2>1, <2>2, <3>1, <3>2, RefillLevel DEF LimitTypeOK
  <2>5. t < Cost
    <3> SUFFICES ASSUME t >= Cost PROVE FALSE
      BY <2>4, Constants
    <3>1. spent' = [spent EXCEPT ![k] = @ + Cost]
      BY <2>1, <2>2, <2>3 DEF Take
    <3>2. spent[k] \in Nat /\ spent'[k] = spent[k] + Cost
      BY <2>4, <3>1 DEF LimitTypeOK
    <3> QED
      BY <3>2, Constants
  <2>6. Cost <= Cap
    BY RateLimitAssumption DEF Cap
  <2>7. Level(k) < Cost + Lateness
    BY <2>4, <2>5, <2>6, Constants, LevelRange
  <2>8. /\ spent[k] \in Nat /\ Level(k) \in Int
        /\ spent[k] + Level(k) >= Cap \/ spent[k] + Level(k) >= ticks - opened
    BY <2>4, LevelRange DEF SpendingOK, LimitTypeOK
  <2> QED
    BY <2>1, <2>4, <2>7, <2>8, Constants
<1>2. IInv /\ [LimitNext]_limitVars => [RefusalStep]_limitVars
  BY <1>1
<1> QED
  BY <1>2, Invariance, PTL DEF LimitSpec, RefusedOnlyIfServed

-----------------------------------------------------------------------------
\* The refinement: arrivals and refusals are invisible, an admission under the
\* mutex is an admission of TokenBucket, and a sweep fills up what it drops.
LEMMA TakeRefines ==
  ASSUME IInv, NEW p \in Workers, Take(p)
  PROVE  [Bucket!Next]_(Bucket!vars)
<1> USE DEF IInv
<1> DEFINE level == [c \in Clients |-> Level(c)]
           from == [c \in Clients |-> Raised(c, arrival[p].now)]
<1>1. PICK k : k = arrival[p].key
  OBVIOUS
<1>2. PICK t : t = Refilled(k, arrival[p].now)
  OBVIOUS
<1>3. PICK paid : paid = IF t >= Cost THEN Cost ELSE 0
  OBVIOUS
<1>4. /\ arrival[p].pc = "lock"
      /\ k \in Clients /\ t \in Int /\ ticks \in Int /\ arrival[p].now \in Int
      /\ arrival[p].now <= ticks /\ ticks - arrival[p].now <= Lateness /\ t <= Cap
      /\ t + (ticks - arrival[p].now) <= from[k]
      /\ t < Cap => t + (ticks - arrival[p].now) = from[k]
  BY <1>1, <1>2, RefillLevel DEF Take, LimitTypeOK
<1>5. from[k] \in Int /\ from[k] <= Cap + Lateness
  BY <1>4, DroppedIsNearlyFull
<1>6. /\ Level(k)' = t - paid + (ticks - arrival[p].now)
      /\ \A c \in Clients : c # k => Level(c)' = from[c]
  BY <1>1, <1>2, <1>3, TakeLevel
<1>7. /\ ticks' = ticks /\ opened' = opened
      /\ spent' = [spent EXCEPT ![k] = @ + paid]
      /\ lastSweep' = SweptAt(arrival[p].now)
      /\ sweeps' = IF Sweeps(arrival[p].now) THEN sweeps + 1 ELSE sweeps
  BY <1>1, <1>2, <1>3 DEF Take
<1>8. level' = [from EXCEPT ![k] = Level(k)']
  BY <1>4, <1>6
<1>9. Bucket!Admit(k, from) \/ Bucket!Refuse(from)
  <2>1. CASE t >= Cost
    <3> DEFINE lost == from[k] - (t + (ticks - arrival[p].now))
    <3>1. lost \in 0..Lateness
      <4>1. CASE t < Cap
        BY <1>4, <1>5, <4>1, Constants
      <4>2. CASE t = Cap
        BY <1>4, <1>5, <4>2, Constants
      <4> QED
        BY <1>4, <4>1, <4>2, Constants
    <3>2. paid = Cost /\ from[k] >= Cost /\ Level(k)' = from[k] - Cost - lost
      BY <1>3, <1>4, <1>5, <1>6, <2>1, Constants
    <3>3. \E n \in 0..Lateness : level' = [from EXCEPT ![k] = @ - Cost - n]
      BY <1>4, <1>8, <3>1, <3>2
    <3> QED
      BY <1>7, <3>2, <3>3 DEF Bucket!Admit
  <2>2. CASE ~(t >= Cost)
    <3>1. paid = 0 /\ t < Cap
      BY <1>3, <1>4, <2>2, RateLimitAssumption DEF Cap
    <3>2. Level(k)' = from[k]
      BY <1>4, <1>5, <1>6, <3>1, Constants
    <3>3. level' = from
      BY <1>4, <1>8, <3>2
    <3>4. spent' = spent
      BY <1>4, <1>7, <3>1 DEF LimitTypeOK
    <3> QED
      BY <3>3, <3>4 DEF Bucket!Refuse
  <2> QED
    BY <2>1, <2>2
<1>10. CASE ~Sweeps(arrival[p].now)
  <2>1. \A c \in Clients : Raised(c, arrival[p].now) = Level(c)
    BY <1>4, <1>10, DroppedIsNearlyFull
  <2>2. from = level
    BY <2>1
  <2>3. UNCHANGED <<ticks, lastSweep, opened, sweeps>>
    BY <1>7, <1>10 DEF SweptAt
  <2>4. Bucket!Admit(k, level) \/ Bucket!Refuse(level)
    BY <1>9, <2>2
  <2>5. CASE Bucket!Admit(k, level)
    BY <1>4, <2>3, <2>5 DEF Bucket!Serve, Bucket!Next
  <2>6. CASE Bucket!Refuse(level)
    BY <2>3, <2>6 DEF Bucket!Refuse, Bucket!vars
  <2> QED
    BY <2>4, <2>5, <2>6
<1>11. CASE Sweeps(arrival[p].now)
  <2> DEFINE filled == {d \in Clients : Raised(d, arrival[p].now) # Level(d)}
  <2>1. filled \in SUBSET {d \in Clients : level[d] + Gain >= Cap + Lateness}
    BY <1>4, DroppedIsNearlyFull
  <2>2. from = [d \in Clients |-> IF d \in filled THEN Cap + Lateness ELSE level[d]]
    BY <1>4, DroppedIsNearlyFull
  <2>3. ticks - arrival[p].now \in 0..Lateness
    BY <1>4, Constants
  <2>4. ticks - (ticks - arrival[p].now) = arrival[p].now
    BY <1>4
  <2>5. lastSweep' = arrival[p].now /\ arrival[p].now - lastSweep > Idle
    BY <1>7, <1>11 DEF SweptAt, Sweeps
  <2>6. \E late \in 0..Lateness : /\ ticks - late - lastSweep > Idle
                                  /\ lastSweep' = ticks - late
    BY <2>3, <2>4, <2>5
  <2>7. sweeps' = sweeps + 1 /\ UNCHANGED <<ticks, opened>>
    BY <1>7, <1>11
  <2> HIDE DEF from, level, filled
  <2>8. \E f \in SUBSET {d \in Clients : level[d] + Gain >= Cap + Lateness} :
          LET fr == [d \in Clients |-> IF d \in f THEN Cap + Lateness ELSE level[d]]
          IN Bucket!Admit(k, fr) \/ Bucket!Refuse(fr)
    BY <1>9, <2>1, <2>2
  <2>9. Bucket!ServeAndFill(k)
    BY <2>6, <2>7, <2>8 DEF Bucket!ServeAndFill, level
  <2> QED
    BY <1>4, <2>9 DEF Bucket!Next
<1> QED
  BY <1>10, <1>11

LEMMA StepRefines == IInv /\ [LimitNext]_limitVars => [Bucket!Next]_(Bucket!vars)
<1> SUFFICES ASSUME IInv, [LimitNext]_limitVars PROVE [Bucket!Next]_(Bucket!vars)
  OBVIOUS
<1> USE DEF IInv
<1>1. ASSUME NEW p \in Workers, Arrive(p) PROVE UNCHANGED Bucket!vars
  BY <1>1 DEF Arrive, Bucket!vars, Level, observed
<1>2. CASE LimitTick
  <2>1. ASSUME NEW c \in Clients
        PROVE  Level(c)' = IF Level(c) + 1 > Cap + Lateness THEN Cap + Lateness
                           ELSE Level(c) + 1
    BY <1>2, Constants DEF LimitTick, Level, LimitTypeOK, observed
  <2>2. [c \in Clients |-> Level(c)]' =
          [c \in Clients |-> IF Level(c) + 1 > Cap + Lateness THEN Cap + Lateness
                             ELSE Level(c) + 1]
    BY <2>1
  <2>3. Bucket!Tick
    BY <1>2, <2>2 DEF LimitTick, Bucket!Tick, observed
  <2> QED
    BY <2>3 DEF Bucket!Next
<1>3. CASE OpenWindow
  <2>1. Bucket!OpenWindow
    BY <1>3 DEF OpenWindow, Bucket!OpenWindow, Level
  <2> QED
    BY <2>1 DEF Bucket!Next
<1>4. CASE UNCHANGED limitVars
  BY <1>4 DEF limitVars, observed, Bucket!vars, Level
<1> QED
  BY <1>1, <1>2, <1>3, <1>4, TakeRefines DEF LimitNext

\* RateLimit implements one bucket per client that is always there: the sweep,
\* the mutex order and the lateness of requests show in no more than Slack and
\* Gain, which are nothing when no request is late.
THEOREM Implementation == LimitSpec => ImplementsTokenBucket
<1>1. LimitInit => Bucket!Init
  BY Constants DEF LimitInit, Bucket!Init, Level
<1> QED
  BY <1>1, StepRefines, Invariance, PTL DEF LimitSpec, ImplementsTokenBucket, Bucket!Spec
=============================================================================
