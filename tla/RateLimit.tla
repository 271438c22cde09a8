------------------------------ MODULE RateLimit ------------------------------
(***************************************************************************)
(* middleware.RateLimit: one token bucket per client address, shared by    *)
(* the goroutines of all requests behind one mutex, with an idle sweep.    *)
(* A request reads the clock before it takes the mutex, so requests may    *)
(* reach the buckets with their times out of order and up to Lateness old. *)
(*                                                                         *)
(* Tokens are counted in units a bucket regains one per tick: a request    *)
(* costs Cost of them (1/perSecond), a full bucket holds Burst * Cost.     *)
(***************************************************************************)
EXTENDS Integers

CONSTANTS
    Clients,    \* client addresses, the keys of the bucket map
    Workers,    \* the goroutines that serve requests
    Burst,      \* requests a full bucket admits at once
    Cost,       \* ticks between two requests in the long run (1/perSecond)
    Idle,       \* ticks without a request after which a bucket may be dropped
    Lateness,   \* bound: ticks a request may spend between time.Now and Lock
    MaxTicks    \* bound: when the model's clock stops

Cap == Burst * Cost

\* The code takes Idle as the time to fill a bucket, and at least a minute.
ASSUME RateLimitAssumption ==
    /\ Burst \in Nat \ {0} /\ Cost \in Nat \ {0} /\ Lateness \in Nat
    /\ MaxTicks \in Nat /\ Cap \in Nat
    /\ Idle \in Nat /\ Idle >= Cap

\* What a bucket may lack of a full one when it is dropped: nothing, were it not
\* for requests whose time is late.
Gain == IF Cap + 2 * Lateness > Idle + 1 THEN Cap + 2 * Lateness - (Idle + 1) ELSE 0

VARIABLES
    ticks,      \* the wall clock
    known,      \* clients that have a bucket
    tokens,     \* tokens[c], lastFill[c]: the bucket of c, when it is known
    lastFill,
    lastSweep,  \* when the idle buckets were last dropped
    arrival,    \* arrival[p]: the request p is serving
    opened,     \* history: when the observation window was opened
    spent,      \* history: cost of the requests of c admitted in the window
    sweeps      \* history: the sweeps in the window

limitVars == <<ticks, known, tokens, lastFill, lastSweep, arrival, opened, spent, sweeps>>
observed == <<opened, spent, sweeps>>

NoArrival == [pc |-> "idle"]
Arrivals == [pc : {"lock"}, key : Clients, now : 0..MaxTicks]

LimitInit ==
    /\ ticks = 0
    /\ known = {}
    /\ tokens = [c \in Clients |-> Cap]
    /\ lastFill = [c \in Clients |-> 0]
    /\ lastSweep = 0
    /\ arrival = [p \in Workers |-> NoArrival]
    /\ opened = 0
    /\ spent = [c \in Clients |-> 0]
    /\ sweeps = 0

-----------------------------------------------------------------------------
\* Faulty variant: buckets are dropped while they are still filling.
IdleNotLong(c, now) == c \in known /\ now - lastFill[c] > Cost

\* The buckets a sweep at `now` deletes.
IdleTooLong(c, now) == c \in known /\ now - lastFill[c] > Idle

\* A request with time `now` sweeps, at most once every Idle ticks; the map after.
Sweeps(now) == now - lastSweep > Idle
Swept(now) == IF Sweeps(now) THEN {c \in known : ~IdleTooLong(c, now)} ELSE known

\* Faulty variant: the refill is not capped at a full bucket.
RefilledUncapped(c, now) ==
    IF c \in Swept(now) THEN tokens[c] + (now - lastFill[c]) ELSE Cap

\* Faulty variant: the refill comes in whole tokens only.
RefilledInTokens(c, now) ==
    IF c \in Swept(now)
    THEN LET t == tokens[c] + ((now - lastFill[c]) \div Cost) * Cost
         IN IF t > Cap THEN Cap ELSE t
    ELSE Cap

\* What the bucket of c holds at `now`: a new one is full, an old one regains
\* what the time since its last fill is worth, and loses it again when `now`
\* lies before that.
Refilled(c, now) ==
    IF c \in Swept(now)
    THEN LET t == tokens[c] + (now - lastFill[c]) IN IF t > Cap THEN Cap ELSE t
    ELSE Cap

\* Faulty variant: lastSweep taken for the time of the next sweep.
SweptAtNext(now) == IF Sweeps(now) THEN now + Idle ELSE lastSweep

\* When the last sweep ran, once a request with time `now` is through.
SweptAt(now) == IF Sweeps(now) THEN now ELSE lastSweep

\* A request arrives and reads the clock.
Arrive(p) ==
    /\ arrival[p].pc = "idle"
    /\ \E c \in Clients :
        arrival' = [arrival EXCEPT ![p] = [pc |-> "lock", key |-> c, now |-> ticks]]
    /\ UNCHANGED <<ticks, known, tokens, lastFill, lastSweep, observed>>

\* The section under the mutex: sweep, find or make the bucket, refill it, and
\* admit the request if a whole token is left.
Take(p) ==
    LET c == arrival[p].key
        now == arrival[p].now
        t == Refilled(c, now)
        paid == IF t >= Cost THEN Cost ELSE 0
    IN /\ arrival[p].pc = "lock"
       /\ known' = Swept(now) \cup {c}
       /\ lastSweep' = SweptAt(now)
       /\ tokens' = [tokens EXCEPT ![c] = t - paid]
       /\ lastFill' = [lastFill EXCEPT ![c] = now]
       /\ spent' = [spent EXCEPT ![c] = @ + paid]
       /\ sweeps' = IF Sweeps(now) THEN sweeps + 1 ELSE sweeps
       /\ arrival' = [arrival EXCEPT ![p] = NoArrival]
       /\ UNCHANGED <<ticks, opened>>

\* Time passes, but no request waits for the mutex longer than Lateness.
LimitTick ==
    /\ ticks < MaxTicks
    /\ \A p \in Workers : arrival[p].pc = "lock" => ticks - arrival[p].now < Lateness
    /\ ticks' = ticks + 1
    /\ UNCHANGED <<known, tokens, lastFill, lastSweep, arrival, observed>>

\* The observer forgets the past and opens a new window, at any moment.
OpenWindow ==
    /\ opened' = ticks
    /\ spent' = [c \in Clients |-> 0]
    /\ sweeps' = 0
    /\ UNCHANGED <<ticks, known, tokens, lastFill, lastSweep, arrival>>

LimitNext ==
    \/ \E p \in Workers : Arrive(p) \/ Take(p)
    \/ LimitTick
    \/ OpenWindow

LimitSpec == LimitInit /\ [][LimitNext]_limitVars

-----------------------------------------------------------------------------
\* What c could spend now if its request were served without delay; Lateness
\* is what a request that is served late can still add to a full bucket.
Level(c) ==
    LET full == Cap + Lateness
        x == tokens[c] + (ticks - lastFill[c])
    IN IF c \notin known \/ x > full THEN full ELSE x

\* Types, and the times that cannot lie in the future.
LimitTypeOK ==
    /\ ticks \in 0..MaxTicks /\ opened \in 0..ticks /\ lastSweep \in 0..ticks
    /\ known \subseteq Clients
    /\ tokens \in [Clients -> Int] /\ lastFill \in [Clients -> 0..MaxTicks]
    /\ \A c \in Clients : lastFill[c] <= ticks
    /\ spent \in [Clients -> Nat] /\ sweeps \in Nat
    /\ arrival \in [Workers -> Arrivals \cup {NoArrival}]
    /\ \A p \in Workers : arrival[p].pc = "lock" =>
          arrival[p].now <= ticks /\ ticks - arrival[p].now <= Lateness

\* The promise of the comment on RateLimit, for every window of time and in
\* spite of sweeps and late requests: a burst, then one request every Cost
\* ticks.  Late requests cost Lateness once, and Gain with every sweep; sweeps
\* are more than Idle ticks apart.
AdmissionBound ==
    /\ \A c \in Clients :
         spent[c] <= Cap + Lateness + (ticks - opened) + Gain * sweeps
    /\ sweeps > 0 => (sweeps - 1) * (Idle + 1) <= ticks - opened + Lateness

\* The other half of the promise: whoever is refused has been served.  What a
\* refused client has been granted in the window comes to within one request of
\* what trickled into its bucket, up to a full bucket's worth, whatever other
\* clients did and whenever the sweep ran.
RefusalStep ==
    \A p \in Workers :
        LET c == arrival[p].key
            since == IF ticks - opened > Cap THEN Cap ELSE ticks - opened
        IN (arrival[p].pc = "lock" /\ arrival'[p] # arrival[p] /\ spent' = spent) =>
              spent[c] + Cost + Lateness > since
RefusedOnlyIfServed == [][RefusalStep]_limitVars

\* The sweep comment (ratelimit.go:26): a bucket that may be dropped cannot be
\* told from a fresh one, so all the machinery implements one bucket per client
\* that is never dropped; up to Gain, since a late request leaves a time in the
\* bucket that lies before what it has already been credited for.
Bucket == INSTANCE TokenBucket WITH
    Full <- Cap + Lateness, Slack <- Lateness, MaxClock <- MaxTicks, clock <- ticks,
    level <- [c \in Clients |-> Level(c)]
ImplementsTokenBucket == Bucket!Spec
=============================================================================
