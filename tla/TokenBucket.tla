----------------------------- MODULE TokenBucket -----------------------------
(***************************************************************************)
(* What a rate limiter promises each client: a bucket that is always there *)
(* and fills by one unit per tick up to Full, from which every admitted    *)
(* request takes Cost.  There is no map, no mutex and no request in        *)
(* flight.  Slack is what an admission may lose beyond its cost; and now   *)
(* and then, more than Idle ticks apart, buckets that lack at most Gain    *)
(* are filled up for nothing.                                              *)
(***************************************************************************)
EXTENDS Integers

CONSTANTS Clients, Full, Cost, Slack, Gain, Idle, MaxClock

VARIABLES clock, level, lastSweep, opened, spent, sweeps

vars == <<clock, level, lastSweep, opened, spent, sweeps>>

Init ==
    /\ clock = 0
    /\ level = [c \in Clients |-> Full]
    /\ lastSweep = 0
    /\ opened = 0
    /\ spent = [c \in Clients |-> 0]
    /\ sweeps = 0

Tick ==
    /\ clock < MaxClock
    /\ clock' = clock + 1
    /\ level' = [c \in Clients |->
                   IF level[c] + 1 > Full THEN Full ELSE level[c] + 1]
    /\ UNCHANGED <<lastSweep, opened, spent, sweeps>>

\* With the levels `from`, the request of c is admitted or refused.
Admit(c, from) ==
    /\ spent' = [spent EXCEPT ![c] = @ + Cost]
    /\ from[c] >= Cost
    /\ \E lost \in 0..Slack : level' = [from EXCEPT ![c] = @ - Cost - lost]
Refuse(from) == UNCHANGED spent /\ level' = from

Serve(c) ==
    /\ UNCHANGED <<clock, lastSweep, opened, sweeps>>
    /\ Admit(c, level)

\* The same by a request that fills up buckets first; its time may be late.
ServeAndFill(c) ==
    /\ sweeps' = sweeps + 1
    /\ UNCHANGED <<clock, opened>>
    /\ \E late \in 0..Slack : /\ clock - late - lastSweep > Idle
                               /\ lastSweep' = clock - late
    /\ \E filled \in SUBSET {d \in Clients : level[d] + Gain >= Full} :
         LET from == [d \in Clients |-> IF d \in filled THEN Full ELSE level[d]]
         IN Admit(c, from) \/ Refuse(from)

OpenWindow ==
    /\ opened' = clock
    /\ spent' = [c \in Clients |-> 0]
    /\ sweeps' = 0
    /\ UNCHANGED <<clock, lastSweep, level>>

Next == OpenWindow \/ Tick \/ \E c \in Clients : Serve(c) \/ ServeAndFill(c)

Spec == Init /\ [][Next]_vars
=============================================================================
