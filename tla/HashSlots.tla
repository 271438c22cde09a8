------------------------------ MODULE HashSlots ------------------------------
(***************************************************************************)
(* The cap on concurrent password hashes (crypto/limit.go) and the         *)
(* requests that hash: argon2 runs in a slot of a buffered channel, and a  *)
(* login with an unknown user name verifies against a decoy, which the     *)
(* first such login computes inside a sync.Once.                           *)
(*                                                                         *)
(* Go's channel hands a slot that is given back to the goroutine that has  *)
(* waited longest; a sync.Once makes every caller wait for the first.      *)
(* What is hashed and compared is left out: a verification may succeed or  *)
(* fail.                                                                   *)
(***************************************************************************)
EXTENDS Naturals, Sequences, FiniteSets

CONSTANTS
    Procs,      \* the goroutines that serve requests
    Configured  \* ARGON2_MAX_CONCURRENCY, or the number of CPUs

ASSUME HashSlotsAssumption == Configured \in Nat

VARIABLES
    holders,  \* the goroutines that have a slot
    queue,    \* the goroutines blocked on the channel, in order
    once,     \* decoyOnce: "new", "running" or "done"
    decoy,    \* decoyHash is set
    req       \* req[p]: what the request in p is about to do

hashVars == <<holders, queue, once, decoy, req>>

\* maxConcurrentHashes: never fewer than two.
Slots == IF Configured < 2 THEN 2 ELSE Configured

\* What a request hashes: a login, a registration or a confirmation once; a
\* password change verifies, then hashes; an unknown user name's login verifies
\* against the decoy.
Kinds == {"once", "change", "unknown"}

Idle == [pc |-> "idle", kind |-> "once", making |-> FALSE, verified |-> FALSE]
Request == [pc : {"idle", "dummy", "want", "wait", "hash"}, kind : Kinds,
            making : BOOLEAN,    \* p computes the decoy, inside decoyOnce
            verified : BOOLEAN]  \* the first of p's hashes is done

HashInit ==
    /\ holders = {}
    /\ queue = <<>>
    /\ once = "new"
    /\ decoy = FALSE
    /\ req = [p \in Procs |-> Idle]

Doing(p, pc) == req[p].pc = pc
Becomes(p, r) == req' = [req EXCEPT ![p] = r]
Wanting(p) == [req[p] EXCEPT !.pc = "want"]

\* A request comes to the point where it hashes.
Arrive(p) ==
    /\ Doing(p, "idle")
    /\ \/ \E kind \in {"once", "change"} : Becomes(p, [Idle EXCEPT !.pc = "want", !.kind = kind])
       \/ Becomes(p, [Idle EXCEPT !.pc = "dummy", !.kind = "unknown"])
    /\ UNCHANGED <<holders, queue, once, decoy>>

\* Faulty variant: a caller that finds the decoy in the making goes without.
DummyVerifyHasty(p) ==
    /\ Doing(p, "dummy")
    /\ \/ once = "new" /\ once' = "running" /\ Becomes(p, [Wanting(p) EXCEPT !.making = TRUE])
       \/ once # "new" /\ UNCHANGED once /\ Becomes(p, IF decoy THEN Wanting(p) ELSE Idle)
    /\ UNCHANGED <<holders, queue, decoy>>

\* DummyVerify: the first caller makes the decoy, which fails when no salt can
\* be drawn; the others wait for it, and verify if there is one.
DummyVerify(p) ==
    /\ Doing(p, "dummy")
    /\ \/ once = "new" /\ once' = "running" /\ Becomes(p, [Wanting(p) EXCEPT !.making = TRUE])
       \/ once = "new" /\ once' = "done" /\ Becomes(p, Idle)
       \/ once = "done" /\ UNCHANGED once /\ Becomes(p, IF decoy THEN Wanting(p) ELSE Idle)
    /\ UNCHANGED <<holders, queue, decoy>>

\* acquireHashSlot
Acquire(p) ==
    /\ Doing(p, "want")
    /\ IF Cardinality(holders) < Slots
       THEN /\ holders' = holders \cup {p} /\ UNCHANGED queue
            /\ Becomes(p, [req[p] EXCEPT !.pc = "hash"])
       ELSE /\ queue' = Append(queue, p) /\ UNCHANGED holders
            /\ Becomes(p, [req[p] EXCEPT !.pc = "wait"])
    /\ UNCHANGED <<once, decoy>>

\* Faulty variant: nobody who waits is told of the free slot.
ReleaseUnnoticed(p, r) == holders' = holders \ {p} /\ UNCHANGED queue /\ Becomes(p, r)

\* p gives its slot back and goes on as r; who has waited longest gets the slot.
Release(p, r) ==
    IF queue = <<>>
    THEN holders' = holders \ {p} /\ UNCHANGED queue /\ Becomes(p, r)
    ELSE /\ holders' = (holders \ {p}) \cup {Head(queue)}
         /\ queue' = Tail(queue)
         /\ req' = [req EXCEPT ![p] = r, ![Head(queue)].pc = "hash"]

\* Faulty variant: the slot is not given back when the password is wrong.
FinishLeaking(p) ==
    /\ Doing(p, "hash")
    /\ IF req[p].kind = "change" /\ ~req[p].verified
       THEN \/ Becomes(p, Idle) /\ UNCHANGED <<holders, queue>>
            \/ Release(p, [Wanting(p) EXCEPT !.verified = TRUE])
       ELSE Release(p, IF req[p].making THEN [Wanting(p) EXCEPT !.making = FALSE] ELSE Idle)
    /\ once' = IF req[p].making THEN "done" ELSE once
    /\ decoy' = (decoy \/ req[p].making)

\* A hash is computed.  The maker of the decoy goes on to verify against it, a
\* password change whose verification succeeded to its second hash; the others
\* answer.
Finish(p) ==
    /\ Doing(p, "hash")
    /\ \/ req[p].making /\ Release(p, [Wanting(p) EXCEPT !.making = FALSE])
       \/ /\ req[p].kind = "change" /\ ~req[p].verified
          /\ Release(p, [Wanting(p) EXCEPT !.verified = TRUE])
       \/ ~req[p].making /\ Release(p, Idle)
    /\ once' = IF req[p].making THEN "done" ELSE once
    /\ decoy' = (decoy \/ req[p].making)

Step(p) == DummyVerify(p) \/ Acquire(p) \/ Finish(p)

HashNext == \E p \in Procs : Arrive(p) \/ Step(p)

\* Goroutines are scheduled preemptively and argon2 ends; nothing else delays a
\* step that can be taken.
HashFairness == \A p \in Procs : WF_hashVars(Step(p))

HashSpec == HashInit /\ [][HashNext]_hashVars /\ HashFairness

-----------------------------------------------------------------------------
\* Types; the slots are held by those that hash, the waiting are in the queue
\* once each, and the decoy is made by one login at most.
HashTypeOK ==
    /\ holders = {p \in Procs : Doing(p, "hash")}
    /\ queue \in Seq(Procs)
    /\ \A p \in Procs : Doing(p, "wait") <=> \E i \in DOMAIN queue : queue[i] = p
    /\ \A i, j \in DOMAIN queue : queue[i] = queue[j] => i = j
    /\ once \in {"new", "running", "done"}
    /\ decoy \in BOOLEAN /\ (decoy => once = "done")
    /\ req \in [Procs -> Request]
    /\ (\E p \in Procs : req[p].making) <=> once = "running"
    /\ \A p, q \in Procs : req[p].making /\ req[q].making => p = q
    /\ \A p \in Procs : Doing(p, "idle") => req[p] = Idle

\* limit.go:10-11, memory for so many hashes and no more is in use, and a
\* request waits only while that many are computed: a slot given back is never
\* left unused, nor is one ever lost.
SlotsWellUsed ==
    /\ Cardinality(holders) <= Slots
    /\ queue # <<>> => Cardinality(holders) = Slots

\* limit.go:40-41, a login with an unknown name burns the work a real check
\* would, also when it meets the decoy in the making: it is answered at the end
\* of a hash that is not the decoy's own, unless that could not be made.
SameWorkStep ==
    \A p \in Procs :
        req[p].kind = "unknown" /\ ~Doing(p, "idle") /\ req'[p].pc = "idle" =>
            (Doing(p, "hash") /\ ~req[p].making) \/ (once' = "done" /\ ~decoy')
SameWork == [][SameWorkStep]_hashVars

\* limit.go:31: however requests meet at the slots and at the decoy's once, no
\* two wait for each other and none waits for ever.
EveryHashAnswered == \A p \in Procs : ~Doing(p, "idle") ~> Doing(p, "idle")
=============================================================================
