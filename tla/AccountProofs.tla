------------------------------ MODULE AccountProofs ------------------------------
(***************************************************************************)
(* Proofs about what the requests of one account go through: HashSlots,    *)
(* for any number of goroutines and of slots; Keys, for any number of      *)
(* devices and any bound on the passwords; and both next to Vault, whose   *)
(* own proofs are in VaultProofs.                                          *)
(*                                                                         *)
(* HashSlots: the slots are counted through the goroutines that hold them, *)
(* and the decoy is made by a login with an unknown name only.  Keys: a    *)
(* key once set is never taken away, and what a device or an administrator *)
(* has read of it is the key the account still has, as long as no client   *)
(* has written what no longer fitted the row.                              *)
(***************************************************************************)
EXTENDS MCAccount, VaultProofs, FiniteSetTheorems

-----------------------------------------------------------------------------
(* HashSlots *)

\* The slots: who holds one, and who waits for one.
SlotsOK ==
    /\ holders = {p \in Procs : Doing(p, "hash")}
    /\ IsFiniteSet(holders)
    /\ queue \in Seq(Procs)
    /\ \A p \in Procs : Doing(p, "wait") <=> \E i \in DOMAIN queue : queue[i] = p
    /\ \A i, j \in DOMAIN queue : queue[i] = queue[j] => i = j
    /\ SlotsWellUsed

\* The decoy is made by one login with an unknown name, which has not answered.
DecoyOK ==
    /\ once \in {"new", "running", "done"}
    /\ decoy \in BOOLEAN /\ (decoy => once = "done")
    /\ (\E p \in Procs : req[p].making) <=> once = "running"
    /\ \A p, q \in Procs : req[p].making /\ req[q].making => p = q
    /\ \A p \in Procs : req[p].making =>
           req[p].kind = "unknown" /\ req[p].pc \in {"want", "wait", "hash"}
    /\ \A p \in Procs : req[p].pc = "dummy" => req[p].kind = "unknown"

RequestsOK ==
    /\ req \in [Procs -> Request]
    /\ \A p \in Procs : Doing(p, "idle") => req[p] = Idle

HashInv == SlotsOK /\ DecoyOK /\ RequestsOK

LEMMA SlotsAreCounted ==
  /\ Slots \in Nat
  /\ SlotsOK => Cardinality(holders) \in Nat
BY HashSlotsAssumption, FS_CardinalityType DEF Slots, SlotsOK

\* A request that neither holds a slot nor waits for one, before and after,
\* leaves them alone.
LEMMA SlotsStay ==
  ASSUME HashInv, NEW p \in Procs, NEW r, ~Doing(p, "hash"), ~Doing(p, "wait"),
         r.pc \notin {"hash", "wait"}, Becomes(p, r), UNCHANGED <<holders, queue>>
  PROVE  SlotsOK'
<1>1. \A q \in Procs : req'[q] = IF q = p THEN r ELSE req[q]
  BY DEF Becomes, HashInv, RequestsOK
<1> QED
  BY <1>1 DEF HashInv, SlotsOK, SlotsWellUsed, Doing

\* The record a request becomes is a request.
LEMMA RequestsStay ==
  ASSUME HashInv, NEW p \in Procs, NEW r \in Request, r.pc = "idle" => r = Idle, Becomes(p, r)
  PROVE  RequestsOK'
BY DEF HashInv, RequestsOK, Becomes, Doing

LEMMA IdleIsARequest == Idle \in Request /\ Idle.pc = "idle" /\ ~Idle.making
BY DEF Idle, Request, Kinds

LEMMA ArriveKeeps ==
  ASSUME HashInv, NEW p \in Procs, Arrive(p)
  PROVE  HashInv'
<1>1. Doing(p, "idle") /\ req[p] = Idle /\ UNCHANGED <<holders, queue, once, decoy>>
  BY DEF Arrive, HashInv, RequestsOK
<1>2. PICK r \in Request :
          /\ r.pc \in {"want", "dummy"} /\ ~r.making /\ Becomes(p, r)
          /\ r.pc = "dummy" => r.kind = "unknown"
  <2>1. ASSUME NEW kind \in {"once", "change"}
        PROVE  LET r == [Idle EXCEPT !.pc = "want", !.kind = kind]
               IN  r \in Request /\ r.pc = "want" /\ ~r.making
    BY DEF Idle, Request, Kinds
  <2>2. LET r == [Idle EXCEPT !.pc = "dummy", !.kind = "unknown"]
        IN  r \in Request /\ r.pc = "dummy" /\ ~r.making /\ r.kind = "unknown"
    BY DEF Idle, Request, Kinds
  <2> QED
    BY <2>1, <2>2 DEF Arrive
<1>3. \A q \in Procs : req'[q] = IF q = p THEN r ELSE req[q]
  BY <1>2 DEF Becomes, HashInv, RequestsOK
<1>4. ~req[p].making
  BY <1>1, IdleIsARequest
<1>5. SlotsOK'
  BY <1>1, <1>2, SlotsStay DEF Doing
<1>6. RequestsOK'
  BY <1>2, RequestsStay
<1>7. DecoyOK'
  BY <1>1, <1>2, <1>3, <1>4 DEF HashInv, DecoyOK
<1> QED
  BY <1>5, <1>6, <1>7 DEF HashInv

\* The decoy is begun only by the first, and only while there is none.
LEMMA DummyVerifyKeeps ==
  ASSUME HashInv, NEW p \in Procs, DummyVerify(p)
  PROVE  HashInv'
<1> DEFINE making == [Wanting(p) EXCEPT !.making = TRUE]
<1>1. Doing(p, "dummy") /\ req[p] \in Request /\ UNCHANGED <<holders, queue, decoy>>
  BY DEF DummyVerify, HashInv, RequestsOK
<1>2. ~req[p].making
  BY <1>1 DEF HashInv, DecoyOK, Doing
<1>3. PICK r \in Request :
          /\ Becomes(p, r)
          /\ \/ r = making /\ once = "new" /\ once' = "running"
             \/ r = Idle /\ once \in {"new", "done"} /\ once' = "done"
             \/ r = Wanting(p) /\ once = "done" /\ once' = "done"
  <2>1. Wanting(p) \in Request /\ making \in Request
    BY <1>1 DEF Wanting, Request
  <2> HIDE DEF making
  <2>2. \/ once = "new" /\ once' = "running" /\ Becomes(p, making)
        \/ once = "new" /\ once' = "done" /\ Becomes(p, Idle)
        \/ once = "done" /\ UNCHANGED once /\ Becomes(p, IF decoy THEN Wanting(p) ELSE Idle)
    BY DEF DummyVerify, making
  <2> QED
    BY <2>1, <2>2, IdleIsARequest
<1>4. /\ Wanting(p).pc = "want" /\ Wanting(p).making = req[p].making
      /\ making.pc = "want" /\ making.making = TRUE /\ making.kind = req[p].kind
  BY <1>1 DEF Wanting, Request
<1>5. \A q \in Procs : req'[q] = IF q = p THEN r ELSE req[q]
  BY <1>3 DEF Becomes, HashInv, RequestsOK
<1> HIDE DEF making
<1>6. SlotsOK'
  BY <1>1, <1>3, <1>4, IdleIsARequest, SlotsStay DEF Doing
<1>7. RequestsOK'
  BY <1>3, <1>4, RequestsStay
<1>8. DecoyOK'
  <2>1. CASE r = making /\ once = "new" /\ once' = "running"
    <3>1. \A q \in Procs : ~req[q].making
      BY <2>1 DEF HashInv, DecoyOK
    <3>2. req[p].kind = "unknown"
      BY <1>1 DEF HashInv, DecoyOK, Doing
    <3> QED
      BY <1>1, <1>4, <1>5, <2>1, <3>1, <3>2 DEF HashInv, DecoyOK
  <2>2. CASE ~r.making /\ r.pc # "dummy" /\ once # "running" /\ once' = "done"
    <3>1. \A q \in Procs : ~req[q].making
      BY <2>2 DEF HashInv, DecoyOK
    <3> QED
      BY <1>1, <1>5, <2>2, <3>1 DEF HashInv, DecoyOK
  <2> QED
    BY <1>2, <1>3, <1>4, <2>1, <2>2, IdleIsARequest
<1> QED
  BY <1>6, <1>7, <1>8 DEF HashInv

\* A slot is taken when there is a free one, and then nobody waits; otherwise the
\* request goes to the end of the queue.
LEMMA AcquireKeeps ==
  ASSUME HashInv, NEW p \in Procs, Acquire(p)
  PROVE  HashInv'
<1>1. Doing(p, "want") /\ req[p] \in Request /\ UNCHANGED <<once, decoy>>
  BY DEF Acquire, HashInv, RequestsOK
<1>2. PICK pc \in {"hash", "wait"} :
          /\ Becomes(p, [req[p] EXCEPT !.pc = pc])
          /\ \/ /\ pc = "hash" /\ Cardinality(holders) < Slots
                /\ holders' = holders \cup {p} /\ UNCHANGED queue
             \/ /\ pc = "wait" /\ ~(Cardinality(holders) < Slots)
                /\ queue' = Append(queue, p) /\ UNCHANGED holders
  BY DEF Acquire
<1> DEFINE r == [req[p] EXCEPT !.pc = pc]
<1>3. /\ r \in Request /\ r.pc = pc /\ r.pc # "idle"
      /\ r.making = req[p].making /\ r.kind = req[p].kind
  BY <1>1 DEF Request
<1> HIDE DEF r
<1>4. \A q \in Procs : req'[q] = IF q = p THEN r ELSE req[q]
  BY <1>2 DEF Becomes, HashInv, RequestsOK, r
<1>5. RequestsOK'
  BY <1>2, <1>3, RequestsStay DEF r
<1>6. DecoyOK'
  BY <1>1, <1>2, <1>3, <1>4 DEF HashInv, DecoyOK
<1>7. Cardinality(holders) \in Nat /\ Slots \in Nat /\ p \notin holders
  BY <1>1, SlotsAreCounted DEF HashInv, SlotsOK, Doing
<1>8. CASE pc = "hash"
  <2>1. holders' = holders \cup {p} /\ queue' = queue /\ queue = <<>>
    BY <1>2, <1>7, <1>8 DEF HashInv, SlotsOK, SlotsWellUsed
  <2>2. IsFiniteSet(holders') /\ Cardinality(holders') = Cardinality(holders) + 1
    BY <1>7, <2>1, FS_AddElement DEF HashInv, SlotsOK
  <2>3. SlotsWellUsed'
    BY <1>2, <1>7, <1>8, <2>1, <2>2 DEF SlotsWellUsed, Slots
  <2>4. holders' = {q \in Procs : Doing(q, "hash")'}
    BY <1>3, <1>4, <1>8, <2>1 DEF HashInv, SlotsOK, Doing
  <2>5. \A q \in Procs : Doing(q, "wait")' <=> Doing(q, "wait")
    BY <1>1, <1>3, <1>4, <1>8 DEF Doing
  <2> QED
    BY <1>5, <1>6, <2>1, <2>2, <2>3, <2>4, <2>5 DEF HashInv, SlotsOK
<1>9. CASE pc = "wait"
  <2>1. holders' = holders /\ queue' = Append(queue, p) /\ queue \in Seq(Procs)
        /\ Cardinality(holders) = Slots
    BY <1>2, <1>7, <1>9 DEF HashInv, SlotsOK, SlotsWellUsed
  <2>2. /\ queue' \in Seq(Procs) /\ Len(queue') = Len(queue) + 1 /\ Len(queue) \in Nat
        /\ \A i \in 1..Len(queue) : queue'[i] = queue[i]
        /\ queue'[Len(queue) + 1] = p
        /\ DOMAIN queue = 1..Len(queue) /\ DOMAIN queue' = 1..(Len(queue) + 1)
    BY <2>1
  <2>3. \A i \in DOMAIN queue : queue[i] # p
    BY <1>1 DEF HashInv, SlotsOK, Doing
  <2>4. \A q \in Procs : Doing(q, "wait")' <=> q = p \/ Doing(q, "wait")
    BY <1>3, <1>4, <1>9 DEF Doing
  <2>5. \A q \in Procs : Doing(q, "wait")' <=> \E i \in DOMAIN queue' : queue'[i] = q
    <3>1. \A q \in Procs : (\E i \in DOMAIN queue' : queue'[i] = q)
                             <=> (q = p \/ \E i \in DOMAIN queue : queue[i] = q)
      BY <2>2
    <3> QED
      BY <2>4, <3>1 DEF HashInv, SlotsOK
  <2>6. \A i, j \in DOMAIN queue' : queue'[i] = queue'[j] => i = j
    BY <2>2, <2>3 DEF HashInv, SlotsOK
  <2>7. holders' = {q \in Procs : Doing(q, "hash")'}
    BY <1>1, <1>3, <1>4, <1>9, <2>1 DEF HashInv, SlotsOK, Doing
  <2>8. SlotsWellUsed'
    BY <1>7, <2>1 DEF SlotsWellUsed, Slots
  <2> QED
    BY <1>5, <1>6, <2>1, <2>2, <2>5, <2>6, <2>7, <2>8 DEF HashInv, SlotsOK
<1> QED
  BY <1>2, <1>8, <1>9

\* A slot that is given back goes to the head of the queue, or nobody waits.
LEMMA ReleaseKeeps ==
  ASSUME HashInv, NEW p \in Procs, Doing(p, "hash"),
         NEW r \in Request, r.pc \in {"idle", "want"}, r.pc = "idle" => r = Idle,
         Release(p, r)
  PROVE  /\ SlotsOK' /\ RequestsOK'
         /\ req'[p] = r
         /\ \A q \in Procs : q # p =>
                \/ req'[q] = req[q]
                \/ Doing(q, "wait") /\ req'[q] = [req[q] EXCEPT !.pc = "hash"]
<1>1. Cardinality(holders) \in Nat /\ Slots \in Nat /\ p \in holders /\ req \in [Procs -> Request]
  BY SlotsAreCounted DEF HashInv, SlotsOK, RequestsOK
<1>2. /\ IsFiniteSet(holders \ {p}) /\ Cardinality(holders \ {p}) = Cardinality(holders) - 1
      /\ IsFiniteSet(holders)
  BY <1>1, FS_RemoveElement DEF HashInv, SlotsOK
<1>3. CASE queue = <<>>
  <2>1. holders' = holders \ {p} /\ queue' = queue /\ Becomes(p, r)
    BY <1>3 DEF Release
  <2>2. \A q \in Procs : req'[q] = IF q = p THEN r ELSE req[q]
    BY <1>1, <2>1 DEF Becomes
  <2>3. RequestsOK'
    BY <2>1, RequestsStay
  <2>4. SlotsWellUsed'
    BY <1>1, <1>2, <1>3, <2>1 DEF HashInv, SlotsOK, SlotsWellUsed, Slots
  <2>5. SlotsOK'
    BY <1>2, <2>1, <2>2, <2>4 DEF HashInv, SlotsOK, Doing
  <2> QED
    BY <2>2, <2>3, <2>5
<1>4. CASE queue # <<>>
  <2> DEFINE h == Head(queue)
  <2>1. /\ holders' = (holders \ {p}) \cup {h}
        /\ queue' = Tail(queue)
        /\ req' = [req EXCEPT ![p] = r, ![h].pc = "hash"]
    BY <1>4 DEF Release
  <2>2. /\ queue \in Seq(Procs) /\ h \in Procs /\ h = queue[1] /\ 1 \in DOMAIN queue
        /\ queue' \in Seq(Procs) /\ Len(queue) \in Nat /\ Len(queue') = Len(queue) - 1
        /\ \A i \in 1..(Len(queue) - 1) : queue'[i] = queue[i + 1]
        /\ DOMAIN queue = 1..Len(queue) /\ DOMAIN queue' = 1..(Len(queue) - 1)
    BY <1>4, <2>1 DEF HashInv, SlotsOK
  <2>3. Doing(h, "wait") /\ h # p /\ h \notin holders
    BY <2>2 DEF HashInv, SlotsOK, Doing
  <2> HIDE DEF h
  <2> DEFINE rh == [req[h] EXCEPT !.pc = "hash"]
  <2>4. rh \in Request /\ rh.pc = "hash"
    BY <1>1, <2>2 DEF Request
  <2>5. \A q \in Procs : req'[q] = IF q = p THEN r ELSE IF q = h THEN rh ELSE req[q]
    BY <1>1, <2>1, <2>2, <2>3
  <2> HIDE DEF rh
  <2>6. RequestsOK'
    <3>1. DOMAIN req' = Procs /\ req' = [q \in Procs |-> req'[q]]
      BY <1>1, <2>1
    <3>2. \A q \in Procs : req'[q] \in Request
      BY <1>1, <2>4, <2>5
    <3>3. req' \in [Procs -> Request]
      BY <3>1, <3>2
    <3> QED
      BY <2>4, <2>5, <3>3 DEF HashInv, RequestsOK, Doing
  <2>7. IsFiniteSet(holders') /\ Cardinality(holders') = Cardinality(holders)
    <3> DEFINE others == holders \ {p}
    <3>1. h \notin others /\ IsFiniteSet(others) /\ Cardinality(others) = Cardinality(holders) - 1
      BY <1>2, <2>3
    <3>2. holders' = others \cup {h}
      BY <2>1
    <3> HIDE DEF others
    <3>3. IsFiniteSet(others \cup {h}) /\ Cardinality(others \cup {h}) = Cardinality(others) + 1
      BY <3>1, FS_AddElement
    <3> QED
      BY <1>1, <3>1, <3>2, <3>3
  <2>8. SlotsWellUsed'
    <3>1. Cardinality(holders) = Slots
      BY <1>4 DEF HashInv, SlotsOK, SlotsWellUsed
    <3> QED
      BY <1>1, <2>7, <3>1 DEF SlotsWellUsed, Slots
  <2>9. holders' = {q \in Procs : Doing(q, "hash")'}
    <3>1. \A q \in Procs : Doing(q, "hash")' <=> q = h \/ (q # p /\ Doing(q, "hash"))
      BY <2>3, <2>4, <2>5 DEF Doing
    <3>2. holders = {q \in Procs : Doing(q, "hash")}
      BY DEF HashInv, SlotsOK
    <3> QED
      BY <2>1, <2>2, <3>1, <3>2
  <2>10. \A q \in Procs : Doing(q, "wait")' <=> Doing(q, "wait") /\ q # h
    BY <2>3, <2>4, <2>5 DEF Doing
  <2>11. \A q \in Procs : Doing(q, "wait")' <=> \E i \in DOMAIN queue' : queue'[i] = q
    <3> SUFFICES ASSUME NEW q \in Procs
                 PROVE  Doing(q, "wait") /\ q # h <=> \E i \in DOMAIN queue' : queue'[i] = q
      BY <2>10
    <3>1. ASSUME NEW i \in DOMAIN queue', queue'[i] = q PROVE Doing(q, "wait") /\ q # h
      <4>1. i + 1 \in DOMAIN queue /\ queue[i + 1] = q /\ i + 1 # 1
        BY <2>2, <3>1
      <4> QED
        BY <2>2, <4>1 DEF HashInv, SlotsOK
    <3>2. ASSUME Doing(q, "wait"), q # h PROVE \E i \in DOMAIN queue' : queue'[i] = q
      <4>1. PICK j \in DOMAIN queue : queue[j] = q
        BY <3>2 DEF HashInv, SlotsOK
      <4>2. j # 1
        BY <2>2, <3>2, <4>1
      <4>3. j - 1 \in DOMAIN queue' /\ queue'[j - 1] = q
        BY <2>2, <4>1, <4>2
      <4> QED
        BY <4>3
    <3> QED
      BY <3>1, <3>2
  <2>12. \A i, j \in DOMAIN queue' : queue'[i] = queue'[j] => i = j
    <3> SUFFICES ASSUME NEW i \in DOMAIN queue', NEW j \in DOMAIN queue', queue'[i] = queue'[j]
                 PROVE  i = j
      OBVIOUS
    <3>1. i + 1 \in DOMAIN queue /\ j + 1 \in DOMAIN queue /\ queue[i + 1] = queue[j + 1]
      BY <2>2
    <3>2. i + 1 = j + 1
      BY <3>1 DEF HashInv, SlotsOK
    <3> QED
      BY <2>2, <3>2
  <2> QED
    BY <2>2, <2>3, <2>5, <2>6, <2>7, <2>8, <2>9, <2>11, <2>12 DEF SlotsOK, rh
<1> QED
  BY <1>3, <1>4

\* The end of a hash; that of the decoy leaves it there, with nobody making it.
LEMMA FinishKeeps ==
  ASSUME HashInv, NEW p \in Procs, Finish(p)
  PROVE  HashInv'
<1>1. /\ Doing(p, "hash") /\ req[p] \in Request
      /\ once' = IF req[p].making THEN "done" ELSE once
      /\ decoy' = (decoy \/ req[p].making)
  BY DEF Finish, HashInv, RequestsOK
<1>2. PICK r \in Request :
          /\ Release(p, r)
          /\ r.pc \in {"idle", "want"} /\ (r.pc = "idle" => r = Idle) /\ ~r.making
  <2>1. [Wanting(p) EXCEPT !.making = FALSE] \in Request
        /\ [Wanting(p) EXCEPT !.making = FALSE].pc = "want"
        /\ ~[Wanting(p) EXCEPT !.making = FALSE].making
    BY <1>1 DEF Wanting, Request
  <2>2. [Wanting(p) EXCEPT !.verified = TRUE] \in Request
        /\ [Wanting(p) EXCEPT !.verified = TRUE].pc = "want"
        /\ [Wanting(p) EXCEPT !.verified = TRUE].making = req[p].making
    BY <1>1 DEF Wanting, Request
  <2>3. req[p].kind = "change" => ~req[p].making
    BY DEF HashInv, DecoyOK
  <2> QED
    BY <2>1, <2>2, <2>3, IdleIsARequest DEF Finish
<1>3. /\ SlotsOK' /\ RequestsOK'
      /\ req'[p] = r
      /\ \A q \in Procs : q # p =>
             \/ req'[q] = req[q]
             \/ Doing(q, "wait") /\ req'[q] = [req[q] EXCEPT !.pc = "hash"]
  BY <1>1, <1>2, ReleaseKeeps
<1>4. \A q \in Procs : q # p =>
          /\ req'[q].making = req[q].making /\ req'[q].kind = req[q].kind
          /\ req'[q].pc = req[q].pc \/ req'[q].pc = "hash"
  <2> SUFFICES ASSUME NEW q \in Procs, q # p
               PROVE  /\ req'[q].making = req[q].making /\ req'[q].kind = req[q].kind
                      /\ req'[q].pc = req[q].pc \/ req'[q].pc = "hash"
    OBVIOUS
  <2>1. req[q] \in Request
    BY DEF HashInv, RequestsOK
  <2>2. /\ [req[q] EXCEPT !.pc = "hash"].making = req[q].making
        /\ [req[q] EXCEPT !.pc = "hash"].kind = req[q].kind
        /\ [req[q] EXCEPT !.pc = "hash"].pc = "hash"
    BY <2>1 DEF Request
  <2> QED
    BY <1>3, <2>2
<1>5. DecoyOK'
  <2>1. \A q \in Procs : req'[q].making <=> q # p /\ req[q].making
    BY <1>2, <1>3, <1>4
  <2>2. (\E q \in Procs : req'[q].making) <=> once' = "running"
    BY <1>1, <2>1 DEF HashInv, DecoyOK
  <2>3. once' \in {"new", "running", "done"} /\ decoy' \in BOOLEAN /\ (decoy' => once' = "done")
    <3>1. req[p].making \in BOOLEAN
      BY <1>1 DEF Request
    <3> QED
      BY <1>1, <3>1 DEF HashInv, DecoyOK
  <2> QED
    BY <1>2, <1>3, <1>4, <2>1, <2>2, <2>3 DEF HashInv, DecoyOK
<1> QED
  BY <1>3, <1>5 DEF HashInv

LEMMA HashInitKeeps == HashInit => HashInv
<1> SUFFICES ASSUME HashInit PROVE HashInv
  OBVIOUS
<1>1. /\ holders = {} /\ queue = <<>> /\ once = "new" /\ decoy = FALSE
      /\ req \in [Procs -> Request] /\ \A p \in Procs : req[p] = Idle
  BY IdleIsARequest DEF HashInit
<1>2. SlotsWellUsed
  BY <1>1, SlotsAreCounted, FS_EmptySet DEF SlotsWellUsed, Slots
<1>3. SlotsOK
  BY <1>1, <1>2, IdleIsARequest, FS_EmptySet DEF SlotsOK, Doing, Idle
<1> QED
  BY <1>1, <1>3, IdleIsARequest DEF HashInv, DecoyOK, RequestsOK, Idle

LEMMA HashNextKeeps == HashInv /\ [HashNext]_hashVars => HashInv'
<1> SUFFICES ASSUME HashInv, [HashNext]_hashVars PROVE HashInv'
  OBVIOUS
<1>1. CASE UNCHANGED hashVars
  BY <1>1 DEF hashVars, HashInv, SlotsOK, SlotsWellUsed, DecoyOK, RequestsOK, Doing
<1> QED
  BY <1>1, ArriveKeeps, DummyVerifyKeeps, AcquireKeeps, FinishKeeps DEF HashNext, Step

LEMMA HashInvariance == HashInit /\ [][HashNext]_hashVars => []HashInv
BY HashInitKeeps, HashNextKeeps, PTL

\* Types of the slots, of the queue for them and of the decoy: at most one login
\* makes it.
LEMMA HashTypeCorrect == HashInit /\ [][HashNext]_hashVars => []HashTypeOK
<1>1. HashInv => HashTypeOK
  BY DEF HashInv, SlotsOK, DecoyOK, RequestsOK, HashTypeOK
<1> QED
  BY <1>1, HashInvariance, PTL

\* limit.go:10-11: no more hashes are computed at a time than there are slots,
\* and none waits while a slot is free, for any number of slots and requests.
THEOREM SlotsWellUsedHolds == HashSpec => []SlotsWellUsed
<1>1. HashInv => SlotsWellUsed
  BY DEF HashInv, SlotsOK
<1> QED
  BY <1>1, HashInvariance, PTL DEF HashSpec

\* What EveryHashAnswered rests on.  A request that hashes, that is about to take
\* a slot, or that finds the decoy done or not begun, waits for nobody.
WaitsForNobody(p) ==
    Doing(p, "hash") \/ Doing(p, "want") \/ (Doing(p, "dummy") /\ once # "running")

SomebodyMoves ==
    (\E p \in Procs : ~Doing(p, "idle")) => \E p \in Procs : WaitsForNobody(p)

\* limit.go:31, 42-49: those that wait for a slot wait for requests that hash, and
\* those that wait for the decoy for the one that makes it, which is not among
\* them: some request that is not answered waits for nobody.
THEOREM SomebodyMovesHolds == HashSpec => []SomebodyMoves
<1>1. HashInv => SomebodyMoves
  <2> SUFFICES ASSUME HashInv, NEW p \in Procs, ~Doing(p, "idle")
               PROVE  \E q \in Procs : WaitsForNobody(q)
    BY DEF SomebodyMoves
  <2>1. req[p].pc \in {"dummy", "want", "wait", "hash"}
    BY DEF HashInv, RequestsOK, Request, Doing
  <2>2. ASSUME NEW q \in Procs, Doing(q, "wait")
        PROVE  \E h \in Procs : WaitsForNobody(h)
    <3>1. Cardinality(holders) = Slots /\ Slots >= 2
      BY <2>2, HashSlotsAssumption DEF HashInv, SlotsOK, SlotsWellUsed, Slots
    <3>2. PICK h \in holders : TRUE
      BY <3>1, FS_EmptySet
    <3> QED
      BY <3>2 DEF HashInv, SlotsOK, WaitsForNobody
  <2>3. CASE Doing(p, "dummy") /\ once = "running"
    <3>1. PICK m \in Procs : req[m].pc \in {"want", "wait", "hash"}
      BY <2>3 DEF HashInv, DecoyOK
    <3> QED
      BY <2>2, <3>1 DEF WaitsForNobody, Doing
  <2> QED
    BY <2>1, <2>2, <2>3 DEF WaitsForNobody, Doing
<1> QED
  BY <1>1, HashInvariance, PTL DEF HashSpec

\* limit.go:40-41: a login with an unknown name is answered after a hash of its
\* own, unless the decoy could not be made.
THEOREM SameWorkHolds == HashSpec => SameWork
<1>1. HashInv /\ [HashNext]_hashVars => [SameWorkStep]_hashVars
  <2> SUFFICES ASSUME HashInv, HashNext, NEW p \in Procs,
                      ~Doing(p, "idle"), req'[p].pc = "idle"
               PROVE  (Doing(p, "hash") /\ ~req[p].making) \/ (once' = "done" /\ ~decoy')
    BY DEF SameWorkStep
  <2>1. req \in [Procs -> Request] /\ p \in Procs
    BY DEF HashInv, RequestsOK
  <2>2. PICK q \in Procs : Arrive(q) \/ Step(q)
    BY DEF HashNext
  <2>3. CASE Arrive(q)
    <3>1. Doing(q, "idle") /\ \E r : Becomes(q, r) /\ r.pc # "idle"
      <4>1. /\ \A kind : [Idle EXCEPT !.pc = "want", !.kind = kind].pc = "want"
            /\ [Idle EXCEPT !.pc = "dummy", !.kind = "unknown"].pc = "dummy"
        BY DEF Idle
      <4> QED
        BY <2>3, <4>1 DEF Arrive
    <3> QED
      BY <2>1, <3>1 DEF Becomes, Doing
  <2>4. CASE DummyVerify(q)
    <3>1. req'[p] = req[p] \/ q = p
      BY <2>1, <2>4 DEF DummyVerify, Becomes
    <3>2. q = p
      BY <3>1 DEF Doing
    <3>3. /\ \/ once' = "running" /\ Becomes(p, [Wanting(p) EXCEPT !.making = TRUE])
             \/ once = "new" /\ once' = "done" /\ Becomes(p, Idle)
             \/ once' = "done" /\ Becomes(p, IF decoy THEN Wanting(p) ELSE Idle)
          /\ decoy' = decoy
      BY <2>4, <3>2 DEF DummyVerify
    <3>4. Wanting(p).pc = "want" /\ [Wanting(p) EXCEPT !.making = TRUE].pc = "want"
      BY <2>1 DEF Wanting, Request
    <3> QED
      BY <2>1, <3>3, <3>4 DEF Becomes, HashInv, DecoyOK
  <2>5. CASE Acquire(q)
    <3>1. \E pc \in {"hash", "wait"} : Becomes(q, [req[q] EXCEPT !.pc = pc])
      BY <2>5 DEF Acquire
    <3> QED
      BY <2>1, <3>1 DEF Becomes, Doing, Request
  <2>6. CASE Finish(q)
    <3>1. Doing(q, "hash") /\ req[q] \in Request
      BY <2>1, <2>6 DEF Finish
    <3>2. PICK r \in Request : /\ Release(q, r)
                               /\ r.pc \in {"idle", "want"} /\ (r.pc = "idle" => r = Idle)
                               /\ r.pc = "idle" => ~req[q].making
      <4>1. [Wanting(q) EXCEPT !.making = FALSE] \in Request
            /\ [Wanting(q) EXCEPT !.making = FALSE].pc = "want"
            /\ [Wanting(q) EXCEPT !.verified = TRUE] \in Request
            /\ [Wanting(q) EXCEPT !.verified = TRUE].pc = "want"
        BY <3>1 DEF Wanting, Request
      <4> QED
        BY <2>6, <4>1, IdleIsARequest DEF Finish
    <3>3. /\ req'[q] = r
          /\ q # p => \/ req'[p] = req[p]
                      \/ req'[p] = [req[p] EXCEPT !.pc = "hash"]
      BY <3>1, <3>2, ReleaseKeeps
    <3>4. q = p
      BY <2>1, <3>3 DEF Doing, Request
    <3> QED
      BY <3>1, <3>2, <3>3, <3>4
  <2> QED
    BY <2>2, <2>3, <2>4, <2>5, <2>6 DEF Step
<1> QED
  BY <1>1, HashInvariance, PTL DEF HashSpec, SameWork

-----------------------------------------------------------------------------
(* Keys *)

\* An upload was let in by a copy without a key; nobody knows a key before the
\* account has one.
Admitted ==
    /\ \A d \in Devices : Busy(d, "upload") => keyReq[d].copy.public = {}
    /\ row.public = {} =>
           \A d \in Devices : knows[d].public = {} /\ keyReq[d].copy.public = {}

\* What the administrator has listed is the account's key.
Listed == ~outdated => listed \subseteq row.public

KeysInv == KeysTypeOK /\ Admitted /\ KeyOpens /\ EnvelopeOpens /\ Listed

-----------------------------------------------------------------------------
\* A new request reads the row; an upload begins only when it shows no key.
LEMMA SendKeeps ==
    ASSUME KeysInv, NEW d \in Devices, NEW pc \in {"login", "upload", "change"}, Send(d, pc),
           pc = "upload" => row.public = {}
    PROVE KeysInv'
  <1> DEFINE copy == [password |-> row.password, public |-> row.public]
  <1>1. /\ keyReq' = [keyReq EXCEPT ![d] = [pc |-> pc, copy |-> copy]]
        /\ UNCHANGED <<row, envelope, listed, live, knows, passwords, outdated>>
    BY DEF Send
  <1>2. keyReq \in [Devices -> [pc : {"idle", "login", "upload", "change"}, copy : Copy]]
        /\ row.password \in Passwords /\ row.public \in AtMostOne(Devices)
    BY DEF KeysInv, KeysTypeOK
  <1>3. copy \in Copy
    BY <1>2 DEF Copy
  <1>4. \A e \in Devices : keyReq'[e] = keyReq[e] \/ (e = d /\ keyReq'[e] = [pc |-> pc, copy |-> copy])
    BY <1>1, <1>2
  <1>5. keyReq' \in [Devices -> [pc : {"idle", "login", "upload", "change"}, copy : Copy]]
    BY <1>1, <1>2, <1>3
  <1>6. KeysTypeOK'
    BY <1>1, <1>5 DEF KeysInv, KeysTypeOK
  <1>7. Admitted'
    BY <1>1, <1>4 DEF KeysInv, Admitted, Busy
  <1> QED
    BY <1>1, <1>6, <1>7 DEF KeysInv, KeyOpens, EnvelopeOpens, Listed

\* A request that ends, whatever the row has become.
LEMMA ReplyKeeps ==
    ASSUME KeysInv, NEW d \in Devices, Reply(d)
    PROVE /\ keyReq' \in [Devices -> [pc : {"idle", "login", "upload", "change"}, copy : Copy]]
          /\ \A e \in Devices : keyReq'[e] = keyReq[e] \/ keyReq'[e] = Resting
          /\ Resting.pc = "idle" /\ Resting.copy.public = {}
  <1>1. keyReq \in [Devices -> [pc : {"idle", "login", "upload", "change"}, copy : Copy]]
        /\ passwords \in Passwords
    BY DEF KeysInv, KeysTypeOK
  <1>2. 0 \in Passwords /\ {} \in AtMostOne(Devices)
    BY KeysAssumption DEF Passwords, AtMostOne
  <1>3. Resting \in [pc : {"idle", "login", "upload", "change"}, copy : Copy]
    BY <1>2 DEF Resting, Copy
  <1> QED
    BY <1>1, <1>3 DEF Reply, Resting

\* A session that begins knows what its request has read.
LEMMA LoginKeeps ==
    ASSUME KeysInv, NEW d \in Devices, Login(d)
    PROVE KeysInv'
  <1>1. /\ live' = live \cup {d}
        /\ knows' = [knows EXCEPT ![d] = keyReq[d].copy]
        /\ Reply(d)
        /\ UNCHANGED <<row, envelope, listed, passwords, outdated>>
    BY DEF Login
  <1>2. knows \in [Devices -> Copy] /\ keyReq[d].copy \in Copy
    BY DEF KeysInv, KeysTypeOK
  <1>3. KeysTypeOK'
    BY <1>1, <1>2, ReplyKeeps DEF KeysInv, KeysTypeOK
  <1>4. Admitted'
    BY <1>1, <1>2, ReplyKeeps DEF KeysInv, Admitted, Busy
  <1> QED
    BY <1>1, <1>3, <1>4 DEF KeysInv, KeyOpens, EnvelopeOpens, Listed

\* A device that reads its account again.
LEMMA MeKeeps ==
    ASSUME KeysInv, NEW d \in Devices, Me(d)
    PROVE KeysInv'
  <1>1. /\ knows' = [knows EXCEPT ![d].public = row.public]
        /\ UNCHANGED <<row, envelope, listed, live, keyReq, passwords, outdated>>
    BY DEF Me
  <1>2. knows \in [Devices -> Copy] /\ row.public \in AtMostOne(Devices)
    BY DEF KeysInv, KeysTypeOK
  <1>3. knows' \in [Devices -> Copy]
    BY <1>1, <1>2 DEF Copy
  <1>4. \A e \in Devices : knows'[e].public \in {knows[e].public, row.public}
    BY <1>1, <1>2 DEF Copy
  <1>5. KeysTypeOK'
    BY <1>1, <1>3 DEF KeysInv, KeysTypeOK
  <1>6. Admitted'
    BY <1>1, <1>4 DEF KeysInv, Admitted, Busy
  <1> QED
    BY <1>1, <1>5, <1>6 DEF KeysInv, KeyOpens, EnvelopeOpens, Listed

\* An upload that has crossed nothing finds no key, hence no envelope and no
\* listing, and its pair is wrapped under the account's password.
LEMMA UploadKeeps ==
    ASSUME KeysInv, NEW d \in Devices, Upload(d)
    PROVE KeysInv'
  <1> DEFINE pw == knows[d].password
  <1>1. /\ Busy(d, "upload")
        /\ row' = [row EXCEPT !.public = {d}, !.private = {<<d, pw>>}]
        /\ knows' = [knows EXCEPT ![d].public = {d}]
        /\ outdated' = (outdated \/ row.public # keyReq[d].copy.public \/ row.password # pw)
        /\ Reply(d)
        /\ UNCHANGED <<envelope, listed, live, passwords>>
    BY DEF Upload
  <1>2. /\ row \in [password : Passwords, public : AtMostOne(Devices),
                    private : AtMostOne(Devices \X Passwords)]
        /\ knows \in [Devices -> Copy]
        /\ outdated \in BOOLEAN
    BY DEF KeysInv, KeysTypeOK
  <1>3. pw \in Passwords
    BY <1>2 DEF Copy
  <1>4. {d} \in AtMostOne(Devices) /\ {<<d, pw>>} \in AtMostOne(Devices \X Passwords)
    BY <1>3 DEF AtMostOne
  <1>5. /\ row'.password = row.password /\ row'.public = {d} /\ row'.private = {<<d, pw>>}
        /\ row' \in [password : Passwords, public : AtMostOne(Devices),
                     private : AtMostOne(Devices \X Passwords)]
    BY <1>1, <1>2, <1>4
  <1>6. knows' \in [Devices -> Copy]
    BY <1>1, <1>2, <1>4 DEF Copy
  <1>7. outdated' \in BOOLEAN
    BY <1>1
  <1>8. KeysTypeOK'
    BY <1>1, <1>5, <1>6, <1>7, ReplyKeeps DEF KeysInv, KeysTypeOK
  <1>9. Admitted'
    BY <1>1, <1>5, ReplyKeeps DEF KeysInv, Admitted, Busy
  <1>10. ASSUME ~outdated' PROVE ~outdated /\ row.public = {} /\ row.password = pw
    BY <1>10, <1>1 DEF KeysInv, Admitted
  <1>11. {<<d, pw>>} = {d} \X {pw}
    OBVIOUS
  <1>12. KeyOpens'
    BY <1>5, <1>10, <1>11 DEF KeyOpens
  <1>13. EnvelopeOpens' /\ Listed'
    BY <1>1, <1>10 DEF KeysInv, EnvelopeOpens, Listed
  <1> QED
    BY <1>8, <1>9, <1>12, <1>13 DEF KeysInv

\* A password change by a device that knows the account's key wraps it again.
LEMMA ChangeKeeps ==
    ASSUME KeysInv, NEW d \in Devices, Change(d)
    PROVE KeysInv'
  <1> DEFINE pw == passwords + 1
             known == knows[d].public
             private == IF known = {} THEN row.private ELSE known \X {pw}
  <1>1. /\ passwords < MaxPasswords
        /\ passwords' = pw
        /\ row' = [row EXCEPT !.password = pw, !.private = private]
        /\ live' = live \cap {d}
        /\ knows' = [knows EXCEPT ![d] = [password |-> pw, public |-> row.public]]
        /\ outdated' = (outdated \/ row.public # known)
        /\ Reply(d)
        /\ UNCHANGED <<envelope, listed>>
    BY DEF Change
  <1>2. /\ row \in [password : Passwords, public : AtMostOne(Devices),
                    private : AtMostOne(Devices \X Passwords)]
        /\ knows \in [Devices -> Copy]
        /\ passwords \in Passwords
        /\ row.public = {} <=> row.private = {}
    BY DEF KeysInv, KeysTypeOK
  <1>3. pw \in Passwords
    BY <1>1, <1>2, KeysAssumption DEF Passwords
  <1>4. known \in AtMostOne(Devices) /\ [password |-> pw, public |-> row.public] \in Copy
    BY <1>2, <1>3 DEF Copy
  <1>5. private \in AtMostOne(Devices \X Passwords)
    <2>1. CASE known = {}
      BY <2>1, <1>2
    <2>2. CASE known # {}
      <3>1. PICK e \in Devices : known = {e}
        BY <2>2, <1>4 DEF AtMostOne
      <3>2. private = {<<e, pw>>} /\ <<e, pw>> \in Devices \X Passwords
        BY <2>2, <3>1, <1>3
      <3> QED
        BY <3>2 DEF AtMostOne
    <2> QED
      BY <2>1, <2>2
  <1>6. /\ row'.password = pw /\ row'.public = row.public /\ row'.private = private
        /\ row' \in [password : Passwords, public : AtMostOne(Devices),
                     private : AtMostOne(Devices \X Passwords)]
    <2> HIDE DEF private, pw
    <2> QED
      BY <1>1, <1>2, <1>3, <1>5
  <1>7. row.public = {} <=> private = {}
    <2>1. CASE known = {}
      BY <2>1, <1>2
    <2>2. CASE known # {}
      <3>1. row.public # {}
        BY <2>2 DEF KeysInv, Admitted
      <3>2. PICK e : e \in known
        BY <2>2
      <3>3. <<e, pw>> \in known \X {pw}
        BY <3>2
      <3> QED
        BY <2>2, <3>1, <3>3
    <2> QED
      BY <2>1, <2>2
  <1>8. knows' \in [Devices -> Copy]
    BY <1>1, <1>2, <1>4
  <1>9. \A e \in Devices : knows'[e].public \in {knows[e].public, row.public}
    BY <1>1, <1>2
  <1>10. outdated' \in BOOLEAN /\ (~outdated' => ~outdated /\ row.public = known)
    BY <1>1 DEF KeysInv, KeysTypeOK
  <1>11. KeysTypeOK'
    BY <1>1, <1>3, <1>6, <1>7, <1>8, <1>10, ReplyKeeps DEF KeysInv, KeysTypeOK
  <1>12. Admitted'
    BY <1>1, <1>6, <1>9, ReplyKeeps DEF KeysInv, Admitted, Busy
  <1>13. KeyOpens'
    <2> SUFFICES ASSUME ~outdated' PROVE private = row.public \X {pw}
      BY <1>6 DEF KeyOpens
    <2>1. row.public = known
      BY <1>10
    <2>2. CASE known = {}
      BY <2>1, <2>2, <1>2
    <2>3. CASE known # {}
      BY <2>1, <2>3
    <2> QED
      BY <2>2, <2>3
  <1>14. EnvelopeOpens' /\ Listed'
    BY <1>1, <1>6, <1>10 DEF KeysInv, EnvelopeOpens, Listed
  <1> QED
    BY <1>11, <1>12, <1>13, <1>14 DEF KeysInv

-----------------------------------------------------------------------------
\* Nobody knows a key at first but the device that made it.
LEMMA KeysInitKeeps == KeysInit => KeysInv
  <1> SUFFICES ASSUME KeysInit PROVE KeysInv
    OBVIOUS
  <1>1. PICK d \in Devices, public \in AtMostOne(Devices) :
            /\ public \subseteq {d}
            /\ row = [password |-> 0, public |-> public, private |-> public \X {0}]
            /\ live = {d}
            /\ knows = [e \in Devices |-> [password |-> 0, public |-> IF e = d THEN public ELSE {}]]
    BY DEF KeysInit
  <1>2. /\ envelope = {} /\ listed = {} /\ passwords = 0 /\ outdated = FALSE
        /\ keyReq = [e \in Devices |-> Resting]
    BY DEF KeysInit
  <1>3. 0 \in Passwords /\ {} \in AtMostOne(Devices) /\ {} \in AtMostOne(Devices \X Passwords)
    BY KeysAssumption DEF Passwords, AtMostOne
  <1>4. /\ public \X {0} \in AtMostOne(Devices \X Passwords)
        /\ public = {} <=> public \X {0} = {}
    <2>1. CASE public = {}
      BY <2>1, <1>3
    <2>2. CASE public # {}
      <3>1. public = {d}
        BY <1>1, <2>2
      <3>2. public \X {0} = {<<d, 0>>} /\ <<d, 0>> \in Devices \X Passwords
        BY <3>1, <1>3
      <3> QED
        BY <2>2, <3>2 DEF AtMostOne
    <2> QED
      BY <2>1, <2>2
  <1>5. Resting \in [pc : {"idle", "login", "upload", "change"}, copy : Copy]
    BY <1>3 DEF Resting, Copy
  <1>6. knows \in [Devices -> Copy]
    BY <1>1, <1>3 DEF Copy
  <1>7. KeysTypeOK
    BY <1>1, <1>2, <1>3, <1>4, <1>5, <1>6 DEF KeysTypeOK
  <1>8. Admitted
    BY <1>1, <1>2 DEF Admitted, Busy, Resting
  <1>9. KeyOpens /\ EnvelopeOpens /\ Listed
    BY <1>1, <1>2 DEF KeyOpens, EnvelopeOpens, Listed
  <1> QED
    BY <1>7, <1>8, <1>9 DEF KeysInv

\* Every step keeps the invariant.
LEMMA KeysNextKeeps ==
    ASSUME KeysInv, [KeysNext]_keyVars
    PROVE KeysInv'
  <1>1. ASSUME NEW d \in Devices, KeysStatementFails(d) PROVE KeysInv'
    <2>1. Reply(d) /\ UNCHANGED <<row, envelope, listed, live, knows, passwords, outdated>>
      BY <1>1 DEF KeysStatementFails
    <2>2. KeysTypeOK'
      BY <2>1, ReplyKeeps DEF KeysInv, KeysTypeOK
    <2>3. Admitted'
      BY <2>1, ReplyKeeps DEF KeysInv, Admitted, Busy
    <2> QED
      BY <2>1, <2>2, <2>3 DEF KeysInv, KeyOpens, EnvelopeOpens, Listed
  <1>2. ASSUME NEW d \in Devices, BeginLogin(d) \/ BeginUpload(d) \/ BeginChange(d) PROVE KeysInv'
    <2>1. CASE BeginLogin(d)
      BY <2>1, SendKeeps DEF BeginLogin
    <2>2. CASE BeginUpload(d)
      BY <2>2, SendKeeps DEF BeginUpload
    <2>3. CASE BeginChange(d)
      BY <2>3, SendKeeps DEF BeginChange
    <2> QED
      BY <1>2, <2>1, <2>2, <2>3
  <1>3. CASE List
    BY <1>3 DEF List, KeysInv, KeysTypeOK, Admitted, Busy, KeyOpens, EnvelopeOpens, Listed
  <1>4. CASE Grant
    BY <1>4 DEF Grant, KeysInv, KeysTypeOK, Admitted, Busy, KeyOpens, EnvelopeOpens, Listed
  <1>5. CASE Revoke
    BY <1>5 DEF Revoke, KeysInv, KeysTypeOK, Admitted, Busy, KeyOpens, EnvelopeOpens, Listed, AtMostOne
  <1>6. CASE UNCHANGED keyVars
    BY <1>6 DEF keyVars, KeysInv, KeysTypeOK, Admitted, Busy, KeyOpens, EnvelopeOpens, Listed
  <1> QED
    BY <1>1, <1>2, <1>3, <1>4, <1>5, <1>6, LoginKeeps, MeKeeps, UploadKeeps, ChangeKeeps DEF KeysNext

\* The invariant in every reachable state.
LEMMA KeysInvariance == KeysSpec => []KeysInv
  <1>1. KeysInit => KeysInv
    BY KeysInitKeeps
  <1>2. KeysInv /\ [KeysNext]_keyVars => KeysInv'
    BY KeysNextKeeps
  <1> QED
    BY <1>1, <1>2, PTL DEF KeysSpec

\* Types; both halves of the keypair are stored or neither, whatever a device that
\* has not seen the other's key writes.
THEOREM KeysTypeCorrect == KeysSpec => []KeysTypeOK
  <1>1. KeysInv => KeysTypeOK
    BY DEF KeysInv
  <1> QED
    BY KeysInvariance, <1>1, PTL

\* The private key opens under the account's password and fits its public key,
\* unless a client has written what no longer fitted the row.
THEOREM KeyOpensHolds == KeysSpec => []KeyOpens
  <1>1. KeysInv => KeyOpens
    BY DEF KeysInv
  <1> QED
    BY KeysInvariance, <1>1, PTL

\* The envelope of the organization's key fits the account's public key, with the
\* same exception.
THEOREM EnvelopeOpensHolds == KeysSpec => []EnvelopeOpens
  <1>1. KeysInv => EnvelopeOpens
    BY DEF KeysInv
  <1> QED
    BY KeysInvariance, <1>1, PTL

\* A public key is replaced only by an upload that was let in before there was one.
THEOREM KeySetOnceHolds == KeysSpec => KeySetOnce
  <1>1. KeysInv /\ [KeysNext]_keyVars => [KeyStep]_keyVars
    <2> SUFFICES ASSUME KeysInv, KeysNext, row.public # {}, row'.public # row.public
                 PROVE \E d \in Devices : Busy(d, "upload") /\ keyReq[d].copy.public = {}
                                          /\ row'.public = {d}
      BY DEF KeyStep, keyVars
    <2>1. row \in [password : Passwords, public : AtMostOne(Devices),
                   private : AtMostOne(Devices \X Passwords)]
      BY DEF KeysInv, KeysTypeOK
    <2>2. ASSUME NEW d \in Devices, Upload(d)
          PROVE Busy(d, "upload") /\ keyReq[d].copy.public = {} /\ row'.public = {d}
      BY <2>1, <2>2 DEF Upload, KeysInv, Admitted
    <2>3. ASSUME NEW d \in Devices, Change(d) PROVE row'.public = row.public
      BY <2>1, <2>3 DEF Change
    <2> QED
      BY <2>2, <2>3 DEF KeysNext, BeginLogin, BeginUpload, BeginChange, Send, Login, Me,
                        KeysStatementFails, List, Grant, Revoke
  <1> QED
    BY KeysInvariance, <1>1, PTL DEF KeysSpec, KeySetOnce

-----------------------------------------------------------------------------
(* Side by side *)

\* What is proved of each of the four alone holds of it next to the others: no
\* step of one is seen by another.
LEMMA AccountImplementsParts ==
  /\ AccountSpec => Spec
  /\ AccountSpec => HashSpec
  /\ AccountSpec => KeysSpec
  /\ AccountSpec => VaultSpec
<1>1. AccountInit => Init /\ HashInit /\ KeysInit /\ VaultInit
  BY DEF AccountInit
<1>2. [AccountNext]_<<side, vars, hashVars, keyVars, vaultVars>> =>
          [Next]_vars /\ [HashNext]_hashVars /\ [KeysNext]_keyVars /\ [VaultNext]_vaultVars
  BY DEF AccountNext, BootNext
<1> QED
  BY <1>1, <1>2, PTL DEF AccountSpec, Spec, HashSpec, KeysSpec, VaultSpec

\* The types of the slots, of the key material and of the vault.
THEOREM AccountTypeCorrect == AccountSpec => []AccountTypeOK
<1>1. HashTypeOK /\ KeysTypeOK /\ VaultTypeOK => AccountTypeOK
  BY DEF AccountTypeOK
<1>2. HashSpec => []HashTypeOK
  BY HashTypeCorrect, PTL DEF HashSpec
<1> QED
  BY <1>1, <1>2, AccountImplementsParts, KeysTypeCorrect, VaultTypeCorrect, PTL
=============================================================================
