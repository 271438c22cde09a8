---------------------------- MODULE SessionsProofs ----------------------------
(***************************************************************************)
(* Proofs about Sessions, for every number of accounts and goroutines and  *)
(* every bound.  The inductive invariant says of each row what the         *)
(* properties say of it, and ties the requests in flight to their session: *)
(* when they read the clock and whose session they found.                  *)
(***************************************************************************)
EXTENDS Sessions, TLAPS

\* A slide of s, a purge of the sessions of u, is still to come.
Sliding(s) == \E p \in Threads : Reached(p, "slide") /\ call[p].token = s
Purging(u) == \E p \in Threads : Reached(p, "purge") /\ call[p].user = u

\* What holds of the row of s.
RowOK(s) ==
    /\ s <= issued /\ account[session[s].owner] \in {"active", "suspended"}
    /\ session[s].used <= clock
    /\ session[s].expires <= session[s].used + TTL
    /\ session[s].lost \/ Sliding(s) \/ 2 * (session[s].expires - session[s].used) >= TTL
    /\ \/ session[s].since = epoch[session[s].owner]
       \/ session[s].late \/ Purging(session[s].owner)

\* What a request knows that is still true.
RequestOK(r) ==
    /\ r.pc \in {"slide", "load", "handle"} =>
         r.token <= issued /\ (r.token \in Live => session[r.token].owner = r.user)
    /\ r.pc = "slide" =>
         /\ r.now <= clock /\ clock <= r.now + MaxDelay
         /\ r.token \in Live => r.now <= session[r.token].used
    /\ r.pc = "create" => account[r.user] # "unborn"

Types ==
    /\ clock \in 0..MaxClock
    /\ account \in [People -> {"unborn", "active", "suspended", "gone"}]
    /\ session \in [Tokens -> Rows \cup {NoRow}]
    /\ issued \in 0..MaxLogins
    /\ call \in [Threads -> Call \cup {NoRequest}]
    /\ epoch \in [People -> 0..MaxEpoch]

IInv ==
    /\ Types
    /\ \A s \in Live : RowOK(s)
    /\ \A p \in Threads : RequestOK(call[p])

-----------------------------------------------------------------------------
(* Rows and requests *)

\* A row is never mistaken for its absence.
LEMMA RowsAreRows == NoRow \notin Rows
<1>1. ASSUME NoRow \in Rows PROVE FALSE
  <2>1. DOMAIN NoRow = {"owner"} /\ "expires" \in DOMAIN NoRow
    BY <1>1 DEF NoRow, Rows
  <2> QED
    BY <2>1
<1> QED
  BY <1>1

LEMMA LiveRows ==
  ASSUME Types, NEW s \in Live
  PROVE  /\ s \in Tokens /\ session[s] \in Rows
         /\ session[s].owner \in People /\ session[s].expires \in Nat
         /\ session[s].since \in 0..MaxEpoch /\ session[s].used \in Nat
         /\ session[s].late \in BOOLEAN /\ session[s].lost \in BOOLEAN
<1>1. s \in Tokens /\ session[s] \in Rows
  BY DEF Types, Live
<1>2. MaxClock + TTL \in Nat /\ MaxClock \in Nat
  BY SessionsAssumption
<1> QED
  BY <1>1, <1>2 DEF Rows

\* The fields a request has at each of its statements.
LEMMA RequestFields ==
  ASSUME NEW r \in Call \cup {NoRequest}
  PROVE  /\ r.pc \in {"idle", "create", "purge", "slide", "load", "handle"}
         /\ r.pc \in {"create", "purge"} => r.user \in People /\ r.epoch \in 0..MaxEpoch
         /\ r.pc \in {"slide", "load", "handle"} => r.token \in Tokens /\ r.user \in People
         /\ r.pc = "slide" => r.now \in 0..MaxClock
BY DEF Call, NoRequest

LEMMA Numbers ==
  /\ TTL \in Nat /\ TTL > 0 /\ MaxDelay \in Nat /\ 2 * MaxDelay <= TTL
  /\ MaxClock \in Nat /\ MaxLogins \in Nat /\ MaxEpoch \in Nat
  /\ Tokens \subseteq Nat
BY SessionsAssumption DEF Tokens

-----------------------------------------------------------------------------
(* What a step leaves alone *)

\* A step of p lets the slides and purges of others still come.
LEMMA OthersStay ==
  ASSUME Types, NEW p \in Threads, NEW r, Continue(p, r)
  PROVE  /\ \A q \in Threads : q # p => call'[q] = call[q]
         /\ call'[p] = r
         /\ ~Reached(p, "slide") => \A s : Sliding(s) => Sliding(s)'
         /\ ~Reached(p, "purge") => \A u : Purging(u) => Purging(u)'
         /\ \A s : Sliding(s) => Sliding(s)' \/ (Reached(p, "slide") /\ s = call[p].token)
         /\ \A u : Purging(u) => Purging(u)' \/ (Reached(p, "purge") /\ u = call[p].user)
<1>1. call'[p] = r /\ \A q \in Threads : q # p => call'[q] = call[q]
  BY DEF Types, Continue
<1>2. \A s : Sliding(s) => Sliding(s)' \/ (Reached(p, "slide") /\ s = call[p].token)
  BY <1>1 DEF Sliding, Reached
<1>3. \A u : Purging(u) => Purging(u)' \/ (Reached(p, "purge") /\ u = call[p].user)
  BY <1>1 DEF Purging, Reached
<1> QED
  BY <1>1, <1>2, <1>3

\* A row that is not touched stays as good as it was.
LEMMA RowStays ==
  ASSUME Types, NEW s \in Live, RowOK(s), session'[s] = session[s], clock' = clock,
         issued \in Nat, issued' \in Nat, issued <= issued', s \in Nat,
         epoch'[session[s].owner] = epoch[session[s].owner],
         account'[session[s].owner] \in {"active", "suspended"},
         Sliding(s) => Sliding(s)',
         Purging(session[s].owner) => Purging(session[s].owner)'
  PROVE  RowOK(s)'
BY LiveRows, Numbers DEF RowOK

\* A request that does not move stays as good as it was, if no token gets
\* another owner and no account is unborn again.
LEMMA RequestStays ==
  ASSUME Types, NEW r \in Call \cup {NoRequest}, RequestOK(r), clock' = clock,
         issued \in Nat, issued' \in Nat, issued <= issued',
         \A s \in Tokens : s <= issued /\ s \in Live' =>
            /\ s \in Live /\ session'[s].owner = session[s].owner
            /\ session[s].used <= session'[s].used /\ session'[s].used \in Nat,
         \A u \in People : account[u] # "unborn" => account'[u] # "unborn"
  PROVE  RequestOK(r)'
<1>1. r.pc \in {"slide", "load", "handle"} =>
         r.token \in Tokens /\ r.token \in Nat /\ r.token <= issued
  BY RequestFields, Numbers DEF RequestOK
<1>2. r.pc \in {"slide", "load", "handle"} /\ r.token \in Live' =>
         /\ r.token \in Live /\ session'[r.token].owner = r.user
         /\ session[r.token].used <= session'[r.token].used
         /\ session'[r.token].used \in Nat
  BY <1>1 DEF RequestOK
<1>3. r.pc = "slide" /\ r.token \in Live' => r.now <= session'[r.token].used
  BY <1>2, RequestFields, LiveRows, Numbers DEF RequestOK
<1> QED
  BY <1>1, <1>2, <1>3, RequestFields DEF RequestOK

\* The two together, for a step that leaves the clock alone: a request that is
\* not answered and a row that survives need no further thought.
LEMMA StepIsGood ==
  ASSUME IInv, clock' = clock, issued' \in 0..MaxLogins, issued <= issued',
         account' \in [People -> {"unborn", "active", "suspended", "gone"}],
         session' \in [Tokens -> Rows \cup {NoRow}],
         call' \in [Threads -> Call \cup {NoRequest}],
         epoch' \in [People -> 0..MaxEpoch],
         \A q \in Threads : call'[q] = call[q] \/ RequestOK(call[q])',
         \A s \in Tokens : s <= issued /\ s \in Live' =>
            /\ s \in Live /\ session'[s].owner = session[s].owner
            /\ session[s].used <= session'[s].used,
         \A u \in People : account[u] # "unborn" => account'[u] # "unborn",
         \A s \in Live' : RowOK(s)'
  PROVE  IInv'
<1>1. Types'
  BY DEF IInv, Types
<1>2. issued \in Nat /\ issued' \in Nat /\ \A s \in Live' : session'[s].used \in Nat
  <2>1. \A s \in Live' : session'[s] \in Rows
    BY DEF Live
  <2> QED
    BY <2>1, Numbers DEF IInv, Types, Rows
<1>3. ASSUME NEW q \in Threads, call'[q] = call[q] PROVE RequestOK(call[q])'
  <2>1. PICK x \in Call \cup {NoRequest} : x = call[q]
    BY DEF IInv, Types
  <2>2. RequestOK(x)
    BY <2>1 DEF IInv
  <2>3. RequestOK(x)'
    BY <1>2, <2>2, RequestStays DEF IInv
  <2> QED
    BY <1>3, <2>1, <2>3
<1> QED
  BY <1>1, <1>3 DEF IInv

\* For a step of p.
LEMMA RestStays ==
  ASSUME IInv, NEW p \in Threads, NEW r \in Call \cup {NoRequest}, Continue(p, r),
         clock' = clock, issued' \in 0..MaxLogins, issued <= issued', RequestOK(r)',
         account' \in [People -> {"unborn", "active", "suspended", "gone"}],
         session' \in [Tokens -> Rows \cup {NoRow}],
         epoch' \in [People -> 0..MaxEpoch],
         \A s \in Tokens : s <= issued /\ s \in Live' =>
            /\ s \in Live /\ session'[s].owner = session[s].owner
            /\ session[s].used <= session'[s].used,
         \A u \in People : account[u] # "unborn" => account'[u] # "unborn",
         \A s \in Live' : RowOK(s)'
  PROVE  IInv'
<1>1. call' \in [Threads -> Call \cup {NoRequest}]
  BY DEF IInv, Types, Continue
<1>2. ASSUME NEW q \in Threads PROVE call'[q] = call[q] \/ RequestOK(call[q])'
  BY OthersStay DEF IInv
<1> QED
  BY <1>1, <1>2, StepIsGood

\* No session changes and no status does: the request of p just goes on.
LEMMA GoesOn ==
  ASSUME IInv, NEW p \in Threads, NEW r \in Call \cup {NoRequest}, Continue(p, r),
         UNCHANGED <<clock, account, session, issued, epoch>>, RequestOK(r)',
         ~Reached(p, "slide"), ~Reached(p, "purge")
  PROVE  IInv'
<1>1. Live' = Live
  BY DEF Live
<1>2. ASSUME NEW s \in Live PROVE RowOK(s)'
  BY <1>2, RowStays, OthersStay, LiveRows, Numbers DEF IInv, RowOK, Types
<1> QED
  BY <1>1, <1>2, RestStays, LiveRows, Numbers DEF IInv, Types

-----------------------------------------------------------------------------
(* Each action preserves the invariant *)

LEMMA InitIsGood == SessionInit => IInv
<1> SUFFICES ASSUME SessionInit PROVE IInv
  OBVIOUS
<1>1. Types
  BY Numbers DEF SessionInit, Types
<1>2. Live = {} /\ \A p \in Threads : RequestOK(call[p])
  BY DEF SessionInit, Live, RequestOK, NoRequest
<1> QED
  BY <1>1, <1>2 DEF IInv

LEMMA IdleIsGood == NoRequest.pc = "idle" /\ RequestOK(NoRequest)'
BY DEF NoRequest, RequestOK

LEMMA RegisterPreserves == ASSUME IInv, NEW p \in Threads, Register(p) PROVE IInv'
<1>1. PICK u \in People :
        /\ account[u] = "unborn" /\ account' = [account EXCEPT ![u] = "active"]
        /\ Continue(p, [pc |-> "create", user |-> u, epoch |-> epoch[u]])
        /\ Reached(p, "idle") /\ UNCHANGED <<clock, session, issued, epoch>>
  BY DEF Register
<1> DEFINE r == [pc |-> "create", user |-> u, epoch |-> epoch[u]]
<1>2. r \in Call
  BY DEF Call, IInv, Types
<1>3. /\ account'[u] = "active" /\ \A v \in People : v # u => account'[v] = account[v]
      /\ account' \in [People -> {"unborn", "active", "suspended", "gone"}]
  BY <1>1 DEF IInv, Types
<1>4. RequestOK(r)'
  BY <1>3 DEF RequestOK
<1>5. Live' = Live
  BY <1>1 DEF Live
<1>6. ASSUME NEW s \in Live PROVE RowOK(s)'
  <2>1. session[s].owner \in People /\ account'[session[s].owner] \in {"active", "suspended"}
    BY <1>1, <1>3, LiveRows DEF IInv, RowOK
  <2> QED
    BY <1>1, <2>1, RowStays, OthersStay, LiveRows, Numbers DEF IInv, RowOK, Types, Reached
<1> QED
  BY <1>1, <1>2, <1>3, <1>4, <1>5, <1>6, RestStays, LiveRows, Numbers DEF IInv, Types

LEMMA LoginPreserves == ASSUME IInv, NEW p \in Threads, Login(p) PROVE IInv'
<1>1. PICK u \in People :
        /\ account[u] = "active"
        /\ Continue(p, [pc |-> "create", user |-> u, epoch |-> epoch[u]])
        /\ Reached(p, "idle") /\ UNCHANGED <<clock, account, session, issued, epoch>>
  BY DEF Login
<1> DEFINE r == [pc |-> "create", user |-> u, epoch |-> epoch[u]]
<1>2. r \in Call
  BY DEF Call, IInv, Types
<1>3. RequestOK(r)'
  BY <1>1 DEF RequestOK
<1> QED
  BY <1>1, <1>2, <1>3, GoesOn DEF Reached

LEMMA StatementFailsPreserves ==
  ASSUME IInv, NEW p \in Threads, CallFails(p) PROVE IInv'
BY IdleIsGood, GoesOn DEF CallFails, Reply, Reached

LEMMA LoadCallerPreserves == ASSUME IInv, NEW p \in Threads, LoadCaller(p) PROVE IInv'
<1>1. Reached(p, "load") /\ UNCHANGED <<clock, account, session, issued, epoch>>
  BY DEF LoadCaller
<1>2. CASE Reply(p)
  BY <1>1, <1>2, IdleIsGood, GoesOn DEF Reply, Reached
<1>3. CASE Continue(p, [call[p] EXCEPT !.pc = "handle"])
  <2>1. call[p] \in Call \cup {NoRequest} /\ RequestOK(call[p]) /\ call[p].pc = "load"
    BY <1>1 DEF IInv, Types, Reached
  <2>2. call[p] \in [pc : {"load", "handle"}, token : Tokens, user : People]
    BY <2>1 DEF Call, NoRequest
  <2>3. PICK x \in [pc : {"load", "handle"}, token : Tokens, user : People] :
          x = [call[p] EXCEPT !.pc = "handle"]
    BY <2>2
  <2>4. x.pc = "handle" /\ x.token = call[p].token /\ x.user = call[p].user
    BY <2>2, <2>3
  <2>5. RequestOK(x)'
    BY <1>1, <2>1, <2>4 DEF RequestOK, Live
  <2> QED
    BY <1>1, <1>3, <2>3, <2>5, GoesOn DEF Reached, Call
<1> QED
  BY <1>2, <1>3 DEF LoadCaller

LEMMA CreateSessionPreserves ==
  ASSUME IInv, NEW p \in Threads, CreateSession(p) PROVE IInv'
<1> DEFINE u == call[p].user
           s0 == issued + 1
           row == [owner |-> u, expires |-> clock + TTL, since |-> call[p].epoch,
                   used |-> clock, late |-> call[p].epoch # epoch[u], lost |-> FALSE]
<1>1. /\ Reached(p, "create") /\ account[u] # "gone" /\ issued < MaxLogins /\ issued' = s0
      /\ session' = [session EXCEPT ![s0] = row] /\ Continue(p, NoRequest)
      /\ UNCHANGED <<clock, account, epoch>>
  BY DEF CreateSession, Reply
<1>2. u \in People /\ call[p].epoch \in 0..MaxEpoch /\ account[u] \in {"active", "suspended"}
  BY <1>1, RequestFields DEF IInv, Types, RequestOK, Reached
<1>3. issued \in Nat /\ s0 \in Tokens /\ s0 \notin Live /\ issued <= s0 /\ s0 \in 0..MaxLogins
  BY <1>1, Numbers DEF IInv, Types, Tokens, RowOK
<1>4. row \in Rows
  BY <1>2, Numbers DEF Rows, IInv, Types
<1>5. session' \in [Tokens -> Rows \cup {NoRow}] /\ session'[s0] = row
      /\ \A s \in Tokens : s # s0 => session'[s] = session[s]
  BY <1>1, <1>3, <1>4 DEF IInv, Types
<1>6. ASSUME NEW s \in Live' PROVE RowOK(s)'
  <2>1. CASE s = s0
    <3>1. clock \in Nat /\ TTL \in Nat
      BY Numbers DEF IInv, Types
    <3>2. row.owner = u /\ row.used = clock /\ row.expires = clock + TTL /\ ~row.lost
          /\ row.since = call[p].epoch /\ row.late = (call[p].epoch # epoch[u])
      OBVIOUS
    <3>3. row.since = epoch[u] \/ row.late
      BY <3>2
    <3> HIDE DEF row, u
    <3> QED
      BY <1>1, <1>2, <1>3, <1>5, <2>1, <3>1, <3>2, <3>3 DEF RowOK
  <2>2. CASE s # s0
    <3>1. s \in Live /\ session'[s] = session[s]
      BY <1>5, <2>2 DEF Live
    <3> QED
      BY <1>1, <1>3, <3>1, RowStays, OthersStay, LiveRows, Numbers DEF IInv, RowOK, Types, Reached
  <2> QED
    BY <2>1, <2>2
<1>7. \A s \in Tokens : s <= issued /\ s \in Live' =>
            s \in Live /\ session'[s].owner = session[s].owner
            /\ session[s].used <= session'[s].used
  <2>1. \A s \in Tokens : s <= issued /\ s \in Live' => s \in Live /\ session'[s] = session[s]
    BY <1>3, <1>5, Numbers DEF Live
  <2> QED
    BY <2>1, LiveRows DEF IInv
<1> HIDE DEF u, s0, row
<1> QED
  BY <1>1, <1>3, <1>5, <1>6, <1>7, IdleIsGood, RestStays DEF IInv, Types

LEMMA AuthenticatePreserves ==
  ASSUME IInv, NEW p \in Threads, Authenticate(p) PROVE IInv'
<1>1. PICK s0 \in Live \ Expired :
        /\ Continue(p, IF PastHalf(s0)
                     THEN [pc |-> "slide", token |-> s0, user |-> session[s0].owner,
                           now |-> clock]
                     ELSE [pc |-> "load", token |-> s0, user |-> session[s0].owner])
        /\ session' = [session EXCEPT ![s0].used = clock]
        /\ Reached(p, "idle") /\ UNCHANGED <<clock, account, issued, epoch>>
  BY DEF Authenticate
<1> DEFINE row == [session[s0] EXCEPT !.used = clock]
<1>2. s0 \in Live /\ s0 \in Tokens /\ session[s0] \in Rows /\ clock \in 0..MaxClock
      /\ session[s0].expires > clock /\ RowOK(s0) /\ clock \in Nat
  BY LiveRows, Numbers DEF IInv, Types, Expired
<1>3. /\ row \in Rows /\ row.owner = session[s0].owner /\ row.used = clock
      /\ row.expires = session[s0].expires /\ row.since = session[s0].since
      /\ row.late = session[s0].late /\ row.lost = session[s0].lost
  BY <1>2 DEF Rows
<1> HIDE DEF row
<1>4. /\ session' \in [Tokens -> Rows \cup {NoRow}] /\ session'[s0] = row
      /\ \A s \in Tokens : s # s0 => session'[s] = session[s]
  BY <1>1, <1>2, <1>3 DEF row, IInv, Types
<1>5. Live' = Live
  BY <1>2, <1>3, <1>4, RowsAreRows DEF Live
<1>6. PICK r \in Call \cup {NoRequest} :
        /\ Continue(p, r) /\ r.token = s0 /\ r.user = session[s0].owner
        /\ \/ PastHalf(s0) /\ r.pc = "slide" /\ r.now = clock
           \/ ~PastHalf(s0) /\ r.pc = "load"
  <2>1. session[s0].owner \in People
    BY <1>2, LiveRows DEF IInv
  <2>2. CASE PastHalf(s0)
    BY <1>1, <1>2, <2>1, <2>2 DEF Call
  <2>3. CASE ~PastHalf(s0)
    BY <1>1, <1>2, <2>1, <2>3 DEF Call
  <2> QED
    BY <2>2, <2>3
<1>7. RequestOK(r)'
  BY <1>1, <1>2, <1>3, <1>4, <1>6, Numbers DEF RequestOK, RowOK
<1>8. ASSUME NEW s \in Live PROVE RowOK(s)'
  <2>1. CASE s = s0
    <3>1. PastHalf(s0) => Sliding(s0)'
      BY <1>6, OthersStay DEF IInv, Sliding, Reached
    <3>2. ~PastHalf(s0) => 2 * (row.expires - row.used) >= TTL
      BY <1>2, <1>3, LiveRows, Numbers DEF PastHalf, IInv
    <3>3. row.expires <= row.used + TTL
      BY <1>2, <1>3, LiveRows, Numbers DEF RowOK, IInv
    <3>4. Purging(session[s0].owner) => Purging(session[s0].owner)'
      BY <1>1, <1>6, OthersStay DEF IInv, Reached
    <3> QED
      BY <1>1, <1>2, <1>3, <1>4, <2>1, <3>1, <3>2, <3>3, <3>4 DEF RowOK
  <2>2. CASE s # s0
    BY <1>1, <1>4, <1>6, <2>2, RowStays, OthersStay, LiveRows, Numbers
       DEF IInv, RowOK, Types, Reached
  <2> QED
    BY <2>1, <2>2
<1>9. \A s \in Live : session'[s].owner = session[s].owner
                      /\ session[s].used <= session'[s].used
  <2>1. session[s0].used <= row.used
    BY <1>2, <1>3 DEF RowOK
  <2> QED
    BY <1>3, <1>4, <2>1, LiveRows DEF IInv
<1> QED
  BY <1>1, <1>4, <1>5, <1>6, <1>7, <1>8, <1>9, RestStays DEF IInv, Types

\* A slide that comes late by no more than MaxDelay leaves half a lifetime.
LEMMA SlidePreserves == ASSUME IInv, NEW p \in Threads, Slide(p) PROVE IInv'
<1>0. /\ call[p].pc = "slide" /\ call[p].token \in Tokens /\ call[p].user \in People
      /\ call[p].now \in 0..MaxClock /\ RequestOK(call[p])
  BY RequestFields DEF IInv, Types, Reached, Slide
<1>1. PICK s0 \in Tokens, u \in People, now \in 0..MaxClock :
        s0 = call[p].token /\ u = call[p].user /\ now = call[p].now
  BY <1>0
<1>2. PICK r \in Call \cup {NoRequest} :
        r = [pc |-> "load", token |-> s0, user |-> u]
  BY DEF Call
<1>3. r.pc = "load" /\ r.token = s0 /\ r.user = u
  BY <1>2
<1>4. /\ Reached(p, "slide") /\ Continue(p, r) /\ UNCHANGED <<clock, account, issued, epoch>>
      /\ IF s0 \in Live
         THEN \/ session' = [session EXCEPT ![s0].expires = now + TTL, ![s0].lost = FALSE]
              \/ session' = [session EXCEPT ![s0].lost = TRUE]
         ELSE UNCHANGED session
  BY <1>1, <1>2 DEF Slide
<1>5. /\ now \in Nat /\ clock \in Nat /\ s0 \in Nat /\ s0 <= issued
      /\ now <= clock /\ clock <= now + MaxDelay
      /\ s0 \in Live => now <= session[s0].used /\ session[s0].owner = u
  BY <1>0, <1>1, Numbers DEF IInv, Types, RequestOK
<1>6. CASE s0 \notin Live
  <2>1. session' = session /\ Live' = Live
    BY <1>4, <1>6 DEF Live
  <2>2. RequestOK(r)'
    BY <1>3, <1>4, <1>5, <1>6, <2>1 DEF RequestOK
  <2>3. ASSUME NEW s \in Live PROVE RowOK(s)'
    <3>1. Sliding(s) => Sliding(s)'
      BY <1>1, <1>4, <1>6, OthersStay DEF IInv
    <3>2. Purging(session[s].owner) => Purging(session[s].owner)'
      BY <1>4, <2>1, OthersStay DEF IInv, Reached
    <3> QED
      BY <1>4, <2>1, <3>1, <3>2, RowStays, LiveRows, Numbers DEF IInv, RowOK, Types
  <2> QED
    BY <1>4, <2>1, <2>2, <2>3, RestStays, LiveRows, Numbers DEF IInv, Types
<1>7. CASE s0 \in Live
  <2>1. PICK row \in Rows :
          /\ session' = [session EXCEPT ![s0] = row]
          /\ row.owner = session[s0].owner /\ row.used = session[s0].used
          /\ row.since = session[s0].since /\ row.late = session[s0].late
          /\ \/ row.expires = now + TTL
             \/ row.expires = session[s0].expires /\ row.lost
    <3>0. session[s0] \in Rows /\ now + TTL \in 0..(MaxClock + TTL)
      BY <1>5, <1>7, LiveRows, Numbers DEF IInv
    <3>1. CASE session' = [session EXCEPT ![s0].expires = now + TTL, ![s0].lost = FALSE]
      <4>1. PICK row : row = [session[s0] EXCEPT !.expires = now + TTL, !.lost = FALSE]
        OBVIOUS
      <4>2. session' = [session EXCEPT ![s0] = row]
        BY <3>0, <3>1, <4>1 DEF IInv, Types
      <4>3. /\ row \in Rows /\ row.expires = now + TTL
            /\ row.owner = session[s0].owner /\ row.used = session[s0].used
            /\ row.since = session[s0].since /\ row.late = session[s0].late
        BY <3>0, <4>1 DEF Rows
      <4> QED
        BY <4>2, <4>3
    <3>2. CASE session' = [session EXCEPT ![s0].lost = TRUE]
      <4>1. PICK row : row = [session[s0] EXCEPT !.lost = TRUE]
        OBVIOUS
      <4>2. session' = [session EXCEPT ![s0] = row]
        BY <3>2, <4>1
      <4>3. /\ row \in Rows /\ row.expires = session[s0].expires /\ row.lost
            /\ row.owner = session[s0].owner /\ row.used = session[s0].used
            /\ row.since = session[s0].since /\ row.late = session[s0].late
        BY <3>0, <4>1 DEF Rows
      <4> QED
        BY <4>2, <4>3
    <3> QED
      BY <1>4, <1>7, <3>1, <3>2
  <2>2. /\ session' \in [Tokens -> Rows \cup {NoRow}] /\ session'[s0] = row
        /\ \A s \in Tokens : s # s0 => session'[s] = session[s]
    BY <2>1 DEF IInv, Types
  <2>3. Live' = Live
    BY <1>7, <2>2, RowsAreRows DEF Live
  <2>4. RequestOK(r)'
    BY <1>3, <1>4, <1>5, <1>7, <2>1, <2>2 DEF RequestOK
  <2>5. ASSUME NEW s \in Live PROVE RowOK(s)'
    <3>0. /\ Purging(session[s].owner) => Purging(session[s].owner)'
          /\ s # s0 => (Sliding(s) => Sliding(s)')
      <4>1. \A v : Purging(v) => Purging(v)'
        BY <1>4, OthersStay DEF IInv, Reached
      <4>2. session'[s].owner = session[s].owner
        BY <2>1, <2>2, LiveRows DEF IInv
      <4> QED
        BY <1>1, <1>4, <4>1, <4>2, OthersStay DEF IInv
    <3>1. CASE s = s0
      <4>1. RowOK(s0) /\ now <= row.used /\ row.used <= clock /\ row.used \in Nat
        BY <1>5, <1>7, <2>1, LiveRows DEF IInv, RowOK
      <4>2. row.expires <= row.used + TTL
            /\ (row.lost \/ 2 * (row.expires - row.used) >= TTL)
        <5>1. CASE row.expires = now + TTL
          BY <1>5, <4>1, <5>1, Numbers
        <5>2. CASE row.expires = session[s0].expires /\ row.lost
          BY <2>1, <4>1, <5>2 DEF RowOK
        <5> QED
          BY <2>1, <5>1, <5>2
      <4> QED
        BY <1>4, <2>1, <2>2, <3>0, <3>1, <4>1, <4>2 DEF RowOK
    <3>2. CASE s # s0
      <4>1. session'[s] = session[s]
        BY <2>2, <3>2, LiveRows DEF IInv
      <4> QED
        BY <1>4, <3>0, <3>2, <4>1, RowStays, LiveRows, Numbers DEF IInv, RowOK, Types
    <3> QED
      BY <3>1, <3>2
  <2>6. \A s \in Live : session'[s].owner = session[s].owner
                        /\ session[s].used <= session'[s].used
    BY <2>1, <2>2, LiveRows DEF IInv
  <2> QED
    BY <1>4, <2>2, <2>3, <2>4, <2>5, <2>6, RestStays DEF IInv, Types
<1> QED
  BY <1>6, <1>7

\* A deletion touches no row it spares.
LEMMA Deletion ==
  ASSUME Types, NEW gone, session' = Without(gone)
  PROVE  /\ session' \in [Tokens -> Rows \cup {NoRow}] /\ Live' = Live \ gone
         /\ \A s \in Live' : s \in Live /\ s \in Tokens /\ session'[s] = session[s]
BY DEF Types, Live, Without

LEMMA RevokePreserves == ASSUME IInv, NEW p \in Threads, Revoke(p) PROVE IInv'
<1>1. PICK gone : session' = Without(gone)
  BY DEF Revoke
<1>2. /\ Reached(p, "handle") /\ Continue(p, NoRequest)
      /\ UNCHANGED <<clock, account, issued, epoch>>
  BY DEF Revoke, Reply
<1>3. /\ session' \in [Tokens -> Rows \cup {NoRow}]
      /\ \A s \in Live' : s \in Live /\ session'[s] = session[s]
  BY <1>1, Deletion DEF IInv
<1>4. ASSUME NEW s \in Live' PROVE RowOK(s)'
  <2>1. s \in Live /\ session'[s] = session[s]
    BY <1>3
  <2>2. (Sliding(s) => Sliding(s)') /\ \A v : Purging(v) => Purging(v)'
    BY <1>2, OthersStay DEF IInv, Reached
  <2> QED
    BY <1>2, <2>1, <2>2, RowStays, LiveRows, Numbers DEF IInv, RowOK, Types
<1> QED
  BY <1>2, <1>3, <1>4, IdleIsGood, RestStays, LiveRows, Numbers DEF IInv, Types

LEMMA SweepPreserves == ASSUME IInv, Sweep PROVE IInv'
<1>1. session' = Without(Expired) /\ UNCHANGED <<clock, account, issued, call, epoch>>
  BY DEF Sweep
<1>2. /\ session' \in [Tokens -> Rows \cup {NoRow}]
      /\ \A s \in Live' : s \in Live /\ session'[s] = session[s]
  BY <1>1, Deletion DEF IInv
<1>3. ASSUME NEW s \in Live' PROVE RowOK(s)'
  <2>1. s \in Live /\ session'[s] = session[s]
    BY <1>2
  <2>2. (Sliding(s) => Sliding(s)') /\ \A v : Purging(v) => Purging(v)'
    BY <1>1 DEF Sliding, Purging, Reached
  <2> QED
    BY <1>1, <2>1, <2>2, RowStays, LiveRows, Numbers DEF IInv, RowOK, Types
<1> QED
  BY <1>1, <1>2, <1>3, StepIsGood, LiveRows, Numbers DEF IInv, Types

\* The one session that is kept is, if it still has a row, the caller's own.
LEMMA ChangePasswordPreserves ==
  ASSUME IInv, NEW p \in Threads, ChangePassword(p) PROVE IInv'
<1>0. /\ call[p].pc = "handle" /\ call[p].token \in Tokens /\ call[p].user \in People
      /\ RequestOK(call[p])
  BY RequestFields DEF IInv, Types, Reached, ChangePassword
<1>1. PICK s0 \in Tokens, u \in People : s0 = call[p].token /\ u = call[p].user
  BY <1>0
<1>2. /\ Reached(p, "handle") /\ epoch[u] < MaxEpoch /\ epoch' = [epoch EXCEPT ![u] = @ + 1]
      /\ session' = Kept(s0, Without(Of(u) \ {s0}))
      /\ Continue(p, NoRequest) /\ UNCHANGED <<clock, account, issued>>
  BY <1>1 DEF ChangePassword, Reply
<1>3. /\ s0 \in Live => session[s0].owner = u
      /\ epoch[u] + 1 \in 0..MaxEpoch /\ epoch'[u] = epoch[u] + 1
      /\ epoch' \in [People -> 0..MaxEpoch] /\ \A v \in People : v # u => epoch'[v] = epoch[v]
  BY <1>0, <1>1, <1>2, Numbers DEF IInv, Types, RequestOK
<1>4. PICK rows : rows = Without(Of(u) \ {s0})
  OBVIOUS
<1>5. /\ rows \in [Tokens -> Rows \cup {NoRow}] /\ rows[s0] = session[s0]
      /\ \A s \in Tokens : rows[s] # NoRow =>
            /\ s \in Live /\ rows[s] = session[s] /\ (s # s0 => session[s].owner # u)
  BY <1>4 DEF Without, Of, Live, IInv, Types
<1>6. /\ session' \in [Tokens -> Rows \cup {NoRow}]
      /\ \A s \in Live' :
          /\ s \in Live /\ session'[s].owner = session[s].owner
          /\ session'[s].used = session[s].used
          /\ s # s0 => session'[s] = session[s] /\ session[s].owner # u
      /\ s0 \in Live' =>
          /\ session'[s0].expires = session[s0].expires
          /\ session'[s0].lost = session[s0].lost
          /\ session'[s0].since = epoch'[u]
  <2>1. CASE rows[s0] = NoRow
    <3>1. session' = rows
      BY <1>2, <1>4, <2>1 DEF Kept
    <3> QED
      BY <1>5, <2>1, <3>1 DEF Live
  <2>2. CASE rows[s0] # NoRow
    <3>1. s0 \in Live /\ session[s0].owner = u /\ session[s0] \in Rows
      BY <1>3, <1>5, <2>2, LiveRows DEF IInv
    <3>2. PICK row : row = [session[s0] EXCEPT !.since = epoch[u] + 1]
      OBVIOUS
    <3>3. session' = [rows EXCEPT ![s0] = row]
      BY <1>2, <1>4, <1>5, <2>2, <3>1, <3>2 DEF Kept
    <3>4. /\ row \in Rows /\ row.owner = u /\ row.used = session[s0].used
          /\ row.expires = session[s0].expires /\ row.lost = session[s0].lost
          /\ row.since = epoch[u] + 1
      BY <1>3, <3>1, <3>2 DEF Rows
    <3>5. session'[s0] = row /\ \A s \in Tokens : s # s0 => session'[s] = rows[s]
      BY <1>5, <3>3
    <3>6. session' \in [Tokens -> Rows \cup {NoRow}]
      BY <1>5, <3>3, <3>4
    <3> QED
      BY <1>3, <1>5, <3>1, <3>4, <3>5, <3>6 DEF Live
  <2> QED
    BY <2>1, <2>2
<1>7. ASSUME NEW s \in Live' PROVE RowOK(s)'
  <2>1. (Sliding(s) => Sliding(s)') /\ \A v : Purging(v) => Purging(v)'
    BY <1>2, OthersStay DEF IInv, Reached
  <2>2. CASE s = s0
    BY <1>2, <1>3, <1>6, <2>1, <2>2 DEF IInv, RowOK
  <2>3. CASE s # s0
    <3>1. s \in Live /\ session'[s] = session[s] /\ session[s].owner \in People
          /\ epoch'[session[s].owner] = epoch[session[s].owner]
      BY <1>3, <1>6, <2>3, LiveRows DEF IInv
    <3> QED
      BY <1>2, <2>1, <3>1, RowStays, LiveRows, Numbers DEF IInv, RowOK, Types
  <2> QED
    BY <2>2, <2>3
<1>8. \A s \in Live' : /\ s \in Live /\ session'[s].owner = session[s].owner
                       /\ session[s].used <= session'[s].used
  BY <1>6, LiveRows DEF IInv
<1>9. account' = account /\ clock' = clock /\ issued' = issued /\ Continue(p, NoRequest)
  BY <1>2
<1> QED
  BY <1>3, <1>6, <1>7, <1>8, <1>9, IdleIsGood, RestStays, Numbers DEF IInv, Types

LEMMA RemoveAccountPreserves ==
  ASSUME IInv, NEW p \in Threads, RemoveAccount(p) PROVE IInv'
<1>1. PICK u \in People :
        /\ Reached(p, "idle") \/ Reached(p, "handle")
        /\ account' = [account EXCEPT ![u] = "gone"] /\ session' = Without(Of(u))
        /\ Continue(p, NoRequest) /\ UNCHANGED <<clock, issued, epoch>>
  BY DEF RemoveAccount, Reply
<1>2. /\ session' \in [Tokens -> Rows \cup {NoRow}]
      /\ \A s \in Live' : s \in Live /\ session'[s] = session[s] /\ s \notin Of(u)
  BY <1>1, Deletion DEF IInv
<1>3. /\ account' \in [People -> {"unborn", "active", "suspended", "gone"}]
      /\ account'[u] = "gone" /\ \A v \in People : v # u => account'[v] = account[v]
  BY <1>1 DEF IInv, Types
<1>4. ASSUME NEW s \in Live' PROVE RowOK(s)'
  <2>1. s \in Live /\ session'[s] = session[s] /\ session[s].owner \in People
        /\ account'[session[s].owner] = account[session[s].owner]
    BY <1>2, <1>3, LiveRows DEF IInv, Of
  <2>2. (Sliding(s) => Sliding(s)') /\ \A v : Purging(v) => Purging(v)'
    BY <1>1, OthersStay DEF IInv, Reached
  <2> QED
    BY <1>1, <2>1, <2>2, RowStays, LiveRows, Numbers DEF IInv, RowOK, Types
<1> QED
  BY <1>1, <1>2, <1>3, <1>4, IdleIsGood, RestStays, LiveRows, Numbers DEF IInv, Types

LEMMA SuspendPreserves == ASSUME IInv, NEW p \in Threads, Suspend(p) PROVE IInv'
<1>1. PICK u \in People :
        /\ Reached(p, "idle") /\ account[u] \in {"active", "suspended"} /\ epoch[u] < MaxEpoch
        /\ account' = [account EXCEPT ![u] = "suspended"]
        /\ epoch' = [epoch EXCEPT ![u] = @ + 1]
        /\ Continue(p, [pc |-> "purge", user |-> u, epoch |-> 0])
        /\ UNCHANGED <<clock, session, issued>>
  BY DEF Suspend
<1>2. PICK r \in Call \cup {NoRequest} :
        Continue(p, r) /\ r.pc = "purge" /\ r.user = u
  BY <1>1, Numbers DEF Call
<1>3. /\ account' \in [People -> {"unborn", "active", "suspended", "gone"}]
      /\ account'[u] = "suspended" /\ \A v \in People : v # u => account'[v] = account[v]
      /\ epoch' \in [People -> 0..MaxEpoch] /\ \A v \in People : v # u => epoch'[v] = epoch[v]
  BY <1>1, Numbers DEF IInv, Types
<1>4. Live' = Live /\ session' = session
  BY <1>1 DEF Live
<1>5. RequestOK(r)'
  BY <1>2 DEF RequestOK
<1>6. ASSUME NEW s \in Live PROVE RowOK(s)'
  <2>1. (Sliding(s) => Sliding(s)') /\ \A v : Purging(v) => Purging(v)'
    BY <1>1, <1>2, OthersStay DEF IInv, Reached
  <2>2. Purging(u)'
    BY <1>2, OthersStay DEF IInv, Purging, Reached
  <2>3. CASE session[s].owner = u
    BY <1>1, <1>3, <1>4, <2>1, <2>2, <2>3 DEF IInv, RowOK
  <2>4. CASE session[s].owner # u
    <3>1. session[s].owner \in People /\ account'[session[s].owner] = account[session[s].owner]
          /\ epoch'[session[s].owner] = epoch[session[s].owner]
      BY <1>3, <2>4, LiveRows DEF IInv
    <3> QED
      BY <1>1, <1>4, <2>1, <3>1, RowStays, LiveRows, Numbers DEF IInv, RowOK, Types
  <2> QED
    BY <2>3, <2>4
<1> QED
  BY <1>1, <1>2, <1>3, <1>4, <1>5, <1>6, RestStays, LiveRows, Numbers DEF IInv, Types

\* The rows a lost purge leaves behind are late.
LEMMA PurgeSuspendedPreserves ==
  ASSUME IInv, NEW p \in Threads, PurgeSuspended(p) PROVE IInv'
<1>0. call[p].pc = "purge" /\ call[p].user \in People
  BY RequestFields DEF IInv, Types, Reached, PurgeSuspended
<1>1. PICK u \in People : u = call[p].user
  BY <1>0
<1>2. /\ Reached(p, "purge") /\ session' \in {Without(Of(u)), Spared(Of(u))}
      /\ Continue(p, NoRequest) /\ UNCHANGED <<clock, account, issued, epoch>>
  BY <1>1 DEF PurgeSuspended, Reply
<1>3. /\ session' \in [Tokens -> Rows \cup {NoRow}]
      /\ \A s \in Live' :
          /\ s \in Live /\ session'[s].owner = session[s].owner
          /\ session'[s].used = session[s].used
          /\ session'[s].expires = session[s].expires
          /\ session'[s].lost = session[s].lost
          /\ session'[s].since = session[s].since
          /\ session[s].owner = u => session'[s].late
          /\ session[s].owner # u => session'[s].late = session[s].late
  <2>1. CASE session' = Without(Of(u))
    BY <2>1, Deletion DEF IInv, Of
  <2>2. CASE session' = Spared(Of(u))
    <3>1. ASSUME NEW s \in Of(u), NEW row, row = [session[s] EXCEPT !.late = TRUE]
          PROVE  /\ row \in Rows /\ row.owner = session[s].owner
                 /\ row.used = session[s].used /\ row.expires = session[s].expires
                 /\ row.lost = session[s].lost /\ row.since = session[s].since /\ row.late
      <4>1. session[s] \in Rows
        BY LiveRows DEF IInv, Of
      <4> QED
        BY <3>1, <4>1 DEF Rows
    <3>2. \A s \in Tokens : session'[s] = IF s \in Of(u)
                                          THEN [session[s] EXCEPT !.late = TRUE]
                                          ELSE session[s]
      BY <2>2 DEF Spared
    <3>3. \A s \in Of(u) :
             /\ session'[s] \in Rows /\ session'[s].owner = session[s].owner
             /\ session'[s].used = session[s].used /\ session'[s].expires = session[s].expires
             /\ session'[s].lost = session[s].lost /\ session'[s].since = session[s].since
             /\ session'[s].late /\ session[s].owner = u
      BY <3>1, <3>2 DEF Of, Live
    <3>4. \A s \in Tokens : s \notin Of(u) => session'[s] = session[s]
      BY <3>2
    <3>5. session' \in [Tokens -> Rows \cup {NoRow}]
      <4>1. session' = [s \in Tokens |-> session'[s]]
        BY <2>2 DEF Spared
      <4>2. \A s \in Tokens : session'[s] \in Rows \cup {NoRow}
        BY <3>3, <3>4 DEF IInv, Types
      <4> QED
        BY <4>1, <4>2
    <3> QED
      BY <3>3, <3>4, <3>5 DEF Live, Of
  <2> QED
    BY <1>2, <2>1, <2>2
<1>4. ASSUME NEW s \in Live' PROVE RowOK(s)'
  <2>1. /\ Sliding(s) => Sliding(s)'
        /\ \A v : Purging(v) => Purging(v)' \/ v = u
    BY <1>1, <1>2, OthersStay DEF IInv, Reached
  <2> QED
    BY <1>2, <1>3, <2>1 DEF IInv, RowOK
<1> QED
  BY <1>2, <1>3, <1>4, IdleIsGood, RestStays, LiveRows, Numbers DEF IInv, Types

LEMMA ReactivatePreserves == ASSUME IInv, Reactivate PROVE IInv'
<1>1. PICK u \in People :
        /\ account[u] = "suspended" /\ account' = [account EXCEPT ![u] = "active"]
        /\ UNCHANGED <<clock, session, issued, call, epoch>>
  BY DEF Reactivate
<1>2. /\ account' \in [People -> {"unborn", "active", "suspended", "gone"}]
      /\ account'[u] = "active" /\ \A v \in People : v # u => account'[v] = account[v]
  BY <1>1 DEF IInv, Types
<1>3. Live' = Live /\ session' = session
  BY <1>1 DEF Live
<1>4. ASSUME NEW s \in Live PROVE RowOK(s)'
  <2>1. account'[session[s].owner] \in {"active", "suspended"}
    BY <1>2, LiveRows DEF IInv, RowOK
  <2>2. (Sliding(s) => Sliding(s)') /\ \A v : Purging(v) => Purging(v)'
    BY <1>1 DEF Sliding, Purging, Reached
  <2> QED
    BY <1>1, <1>3, <2>1, <2>2, RowStays, LiveRows, Numbers DEF IInv, RowOK, Types
<1> QED
  BY <1>1, <1>2, <1>3, <1>4, StepIsGood, LiveRows, Numbers DEF IInv, Types

\* A stopped process remembers no slide and no purge; their rows are marked.
LEMMA RestartPreserves == ASSUME IInv, SessionRestart PROVE IInv'
<1>1. /\ session' = [s \in Tokens |->
                       IF s \notin Live \ Expired THEN NoRow
                       ELSE [session[s] EXCEPT
                               !.late = @ \/ Purging(session[s].owner),
                               !.lost = @ \/ Sliding(s)]]
      /\ call' = [p \in Threads |-> NoRequest] /\ UNCHANGED <<clock, account, issued, epoch>>
  BY DEF SessionRestart, Purging, Sliding
<1>2. ASSUME NEW s \in Live \ Expired
      PROVE  /\ session'[s] \in Rows /\ session'[s].owner = session[s].owner
             /\ session'[s].used = session[s].used /\ session'[s].expires = session[s].expires
             /\ session'[s].since = session[s].since
             /\ session'[s].late = (session[s].late \/ Purging(session[s].owner))
             /\ session'[s].lost = (session[s].lost \/ Sliding(s))
  <2>1. session[s] \in Rows /\ s \in Tokens
    BY LiveRows DEF IInv
  <2>2. PICK a, b \in BOOLEAN :
          a = (session[s].late \/ Purging(session[s].owner))
          /\ b = (session[s].lost \/ Sliding(s))
    BY Zenon
  <2>3. session'[s] = [session[s] EXCEPT !.late = a, !.lost = b]
    BY <1>1, <2>1, <2>2
  <2>4. PICK row : row = [session[s] EXCEPT !.late = a, !.lost = b]
    OBVIOUS
  <2>5. /\ row \in Rows /\ row.owner = session[s].owner
        /\ row.used = session[s].used /\ row.expires = session[s].expires
        /\ row.since = session[s].since /\ row.late = a /\ row.lost = b
    BY <2>1, <2>4 DEF Rows
  <2> QED
    BY <2>2, <2>3, <2>4, <2>5
<1>3. \A s \in Tokens : s \notin Live \ Expired => session'[s] = NoRow
  BY <1>1
<1>4. session' \in [Tokens -> Rows \cup {NoRow}]
  <2>1. session' = [s \in Tokens |-> session'[s]]
    BY <1>1
  <2> QED
    BY <1>2, <1>3, <2>1
<1>5. \A s \in Live' : s \in Live \ Expired
  BY <1>3 DEF Live
<1>6. ASSUME NEW s \in Live' PROVE RowOK(s)'
  <2>1. UNCHANGED <<clock, account, issued, epoch>>
    BY <1>1
  <2>2. s \in Live \ Expired /\ RowOK(s)
    BY <1>5 DEF IInv
  <2>3. /\ session'[s].owner = session[s].owner /\ session'[s].used = session[s].used
        /\ session'[s].expires = session[s].expires
        /\ session'[s].since = session[s].since
        /\ session[s].late \/ Purging(session[s].owner) => session'[s].late
        /\ session[s].lost \/ Sliding(s) => session'[s].lost
    BY <1>2, <2>2
  <2> QED
    BY <2>1, <2>2, <2>3 DEF RowOK
<1>7. call' \in [Threads -> Call \cup {NoRequest}] /\ \A q \in Threads : RequestOK(call[q])'
  BY <1>1, IdleIsGood
<1> QED
  BY <1>1, <1>2, <1>4, <1>5, <1>6, <1>7, StepIsGood, LiveRows, Numbers DEF IInv, Types

LEMMA TickPreserves == ASSUME IInv, Tick PROVE IInv'
<1>1. /\ clock < MaxClock /\ clock' = clock + 1
      /\ \A p \in Threads : Reached(p, "slide") => clock - call[p].now < MaxDelay
      /\ UNCHANGED <<account, session, issued, call, epoch>>
  BY DEF Tick
<1>2. clock \in Nat /\ clock' \in 0..MaxClock
  BY <1>1, Numbers DEF IInv, Types
<1>3. Live' = Live
  BY <1>1 DEF Live
<1>4. ASSUME NEW s \in Live PROVE RowOK(s)'
  <2>1. Sliding(s)' = Sliding(s) /\ Purging(session[s].owner)' = Purging(session[s].owner)
    BY <1>1 DEF Sliding, Purging, Reached
  <2> QED
    BY <1>1, <1>2, <2>1, LiveRows DEF IInv, RowOK
<1>5. ASSUME NEW p \in Threads PROVE RequestOK(call[p])'
  <2>1. call[p].pc = "slide" => call[p].now \in Nat /\ clock - call[p].now < MaxDelay
    BY <1>1, RequestFields, Numbers DEF IInv, Types, Reached
  <2> QED
    BY <1>1, <1>2, <1>3, <2>1, Numbers DEF IInv, RequestOK
<1> QED
  BY <1>1, <1>2, <1>3, <1>4, <1>5 DEF IInv, Types

LEMMA NextPreserves == IInv /\ [SessionNext]_sessionVars => IInv'
<1> SUFFICES ASSUME IInv, [SessionNext]_sessionVars PROVE IInv'
  OBVIOUS
<1>1. CASE UNCHANGED sessionVars
  BY <1>1 DEF sessionVars, IInv, Types, Live, RowOK, RequestOK, Sliding, Purging, Reached
<1>2. CASE Reactivate \/ Sweep \/ SessionRestart \/ Tick
  BY <1>2, ReactivatePreserves, SweepPreserves, RestartPreserves, TickPreserves
<1>3. ASSUME NEW p \in Threads,
             Register(p) \/ Login(p) \/ CreateSession(p) \/ Authenticate(p)
               \/ Slide(p) \/ LoadCaller(p)
      PROVE  IInv'
  BY <1>3, RegisterPreserves, LoginPreserves, CreateSessionPreserves,
     AuthenticatePreserves, SlidePreserves, LoadCallerPreserves
<1>4. ASSUME NEW p \in Threads,
             Revoke(p) \/ ChangePassword(p) \/ RemoveAccount(p) \/ Suspend(p)
               \/ PurgeSuspended(p) \/ CallFails(p)
      PROVE  IInv'
  BY <1>4, RevokePreserves, ChangePasswordPreserves, RemoveAccountPreserves,
     SuspendPreserves, PurgeSuspendedPreserves, StatementFailsPreserves
<1> QED
  BY <1>1, <1>2, <1>3, <1>4 DEF SessionNext

LEMMA Invariance == SessionSpec => []IInv
BY InitIsGood, NextPreserves, PTL DEF SessionSpec

-----------------------------------------------------------------------------
(* The properties *)

\* Every reachable state is well-typed, and every session has its account.
THEOREM TypeCorrect == SessionSpec => []SessionTypeOK
<1>1. IInv => SessionTypeOK
  BY DEF IInv, Types, RowOK, SessionTypeOK
<1> QED
  BY <1>1, Invariance, PTL

\* auth.go:40-46: whatever the requests that slide a session at once, it ends
\* no later than TTL after it was last presented.
THEOREM LifetimeBoundHolds == SessionSpec => []LifetimeBound
<1>1. IInv => LifetimeBound
  BY DEF IInv, RowOK, LifetimeBound
<1> QED
  BY <1>1, Invariance, PTL

\* auth.go:40: a session in use keeps half its lifetime, if an update follows
\* its reading of the clock within half of it (2 * MaxDelay <= TTL).
THEOREM ActiveKeptHolds == SessionSpec => []ActiveKept
<1>1. IInv => ActiveKept
  BY DEF IInv, RowOK, Sliding, ActiveKept
<1> QED
  BY <1>1, Invariance, PTL

\* settings.go:171, orgusers.go:168: no session outlives a changed password or a
\* suspension, the named exceptions apart.
THEOREM SessionsFollowAccountHolds == SessionSpec => []SessionsFollowAccount
<1>1. IInv => SessionsFollowAccount
  BY DEF IInv, RowOK, Purging, SessionsFollowAccount
<1> QED
  BY <1>1, Invariance, PTL

\* A session that is gone stays gone: rows appear under new tokens only.
THEOREM NoRevivalHolds == SessionSpec => NoRevival
<1>1. ASSUME IInv, [SessionNext]_sessionVars PROVE [RevivalStep]_sessionVars
  <2> SUFFICES ASSUME NEW s \in 1..issued, s \notin Live PROVE session'[s] = NoRow
    BY DEF RevivalStep
  <2>1. s \in Tokens /\ session[s] = NoRow /\ issued \in Nat /\ s # issued + 1
    BY <1>1, Numbers DEF IInv, Types, Live, Tokens
  <2>2. \A gone : session' = Without(gone) => session'[s] = NoRow
    BY <2>1 DEF Without
  <2>3. UNCHANGED session => session'[s] = NoRow
    BY <2>1
  <2>4. CASE UNCHANGED sessionVars \/ Reactivate \/ Sweep \/ SessionRestart \/ Tick
    BY <2>1, <2>2, <2>3, <2>4 DEF sessionVars, Reactivate, Sweep, SessionRestart, Tick
  <2>5. ASSUME NEW p \in Threads PROVE
          Register(p) \/ Login(p) \/ LoadCaller(p) \/ Suspend(p) \/ CallFails(p)
            => session'[s] = NoRow
    BY <2>3 DEF Register, Login, LoadCaller, Suspend, CallFails
  <2>6. ASSUME NEW p \in Threads PROVE
          Revoke(p) \/ RemoveAccount(p) => session'[s] = NoRow
    BY <2>2 DEF Revoke, RemoveAccount
  <2>7. ASSUME NEW p \in Threads, CreateSession(p) PROVE session'[s] = NoRow
    BY <1>1, <2>1, <2>7 DEF CreateSession, IInv, Types
  <2>8. ASSUME NEW p \in Threads, Authenticate(p) PROVE session'[s] = NoRow
    BY <1>1, <2>1, <2>8 DEF Authenticate, IInv, Types, Live
  <2>9. ASSUME NEW p \in Threads, Slide(p) PROVE session'[s] = NoRow
    BY <1>1, <2>1, <2>9 DEF Slide, IInv, Types, Live
  <2>10. ASSUME NEW p \in Threads, PurgeSuspended(p) PROVE session'[s] = NoRow
    BY <2>1, <2>2, <2>10 DEF PurgeSuspended, Spared, Of
  <2>11. ASSUME NEW p \in Threads, ChangePassword(p) PROVE session'[s] = NoRow
    <3>1. PICK rows, s0 : rows = Without(Of(call[p].user) \ {s0}) /\ session' = Kept(s0, rows)
      BY <2>11 DEF ChangePassword
    <3>2. rows[s] = NoRow
      BY <2>1, <3>1 DEF Without
    <3>3. rows[s0] # NoRow => s # s0
      BY <3>2
    <3> QED
      BY <3>1, <3>2, <3>3 DEF Kept
  <2> QED
    BY <1>1, <2>4, <2>5, <2>6, <2>7, <2>8, <2>9, <2>10, <2>11 DEF SessionNext
<1> QED
  BY <1>1, Invariance, PTL DEF SessionSpec, NoRevival
=============================================================================
