---------------------------- MODULE InstanceProofs ----------------------------
(***************************************************************************)
(* Proofs about Instance, for every number of accounts, invites and        *)
(* goroutines.  The inductive invariant has three parts beside the types:  *)
(* what a switch that nothing disturbs has done to app_state, to the       *)
(* provider and to the tables by the time it is at a step (Undisturbed);   *)
(* what becomes of an invite that has let an account in (Spent); and the   *)
(* bookkeeping the types of a registration need (Registered, Counted).     *)
(***************************************************************************)
EXTENDS Instance, TLAPS

\* A registration burns the invite it was let in by.
Registered == \A p \in Procs : At(p, "burn") => req[p].inv # NoInvite

\* No more accounts come in through an invite than are created.
Counted == \A i \in Invites : admitted[i] <= created

\* Who is about to burn invite i.
Burning(i) == \E q \in Procs : At(q, "burn") /\ req[q].inv = i

\* An invite that has let an account in is no longer pending, unless its burning
\* was lost or is still to come.
Spent ==
    \A i \in Invites : admitted[i] > 0 =>
        /\ invite[i] # "unborn"
        /\ invite[i] # "pending" \/ i \in unburnt \/ Burning(i)

\* The steps of EnableOrganization that have the tables behind them, and those of
\* RevertToPersonal that have dropped some.
Migrated == {"promote", "demote", "seed", "enable", "flip_org"}
Dropped == {"drop_invite", "drop_organization", "flip_personal"}

\* Memory and app_state at rest: what SettingsAgree says of them.
Settled ==
    /\ mem.open => db.open
    /\ mem.mode = "personal" /\ db.mode = "organization" => "misread" \in disturbed
    /\ mem # db => disturbed # {}

\* Memory behind app_state, by the mode that a switch has stored.
Behind(mode) ==
    /\ db.mode = mode
    /\ mem.open => db.open
    /\ mem = db \/ disturbed # {} \/ db = [mem EXCEPT !.mode = mode]

\* Memory behind app_state, by the sign-up switch that has been stored.
Opened(val) ==
    /\ db.open = val
    /\ mem.mode = "personal" /\ db.mode = "organization" => "misread" \in disturbed
    /\ mem = db \/ disturbed # {} \/ db = [mem EXCEPT !.open = val]

\* What a switch has done by the time it is at its next step.
Fits(r) ==
    /\ r.pc = "flip_org" => Behind("organization")
    /\ r.pc \in {"close", "drop_shared"} \cup Dropped => Behind("personal")
    /\ r.pc = "close_mem" => db = [mode |-> "personal", open |-> r.val]
    /\ r.pc = "open_mem" => Opened(r.val)
    /\ r.pc \in {"find", "migrate", "promote", "demote", "seed", "enable",
                 "purge", "step_down", "revert", "open"} => Settled
    /\ r.pc \in Migrated => tables = OrgTables

\* One switch at a time, memory and app_state settled but while it is under way,
\* and a table missing from what is served only where a revert has dropped it.
Undisturbed ==
    /\ \A p, q \in Procs : req[p].pc \in Switching /\ req[q].pc \in Switching => p = q
    /\ Quiet(Switching) => Settled
    /\ \A p \in Procs : Fits(req[p])
    /\ mem.mode = "organization" /\ tables # OrgTables =>
         /\ db.mode = "personal"
         /\ "half_way" \in disturbed \/ ~Quiet(Dropped)

\* The types of the variables that describe no request.
DataOK ==
    /\ role \in [Users -> Roles \cup {"none"}]
    /\ created \in 0..MaxUsers
    /\ \A u \in Users : u > created => role[u] = "none"
    /\ db \in [mode : Modes, open : BOOLEAN]
    /\ mem \in [mode : Modes, open : BOOLEAN]
    /\ tables \subseteq OrgTables
    /\ policy \in {"none", "invite", "open"}
    /\ "organization" \notin tables => policy = "none"
    /\ invite \in [Invites -> {"unborn", "pending", "used", "expired", "gone"}]
    /\ "invite" \notin tables => \A i \in Invites : invite[i] \in {"unborn", "gone"}
    /\ disturbed \in Disturbances
    /\ admitted \in [Invites -> 0..MaxUsers]
    /\ unburnt \subseteq Invites

RequestsOK ==
    /\ req \in [Procs -> Request]
    /\ \A p \in Procs : req[p].inv # NoInvite => invite[req[p].inv] # "unborn"
    /\ Registered

Types == DataOK /\ RequestsOK /\ Counted

PCs == {"idle"} \cup Registering \cup Switching \cup Managing \cup Leaving

\* Request p goes on at pc with this invite and value; no other request moves.
Moves(p, pc, inv, val) ==
    /\ req' \in [Procs -> Request]
    /\ req'[p].pc = pc /\ req'[p].inv = inv /\ req'[p].val = val
    /\ \A q \in Procs : q # p => req'[q] = req[q]

IInv == Types /\ Spent /\ ("overlap" \notin disturbed => Undisturbed)

-----------------------------------------------------------------------------
(* How requests move *)

LEMMA IdleIsARequest == AtRest \in Request
<1>1. 1 \in Users
  BY InstanceAssumption DEF Users
<1> QED
  BY <1>1 DEF AtRest, Request, Roles

LEMMA GotoMoves ==
  ASSUME req \in [Procs -> Request], NEW p \in Procs, NEW pc \in PCs, Goto(p, pc)
  PROVE  Moves(p, pc, req[p].inv, req[p].val)
<1>1. req[p] \in Request
  OBVIOUS
<1>2. [req[p] EXCEPT !.pc = pc] \in Request
  BY <1>1 DEF Request, PCs
<1> QED
  BY <1>1, <1>2 DEF Goto, Moves, Request

LEMMA AnswerMoves ==
  ASSUME req \in [Procs -> Request], NEW p \in Procs, Answer(p)
  PROVE  Moves(p, "idle", NoInvite, FALSE)
<1>1. AtRest.pc = "idle" /\ AtRest.inv = NoInvite /\ AtRest.val = FALSE
  BY DEF AtRest
<1> QED
  BY <1>1, IdleIsARequest DEF Answer, Moves

LEMMA BecomeMoves ==
  ASSUME req \in [Procs -> Request], NEW p \in Procs, NEW pc \in PCs, NEW r \in Roles,
         Become(p, pc, r)
  PROVE  Moves(p, pc, NoInvite, FALSE)
<1> DEFINE next == [AtRest EXCEPT !.pc = pc, !.role = r]
<1>1. next \in Request
  BY IdleIsARequest DEF Request, PCs
<1>2. next.pc = pc /\ next.inv = NoInvite /\ next.val = FALSE
  BY DEF AtRest
<1>3. req' = [req EXCEPT ![p] = next]
  BY DEF Become
<1> HIDE DEF next
<1> QED
  BY <1>1, <1>2, <1>3 DEF Moves

LEMMA BeginMoves ==
  ASSUME req \in [Procs -> Request], NEW p \in Procs, NEW r \in Request, Begin(p, r)
  PROVE  Moves(p, r.pc, r.inv, r.val) /\ At(p, "idle")
BY DEF Begin, Moves

-----------------------------------------------------------------------------
(* The parts of the invariant that few steps concern *)

\* A request moves, with an invite that has been minted or none.
LEMMA RequestsKeep ==
  ASSUME Types, NEW p \in Procs, NEW pc, NEW inv, NEW val, Moves(p, pc, inv, val),
         inv # NoInvite => invite'[inv] # "unborn",
         pc = "burn" => inv # NoInvite,
         \A i \in Invites : invite[i] # "unborn" => invite'[i] # "unborn"
  PROVE  RequestsOK'
<1>1. \A q \in Procs : req[q].inv \in Invites \cup {NoInvite}
  BY DEF Types, RequestsOK, Request
<1> QED
  BY <1>1 DEF Types, RequestsOK, Registered, At, Moves

\* A request that is not burning moves, and the invites stay as they are.
LEMMA SpentKeeps ==
  ASSUME Types, Spent, NEW p \in Procs, ~At(p, "burn"), NEW pc, NEW inv, NEW val,
         Moves(p, pc, inv, val), UNCHANGED <<invite, admitted, unburnt>>
  PROVE  Spent'
<1>1. \A q \in Procs : At(q, "burn") => req'[q] = req[q]
  BY DEF Moves
<1> QED
  BY <1>1 DEF Spent, Burning, At

\* A request outside the switches moves, and touches nothing they do.
LEMMA AsideKeeps ==
  ASSUME "overlap" \notin disturbed => Undisturbed, NEW p \in Procs, NEW pc, NEW inv, NEW val,
         Moves(p, pc, inv, val), req[p].pc \notin Switching, pc \notin Switching,
         UNCHANGED <<db, mem, tables, disturbed>>
  PROVE  "overlap" \notin disturbed' => Undisturbed'
<1> SUFFICES ASSUME "overlap" \notin disturbed PROVE Undisturbed'
  BY Zenon
<1>1. Undisturbed
  OBVIOUS
<1>2. \A q \in Procs : req'[q] = req[q] \/ (q = p /\ req'[q].pc \notin Switching)
  BY DEF Moves
<1>3. Dropped \subseteq Switching /\ Migrated \subseteq Switching
      /\ {"close", "drop_shared", "close_mem", "open_mem", "find", "migrate",
          "purge", "step_down", "revert", "open"} \subseteq Switching
  BY DEF Dropped, Migrated, Switching, Enabling, Reverting, Opening, Dropping
<1>4. \A q \in Procs : Fits(req[q])'
  <2> SUFFICES ASSUME NEW q \in Procs PROVE Fits(req[q])'
    OBVIOUS
  <2>1. CASE req'[q] = req[q]
    BY <1>1, <2>1 DEF Undisturbed, Fits, Settled, Behind, Opened
  <2>2. CASE req'[q].pc \notin Switching
    BY <1>3, <2>2 DEF Fits, Migrated, Dropped
  <2> QED
    BY <1>2, <2>1, <2>2
<1>5. Quiet(Switching)' => Quiet(Switching)
  BY <1>2, Zenon DEF Quiet
<1>6. Quiet(Dropped)' => Quiet(Dropped)
  BY <1>2, <1>3 DEF Quiet
<1>7. (\A q, s \in Procs : req[q].pc \in Switching /\ req[s].pc \in Switching => q = s)'
  BY <1>1, <1>2 DEF Undisturbed
<1> QED
  BY <1>1, <1>4, <1>5, <1>6, <1>7 DEF Undisturbed, Settled

\* A request outside the switches moves, and nothing else changes.
LEMMA OnlyMoves ==
  ASSUME IInv, NEW p \in Procs, NEW pc \in PCs \ {"burn"}, NEW inv, NEW val,
         Moves(p, pc, inv, val), ~At(p, "burn"), req[p].pc \notin Switching, pc \notin Switching,
         inv # NoInvite => invite[inv] # "unborn",
         UNCHANGED <<accounts, settings, organization, history>>
  PROVE  IInv'
<1> USE DEF IInv, accounts, settings, organization, history
<1>1. DataOK' /\ Counted'
  BY DEF Types, DataOK, Counted
<1>2. RequestsOK'
  BY RequestsKeep
<1>3. Spent'
  BY SpentKeeps
<1>4. "overlap" \notin disturbed' => Undisturbed'
  BY AsideKeeps
<1> QED
  BY <1>1, <1>2, <1>3, <1>4 DEF Types

LEMMA RegistrationKeeps ==
  ASSUME IInv, NEW p \in Procs
  PROVE  /\ CountUsers(p) => IInv'
         /\ Gate(p) => IInv'
         /\ ReadPolicy(p) => IInv'
         /\ LookUp(p) => IInv'
         /\ CreateAccount(p) => IInv'
         /\ BurnInvite(p) => IInv'
<1>0. req \in [Procs -> Request] /\ req[p] \in Request
  BY DEF IInv, Types, RequestsOK
<1> DEFINE Aside == {"idle"} \cup Registering
<1>a. Aside \subseteq PCs /\ Aside \cap Switching = {} /\ {"owner", "member"} \subseteq Roles
  BY DEF PCs, Registering, Switching, Enabling, Reverting, Opening, Dropping, Roles
<1>1. ASSUME CountUsers(p) PROVE IInv'
  <2>1. PICK empty \in BOOLEAN : Begin(p, [AtRest EXCEPT !.pc = "gate", !.empty = empty])
    BY <1>1 DEF CountUsers
  <2> DEFINE r == [AtRest EXCEPT !.pc = "gate", !.empty = empty]
  <2>2. r \in Request /\ r.pc = "gate" /\ r.inv = NoInvite /\ r.val = FALSE
    BY IdleIsARequest DEF Request, Registering, AtRest
  <2> HIDE DEF r
  <2>3. Moves(p, "gate", NoInvite, FALSE) /\ At(p, "idle")
    BY <1>0, <2>1, <2>2, BeginMoves DEF r
  <2> QED
    BY <1>1, <1>a, <2>3, OnlyMoves DEF CountUsers, At, Registering
<1>2. ASSUME Gate(p) PROVE IInv'
  <2>1. Become(p, "create", "owner") \/ Become(p, "create", "member")
        \/ Become(p, "policy", "member") \/ Answer(p)
    BY <1>2, Zenon DEF Gate
  <2>2. \E pc \in {"create", "policy", "idle"} : Moves(p, pc, NoInvite, FALSE)
    BY <1>0, <1>a, <2>1, BecomeMoves, AnswerMoves DEF Registering
  <2> QED
    BY <1>2, <1>a, <2>2, OnlyMoves DEF Gate, At, Registering
<1>3. ASSUME ReadPolicy(p) PROVE IInv'
  <2>1. \E pc \in {"lookup", "create"} : Moves(p, pc, req[p].inv, req[p].val)
    BY <1>0, <1>3, <1>a, GotoMoves DEF ReadPolicy, Registering
  <2>2. req[p].inv # NoInvite => invite[req[p].inv] # "unborn"
    BY DEF IInv, Types, RequestsOK
  <2> QED
    BY <1>3, <1>a, <2>1, <2>2, OnlyMoves DEF ReadPolicy, At, Registering
<1>4. ASSUME LookUp(p) PROVE IInv'
  <2>1. CASE Answer(p)
    BY <1>0, <1>4, <1>a, <2>1, AnswerMoves, OnlyMoves DEF LookUp, At, Registering
  <2>2. ASSUME NEW i \in Invites, invite[i] = "pending",
               req' = [req EXCEPT ![p].pc = "create", ![p].inv = i]
        PROVE  IInv'
    <3> DEFINE r == [req[p] EXCEPT !.pc = "create", !.inv = i]
    <3>1. r \in Request /\ r.pc = "create" /\ r.inv = i /\ r.val = req[p].val
      BY <1>0 DEF Request, Registering
    <3>2. req' = [req EXCEPT ![p] = r]
      BY <1>0, <2>2 DEF Request
    <3> HIDE DEF r
    <3>3. Moves(p, "create", i, req[p].val)
      BY <1>0, <3>1, <3>2 DEF Moves
    <3> QED
      BY <1>4, <1>a, <2>2, <3>3, OnlyMoves DEF LookUp, At, Registering
  <2> QED
    BY <1>4, <2>1, <2>2 DEF LookUp
<1>5. ASSUME CreateAccount(p) PROVE IInv'
  <2>0. PICK i \in Invites \cup {NoInvite} : i = req[p].inv
    BY <1>0 DEF Request
  <2>1. /\ At(p, "create") /\ created < MaxUsers /\ created' = created + 1
        /\ role' = [role EXCEPT ![created + 1] = req[p].role]
        /\ admitted' = [j \in Invites |-> IF j = i THEN admitted[j] + 1 ELSE admitted[j]]
        /\ UNCHANGED <<settings, organization, disturbed, unburnt>>
    BY <1>5, <2>0 DEF CreateAccount
  <2>2. CASE i = NoInvite
    <3>1. Moves(p, "idle", NoInvite, FALSE)
      BY <1>0, <1>5, <2>0, <2>2, AnswerMoves DEF CreateAccount
    <3>2. admitted' = admitted
      BY <2>1, <2>2, InstanceAssumption DEF IInv, Types, DataOK
    <3>3. Spent'
      BY <2>1, <3>1, <3>2, SpentKeeps DEF IInv, organization, At
    <3>4. RequestsOK'
      BY <2>1, <3>1, RequestsKeep DEF IInv, organization
    <3>5. "overlap" \notin disturbed' => Undisturbed'
      BY <1>a, <2>1, <3>1, AsideKeeps DEF IInv, organization, settings, At, Registering
    <3>6. DataOK' /\ Counted'
      BY <1>0, <2>1, <3>2, InstanceAssumption
         DEF IInv, Types, DataOK, Counted, settings, organization, Users, Request
    <3> QED
      BY <3>3, <3>4, <3>5, <3>6 DEF IInv, Types
  <2>3. CASE i # NoInvite
    <3>1. Moves(p, "burn", i, req[p].val)
      BY <1>0, <1>5, <1>a, <2>0, <2>3, GotoMoves DEF CreateAccount, Registering
    <3>2. i \in Invites /\ invite[i] # "unborn"
      BY <2>0, <2>3 DEF IInv, Types, RequestsOK, Request
    <3>3. Spent'
      <4>1. \A q \in Procs : At(q, "burn") => req'[q] = req[q]
        BY <2>1, <3>1 DEF Moves, At
      <4>2. Burning(i)'
        BY <3>1 DEF Moves, Burning, At
      <4>3. \A j \in Invites : j # i => admitted'[j] = admitted[j]
        BY <2>1
      <4>4. ASSUME NEW j \in Invites, Burning(j) PROVE Burning(j)'
        BY <4>1, <4>4 DEF Burning, At
      <4>5. ASSUME NEW j \in Invites, j # i, admitted'[j] > 0
            PROVE  invite[j] # "unborn" /\ (invite[j] # "pending" \/ j \in unburnt \/ Burning(j)')
        BY <4>3, <4>4, <4>5 DEF IInv, Spent
      <4> QED
        BY <2>1, <3>2, <4>2, <4>5 DEF Spent, organization
    <3>4. RequestsOK'
      BY <2>1, <2>3, <3>1, <3>2, RequestsKeep DEF IInv, organization
    <3>5. "overlap" \notin disturbed' => Undisturbed'
      BY <1>a, <2>1, <3>1, AsideKeeps DEF IInv, organization, settings, At, Registering
    <3>6. DataOK' /\ Counted'
      BY <1>0, <2>1, InstanceAssumption
         DEF IInv, Types, DataOK, Counted, settings, organization, Users, Request
    <3> QED
      BY <3>3, <3>4, <3>5, <3>6 DEF IInv, Types
  <2> QED
    BY <2>2, <2>3
<1>6. ASSUME BurnInvite(p) PROVE IInv'
  <2> DEFINE i == req[p].inv
  <2>1. /\ At(p, "burn")
        /\ invite' = IF invite[i] = "gone" THEN invite ELSE [invite EXCEPT ![i] = "used"]
        /\ Answer(p)
        /\ UNCHANGED <<accounts, settings, tables, policy, history>>
    BY <1>6 DEF BurnInvite
  <2>2. Moves(p, "idle", NoInvite, FALSE)
    BY <1>0, <2>1, AnswerMoves
  <2>3. i \in Invites /\ invite[i] # "unborn"
    BY <1>0, <2>1 DEF IInv, Types, RequestsOK, Registered, Request
  <2>4. /\ invite'[i] \in {"used", "gone"}
        /\ \A j \in Invites : j # i => invite'[j] = invite[j]
        /\ invite' \in [Invites -> {"unborn", "pending", "used", "expired", "gone"}]
        /\ invite[i] = "gone" => invite' = invite
    BY <2>1, <2>3 DEF IInv, Types, DataOK
  <2>5. RequestsOK'
    BY <2>2, <2>3, <2>4, RequestsKeep DEF IInv
  <2>6. Spent'
    <3>1. \A q \in Procs : q # p => req'[q] = req[q]
      BY <2>2 DEF Moves
    <3>2. ASSUME NEW j \in Invites, j # i, Burning(j) PROVE Burning(j)'
      BY <3>1, <3>2 DEF Burning, At
    <3> QED
      BY <2>1, <2>4, <3>2 DEF IInv, Spent, history
  <2>7. "overlap" \notin disturbed' => Undisturbed'
    BY <1>a, <2>1, <2>2, AsideKeeps DEF IInv, settings, history, At, Registering
  <2>8. DataOK' /\ Counted'
    BY <2>1, <2>3, <2>4 DEF IInv, Types, DataOK, Counted, accounts, settings, history
  <2> QED
    BY <2>5, <2>6, <2>7, <2>8 DEF IInv, Types
<1> QED
  BY <1>1, <1>2, <1>3, <1>4, <1>5, <1>6

LEMMA ManagingKeeps ==
  ASSUME IInv, NEW p \in Procs
  PROVE  /\ BeginManaging(p) => IInv'
         /\ SetPolicy(p) => IInv'
         /\ Mint(p) => IInv'
         /\ DeleteInvites(p) => IInv'
<1>0. req \in [Procs -> Request] /\ req[p] \in Request
  BY DEF IInv, Types, RequestsOK
<1>a. /\ Managing \subseteq PCs \ {"burn"} /\ Managing \cap Switching = {}
      /\ "idle" \in PCs \ Switching
  BY DEF PCs, Managing, Switching, Enabling, Reverting, Opening, Dropping
<1>1. ASSUME BeginManaging(p) PROVE IInv'
  <2>1. PICK pc \in Managing : Begin(p, [AtRest EXCEPT !.pc = pc])
    BY <1>1 DEF BeginManaging
  <2> DEFINE r == [AtRest EXCEPT !.pc = pc]
  <2>2. r \in Request /\ r.pc = pc /\ r.inv = NoInvite /\ r.val = FALSE
    BY IdleIsARequest DEF Request, AtRest
  <2> HIDE DEF r
  <2>3. Moves(p, pc, NoInvite, FALSE) /\ At(p, "idle")
    BY <1>0, <2>1, <2>2, BeginMoves DEF r
  <2> QED
    BY <1>1, <1>a, <2>3, OnlyMoves DEF BeginManaging, At
\* What the three writes have in common: the request ends and touches only a
\* policy or invites.
<1>2. ASSUME \E pc \in Managing : At(p, pc), Answer(p),
             UNCHANGED <<accounts, settings, tables, history>>,
             \A i \in Invites : invite[i] # "unborn" => invite'[i] # "unborn",
             \A i \in Invites : invite'[i] = "pending" => invite[i] \in {"unborn", "pending"}
      PROVE  RequestsOK' /\ Spent' /\ ("overlap" \notin disturbed' => Undisturbed') /\ Counted'
  <2>1. Moves(p, "idle", NoInvite, FALSE)
    BY <1>0, <1>2, AnswerMoves
  <2>2. ~At(p, "burn") /\ req[p].pc \notin Switching
    BY <1>2, <1>a DEF At
  <2>3. RequestsOK'
    BY <1>2, <2>1, RequestsKeep DEF IInv
  <2>4. Spent'
    <3>1. \A q \in Procs : At(q, "burn") => req'[q] = req[q]
      BY <2>1, <2>2 DEF Moves
    <3>2. ASSUME NEW i \in Invites, Burning(i) PROVE Burning(i)'
      BY <3>1, <3>2 DEF Burning, At
    <3>3. ASSUME NEW i \in Invites, admitted[i] > 0
          PROVE  invite'[i] # "unborn" /\ (invite'[i] # "pending" \/ i \in unburnt \/ Burning(i)')
      BY <1>2, <3>2, <3>3 DEF IInv, Spent
    <3> QED
      BY <1>2, <3>3 DEF Spent, history
  <2>5. "overlap" \notin disturbed' => Undisturbed'
    BY <1>2, <1>a, <2>1, <2>2, AsideKeeps DEF IInv, settings, history
  <2>6. Counted'
    BY <1>2 DEF IInv, Types, Counted, accounts, history
  <2> QED
    BY <2>3, <2>4, <2>5, <2>6
<1>3. ASSUME SetPolicy(p) PROVE IInv'
  <2>1. DataOK'
    BY <1>3 DEF SetPolicy, IInv, Types, DataOK, accounts, settings, history
  <2>2. \E pc \in Managing : At(p, pc)
    BY <1>3 DEF SetPolicy, Managing
  <2> QED
    BY <1>2, <1>3, <2>1, <2>2 DEF SetPolicy, IInv, Types
<1>4. ASSUME Mint(p) PROVE IInv'
  <2>1. PICK i \in Invites :
          /\ invite[i] = "unborn"
          /\ invite' = IF "invite" \in tables THEN [invite EXCEPT ![i] = "pending"] ELSE invite
    BY <1>4 DEF Mint
  <2>2. DataOK'
    BY <1>4, <2>1 DEF Mint, IInv, Types, DataOK, accounts, settings, history
  <2>3. \E pc \in Managing : At(p, pc)
    BY <1>4 DEF Mint, Managing
  <2>4. \A j \in Invites : invite'[j] = invite[j] \/ (invite[j] = "unborn" /\ invite'[j] = "pending")
    BY <2>1 DEF IInv, Types, DataOK
  <2> QED
    BY <1>2, <1>4, <2>2, <2>3, <2>4 DEF Mint, IInv, Types
<1>5. ASSUME DeleteInvites(p) PROVE IInv'
  <2>1. PICK doomed \in SUBSET Born : Deleted(doomed)
    <3>1. CASE \E i \in Born : Deleted({i})
      BY <3>1, Zenon
    <3>2. CASE Deleted({i \in Born : invite[i] \in {"used", "expired"}})
      BY <3>2, Zenon
    <3>3. CASE Deleted(Born)
      BY <3>3, Zenon
    <3> QED
      BY <1>5, <3>1, <3>2, <3>3, Zenon DEF DeleteInvites
  <2>2. \A i \in Invites : invite'[i] = invite[i] \/ (invite[i] # "unborn" /\ invite'[i] = "gone")
    BY <2>1 DEF Deleted, Born
  <2>3. DataOK'
    BY <1>5, <2>1, <2>2 DEF DeleteInvites, Deleted, IInv, Types, DataOK, accounts, settings, history
  <2>4. \E pc \in Managing : At(p, pc)
    BY <1>5 DEF DeleteInvites, Managing
  <2> QED
    BY <1>2, <1>5, <2>2, <2>3, <2>4 DEF DeleteInvites, IInv, Types
<1> QED
  BY <1>1, <1>3, <1>4, <1>5

LEMMA LeavingKeeps ==
  ASSUME IInv, NEW p \in Procs
  PROVE  /\ BeginLeaving(p) => IInv'
         /\ LeavingGuard(p) => IInv'
         /\ Leave(p) => IInv'
<1>0. req \in [Procs -> Request] /\ req[p] \in Request
  BY DEF IInv, Types, RequestsOK
<1>a. /\ {"idle", "guard", "leave"} \subseteq PCs \ {"burn"}
      /\ {"idle", "guard", "leave"} \cap Switching = {}
  BY DEF PCs, Leaving, Switching, Enabling, Reverting, Opening, Dropping
<1>1. ASSUME BeginLeaving(p) PROVE IInv'
  <2>1. PICK u \in Accounts : Begin(p, [AtRest EXCEPT !.pc = "guard", !.actor = u, !.role = role[u]])
    BY <1>1 DEF BeginLeaving
  <2> DEFINE r == [AtRest EXCEPT !.pc = "guard", !.actor = u, !.role = role[u]]
  <2>2. u \in Users /\ role[u] \in Roles
    BY DEF Accounts, IInv, Types, DataOK
  <2>3. r \in Request /\ r.pc = "guard" /\ r.inv = NoInvite /\ r.val = FALSE
    BY <2>2, IdleIsARequest DEF Request, AtRest, Leaving
  <2> HIDE DEF r
  <2>4. Moves(p, "guard", NoInvite, FALSE) /\ At(p, "idle")
    BY <1>0, <2>1, <2>3, BeginMoves DEF r
  <2> QED
    BY <1>1, <1>a, <2>4, OnlyMoves DEF BeginLeaving, At
<1>2. ASSUME LeavingGuard(p) PROVE IInv'
  <2>1. CASE Answer(p)
    BY <1>0, <1>2, <1>a, <2>1, AnswerMoves, OnlyMoves DEF LeavingGuard, At
  <2>2. CASE req' = [req EXCEPT ![p].pc = "leave", ![p].role = "member"]
    <3> DEFINE r == [req[p] EXCEPT !.pc = "leave", !.role = "member"]
    <3>1. r \in Request /\ r.pc = "leave" /\ r.inv = req[p].inv /\ r.val = req[p].val
      BY <1>0 DEF Request, Leaving, Roles
    <3>2. req' = [req EXCEPT ![p] = r]
      BY <1>0, <2>2 DEF Request
    <3> HIDE DEF r
    <3>3. Moves(p, "leave", req[p].inv, req[p].val)
      BY <1>0, <3>1, <3>2 DEF Moves
    <3>4. req[p].inv # NoInvite => invite[req[p].inv] # "unborn"
      BY DEF IInv, Types, RequestsOK
    <3> QED
      BY <1>2, <1>a, <3>3, <3>4, OnlyMoves DEF LeavingGuard, At
  <2> QED
    BY <1>2, <2>1, <2>2, Zenon DEF LeavingGuard
<1>3. ASSUME Leave(p) PROVE IInv'
  <2>1. Moves(p, "idle", NoInvite, FALSE) /\ ~At(p, "burn") /\ req[p].pc \notin Switching
    BY <1>0, <1>3, <1>a, AnswerMoves DEF Leave, At
  <2>2. DataOK' /\ Counted'
    BY <1>3 DEF Leave, IInv, Types, DataOK, Counted, settings, organization, history
  <2>3. RequestsOK'
    BY <1>3, <2>1, RequestsKeep DEF Leave, IInv, organization
  <2>4. Spent'
    BY <1>3, <2>1, SpentKeeps DEF Leave, IInv, organization, history
  <2>5. "overlap" \notin disturbed' => Undisturbed'
    BY <1>3, <1>a, <2>1, AsideKeeps DEF Leave, IInv, settings, organization, history
  <2> QED
    BY <2>2, <2>3, <2>4, <2>5 DEF IInv, Types
<1> QED
  BY <1>1, <1>2, <1>3

-----------------------------------------------------------------------------
(* The steps of the switches *)

\* A switch begins: it is alone, or from now on disturbed.
LEMMA BeginSwitchKeeps ==
  ASSUME IInv, NEW p \in Procs, NEW r \in Request, r.pc \in {"find", "purge", "open"},
         r.inv = NoInvite, BeginSwitch(p, r)
  PROVE  IInv'
<1>0. req \in [Procs -> Request]
  BY DEF IInv, Types, RequestsOK
<1>1. /\ Moves(p, r.pc, NoInvite, r.val) /\ At(p, "idle")
      /\ disturbed' = IF \E q \in Procs : req[q].pc \in Switching THEN {"overlap"} ELSE disturbed
      /\ UNCHANGED <<accounts, settings, organization, admitted, unburnt>>
  BY <1>0, BeginMoves DEF BeginSwitch
<1>2. DataOK' /\ Counted'
  BY <1>1 DEF Disturbances, IInv, Types, DataOK, Counted, accounts, settings, organization
<1>3. RequestsOK'
  BY <1>1, RequestsKeep DEF IInv, organization
<1>4. Spent'
  BY <1>1, SpentKeeps DEF IInv, organization, At
<1>5. ASSUME "overlap" \notin disturbed' PROVE Undisturbed'
  <2>0. disturbed' = disturbed /\ \A q \in Procs : req[q].pc \notin Switching
    BY <1>1, <1>5
  <2>1. Undisturbed /\ Settled /\ \A q \in Procs : req[q].pc \notin Switching
    BY <1>5, <2>0, Zenon DEF IInv, Undisturbed, Quiet
  <2>2. r.pc \notin Migrated \cup Dropped
    BY DEF Migrated, Dropped
  <2>3. \A q \in Procs : q # p => req'[q].pc \notin Switching
    BY <1>1, <2>1 DEF Moves
  <2>4. /\ Dropped \subseteq Switching /\ Migrated \subseteq Switching /\ r.pc \in Switching
        /\ {"close", "drop_shared", "close_mem", "open_mem", "find", "migrate",
            "purge", "step_down", "revert", "open"} \subseteq Switching
    BY DEF Dropped, Migrated, Switching, Enabling, Reverting, Opening, Dropping
  <2>5. \A q \in Procs : Fits(req[q])'
    <3>1. Fits(req[p])'
      BY <1>1, <2>0, <2>1, <2>2 DEF Fits, Moves, settings, Settled
    <3>2. ASSUME NEW q \in Procs, q # p PROVE Fits(req[q])'
      BY <2>3, <2>4, <3>2 DEF Fits, Migrated, Dropped
    <3> QED
      BY <3>1, <3>2
  <2>6. mem'.mode = "organization" /\ tables' # OrgTables =>
          db'.mode = "personal" /\ "half_way" \in disturbed'
    BY <1>1, <2>0, <2>1, <2>4 DEF Undisturbed, Quiet, settings, organization
  <2>7. \A q, s \in Procs : req'[q].pc \in Switching /\ req'[s].pc \in Switching => q = s
    BY <2>3
  <2>8. ~Quiet(Switching)'
    BY <1>1, <2>4 DEF Quiet, Moves
  <2> QED
    BY <2>5, <2>6, <2>7, <2>8 DEF Undisturbed
<1> QED
  BY <1>2, <1>3, <1>4, <1>5 DEF IInv, Types

\* A switch goes on: it is enough that it has done what belongs to its next step.
LEMMA SwitchKeeps ==
  ASSUME "overlap" \notin disturbed => Undisturbed, NEW p \in Procs, NEW pc, NEW inv, NEW val,
         Moves(p, pc, inv, val), req[p].pc \in Switching, disturbed' = disturbed,
         Undisturbed => \/ pc \in Switching /\ Fits(req[p])'
                        \/ pc \notin Switching /\ Settled',
         Undisturbed /\ mem'.mode = "organization" /\ tables' # OrgTables =>
           db'.mode = "personal" /\ ("half_way" \in disturbed' \/ pc \in Dropped)
  PROVE  "overlap" \notin disturbed' => Undisturbed'
<1> SUFFICES ASSUME "overlap" \notin disturbed PROVE Undisturbed'
  BY Zenon
<1>1. Undisturbed
  OBVIOUS
<1>2. \A q \in Procs : q # p => req'[q].pc \notin Switching
  BY <1>1 DEF Undisturbed, Moves
<1>3. Dropped \subseteq Switching /\ Migrated \subseteq Switching
      /\ {"close", "drop_shared", "close_mem", "open_mem", "find", "migrate", "promote",
          "demote", "seed", "enable", "flip_org", "purge", "step_down", "revert",
          "open"} \subseteq Switching
  BY DEF Dropped, Migrated, Switching, Enabling, Reverting, Opening, Dropping
<1>4. req'[p].pc = pc
  BY DEF Moves
<1>5. ASSUME NEW q \in Procs, req'[q].pc \notin Switching PROVE Fits(req[q])'
  BY <1>3, <1>5 DEF Fits, Migrated, Dropped
<1>6. \A q \in Procs : Fits(req[q])'
  <2>1. Fits(req[p])'
    BY <1>1, <1>4, <1>5
  <2> QED
    BY <1>2, <1>5, <2>1
<1>7. Quiet(Switching)' => Settled'
  BY <1>1, <1>4 DEF Quiet
<1>8. Quiet(Dropped)' => pc \notin Dropped
  BY <1>4 DEF Quiet
<1>9. \A q, s \in Procs : req'[q].pc \in Switching /\ req'[s].pc \in Switching => q = s
  BY <1>2
<1> QED
  BY <1>1, <1>6, <1>7, <1>8, <1>9 DEF Undisturbed

\* The same for the whole invariant, for the steps that leave the invites alone.
LEMMA SwitchStepKeeps ==
  ASSUME IInv, NEW p \in Procs, NEW pc \in PCs \ {"burn"}, NEW inv \in {NoInvite, req[p].inv},
         NEW val, Moves(p, pc, inv, val), req[p].pc \in Switching,
         UNCHANGED <<created, invite, disturbed, admitted, unburnt>>, DataOK',
         Undisturbed => \/ pc \in Switching /\ Fits(req[p])'
                        \/ pc \notin Switching /\ Settled',
         Undisturbed /\ mem'.mode = "organization" /\ tables' # OrgTables =>
           db'.mode = "personal" /\ ("half_way" \in disturbed' \/ pc \in Dropped)
  PROVE  IInv'
<1>1. "burn" \notin Switching
  BY DEF Switching, Enabling, Reverting, Opening, Dropping
<1>2. ~At(p, "burn") /\ (inv # NoInvite => invite[inv] # "unborn")
  BY <1>1 DEF At, IInv, Types, RequestsOK
<1>3. RequestsOK'
  BY <1>2, RequestsKeep DEF IInv
<1>4. Spent'
  BY <1>2, SpentKeeps DEF IInv
<1>5. "overlap" \notin disturbed' => Undisturbed'
  BY SwitchKeeps DEF IInv
<1>6. Counted'
  BY DEF IInv, Types, Counted
<1> QED
  BY <1>3, <1>4, <1>5, <1>6 DEF IInv, Types

LEMMA EnablingKeeps ==
  ASSUME IInv, NEW p \in Procs
  PROVE  /\ BeginEnable(p) => IInv'
         /\ FindActor(p) => IInv'
         /\ MigrateOrg(p) => IInv'
         /\ PromoteActor(p) => IInv'
         /\ DemoteOthers(p) => IInv'
         /\ SeedOrganization(p) => IInv'
         /\ PersistOrganization(p) => IInv'
         /\ FlipToOrganization(p) => IInv'
<1>0. req \in [Procs -> Request] /\ req[p] \in Request /\ DataOK
  BY DEF IInv, Types, RequestsOK
<1>a. /\ Enabling \subseteq PCs \ {"burn"} /\ Enabling \subseteq Switching
      /\ Enabling \cap Dropped = {}
      /\ "idle" \in PCs \ {"burn"} /\ "idle" \notin Switching /\ "idle" \notin Dropped
      /\ "member" \in Roles
  BY DEF PCs, Registering, Enabling, Switching, Dropped, Reverting, Opening, Dropping, Roles
<1>b. /\ Enabling = {"find", "migrate", "promote", "demote", "seed", "enable", "flip_org"}
      /\ Migrated = {"promote", "demote", "seed", "enable", "flip_org"}
      /\ \A pc \in Enabling : pc \notin {"close", "drop_shared", "close_mem", "open_mem"} \cup Dropped
  BY DEF Enabling, Migrated, Dropped
\* What the invariant says of p while it is enabling.
<1>c. ASSUME Undisturbed, req[p].pc \in Enabling
      PROVE  /\ req[p].pc # "flip_org" => Settled
             /\ req[p].pc = "flip_org" => Behind("organization")
             /\ req[p].pc \in Migrated => tables = OrgTables
             /\ mem.mode = "organization" /\ tables # OrgTables =>
                  db.mode = "personal" /\ "half_way" \in disturbed
  <2>1. Fits(req[p])
    BY <1>c DEF Undisturbed
  <2>2. Quiet(Dropped)
    <3>1. Dropped \subseteq Switching
      BY DEF Dropped, Switching, Reverting, Dropping
    <3> QED
      BY <1>a, <1>c, <3>1 DEF Undisturbed, Quiet
  <2> QED
    BY <1>b, <1>c, <2>1, <2>2 DEF Fits, Undisturbed
<1>d. ASSUME NEW pc \in Enabling, req'[p].pc = pc,
             pc # "flip_org" => Settled',
             pc = "flip_org" => Behind("organization")',
             pc \in Migrated => tables' = OrgTables
      PROVE  Fits(req[p])'
  BY <1>b, <1>d DEF Fits, Dropped
<1> USE DEF Settled, Behind
<1>1. ASSUME BeginEnable(p) PROVE IInv'
  <2>1. PICK u \in Accounts : BeginSwitch(p, [AtRest EXCEPT !.pc = "find", !.actor = u])
    BY <1>1 DEF BeginEnable
  <2> DEFINE r == [AtRest EXCEPT !.pc = "find", !.actor = u]
  <2>2. r \in Request /\ r.pc = "find" /\ r.inv = NoInvite
    BY IdleIsARequest DEF Request, AtRest, Accounts, Switching, Enabling
  <2> HIDE DEF r
  <2> QED
    BY <2>1, <2>2, BeginSwitchKeeps DEF r
<1>2. ASSUME FindActor(p) PROVE IInv'
  <2>1. UNCHANGED <<role, created, db, mem, tables, policy, invite, disturbed, admitted, unburnt>>
        /\ req[p].pc = "find" /\ (Answer(p) \/ Goto(p, "migrate"))
    BY <1>2 DEF FindActor, accounts, settings, organization, history, At
  <2>2. DataOK'
    BY <1>0, <2>1 DEF DataOK
  <2>3. CASE Answer(p)
    <3>1. Moves(p, "idle", NoInvite, FALSE)
      BY <1>0, <2>3, AnswerMoves
    <3> QED
      BY <1>a, <1>b, <1>c, <2>1, <2>2, <3>1, SwitchStepKeeps
  <2>4. CASE Goto(p, "migrate")
    <3>1. Moves(p, "migrate", req[p].inv, req[p].val)
      BY <1>0, <1>a, <1>b, <2>4, GotoMoves
    <3>2. Undisturbed => Fits(req[p])'
      BY <1>b, <1>c, <1>d, <2>1, <3>1 DEF Moves
    <3> QED
      BY <1>a, <1>b, <1>c, <2>1, <2>2, <3>1, <3>2, SwitchStepKeeps
  <2> QED
    BY <2>1, <2>3, <2>4
<1>3. ASSUME MigrateOrg(p) PROVE IInv'
  <2>1. UNCHANGED <<role, created, db, mem, policy, invite, disturbed, admitted, unburnt>>
        /\ req[p].pc = "migrate" /\ Goto(p, "promote") /\ tables' = OrgTables
    BY <1>3 DEF MigrateOrg, accounts, settings, history, At
  <2>2. DataOK'
    BY <1>0, <2>1 DEF DataOK, OrgTables
  <2>3. Moves(p, "promote", req[p].inv, req[p].val)
    BY <1>0, <1>a, <1>b, <2>1, GotoMoves
  <2>4. Undisturbed => Fits(req[p])'
    BY <1>b, <1>c, <1>d, <2>1, <2>3 DEF Moves
  <2> QED
    BY <1>a, <1>b, <2>1, <2>2, <2>3, <2>4, SwitchStepKeeps
<1>4. ASSUME PromoteActor(p) PROVE IInv'
  <2>1. UNCHANGED <<created, db, mem, tables, policy, invite, disturbed, admitted, unburnt>>
        /\ req[p].pc = "promote"
    BY <1>4 DEF PromoteActor, settings, organization, history, At
  <2>2. CASE req[p].actor \in Accounts
    <3>1. role' = [role EXCEPT ![req[p].actor] = "owner"] /\ Goto(p, "demote")
      BY <1>4, <2>2 DEF PromoteActor
    <3>2. DataOK'
      BY <1>0, <2>1, <2>2, <3>1 DEF DataOK, Accounts, Roles
    <3>3. Moves(p, "demote", req[p].inv, req[p].val)
      BY <1>0, <1>a, <1>b, <3>1, GotoMoves
    <3>4. Undisturbed => Fits(req[p])'
      BY <1>b, <1>c, <1>d, <2>1, <3>3 DEF Moves
    <3> QED
      BY <1>a, <1>b, <1>c, <2>1, <3>2, <3>3, <3>4, SwitchStepKeeps
  <2>3. CASE req[p].actor \notin Accounts
    <3>1. Answer(p) /\ UNCHANGED role
      BY <1>4, <2>3 DEF PromoteActor
    <3>2. DataOK'
      BY <1>0, <2>1, <3>1 DEF DataOK
    <3>3. Moves(p, "idle", NoInvite, FALSE)
      BY <1>0, <3>1, AnswerMoves
    <3> QED
      BY <1>a, <1>b, <1>c, <2>1, <3>2, <3>3, SwitchStepKeeps
  <2> QED
    BY <2>2, <2>3
<1>5. ASSUME DemoteOthers(p) PROVE IInv'
  <2>1. UNCHANGED <<created, db, mem, tables, policy, invite, disturbed, admitted, unburnt>>
        /\ req[p].pc = "demote" /\ Become(p, "seed", "member")
        /\ role' = [u \in Users |-> IF role[u] = "owner" /\ u # req[p].actor
                                   THEN "admin" ELSE role[u]]
    BY <1>5 DEF DemoteOthers, settings, organization, history, At
  <2>2. DataOK'
    BY <1>0, <2>1 DEF DataOK, Roles
  <2>3. Moves(p, "seed", NoInvite, FALSE)
    BY <1>0, <1>a, <1>b, <2>1, BecomeMoves
  <2>4. Undisturbed => Fits(req[p])'
    BY <1>b, <1>c, <1>d, <2>1, <2>3 DEF Moves
  <2> QED
    BY <1>a, <1>b, <1>c, <2>1, <2>2, <2>3, <2>4, SwitchStepKeeps
<1>6. ASSUME SeedOrganization(p) PROVE IInv'
  <2>1. UNCHANGED <<role, created, db, mem, tables, invite, disturbed, admitted, unburnt>>
        /\ req[p].pc = "seed" /\ Goto(p, "enable")
        /\ (policy' = policy \/ (policy' = "invite" /\ "organization" \in tables))
    BY <1>6 DEF SeedOrganization, accounts, settings, history, At
  <2>2. DataOK'
    BY <1>0, <2>1 DEF DataOK
  <2>3. Moves(p, "enable", req[p].inv, req[p].val)
    BY <1>0, <1>a, <1>b, <2>1, GotoMoves
  <2>4. Undisturbed => Fits(req[p])'
    BY <1>b, <1>c, <1>d, <2>1, <2>3 DEF Moves
  <2> QED
    BY <1>a, <1>b, <1>c, <2>1, <2>2, <2>3, <2>4, SwitchStepKeeps
<1>7. ASSUME PersistOrganization(p) PROVE IInv'
  <2>1. UNCHANGED <<role, created, mem, tables, policy, invite, disturbed, admitted, unburnt>>
        /\ req[p].pc = "enable" /\ Goto(p, "flip_org")
        /\ db' = [db EXCEPT !.mode = "organization"]
    BY <1>7 DEF PersistOrganization, accounts, organization, history, At
  <2>2. DataOK'
    BY <1>0, <2>1 DEF DataOK, Modes
  <2>3. Moves(p, "flip_org", req[p].inv, req[p].val)
    BY <1>0, <1>a, <1>b, <2>1, GotoMoves
  <2>4. Undisturbed => Fits(req[p])'
    BY <1>b, <1>c, <1>d, <2>1, <2>3 DEF Moves
  <2> QED
    BY <1>a, <1>b, <1>c, <2>1, <2>2, <2>3, <2>4, SwitchStepKeeps
<1>8. ASSUME FlipToOrganization(p) PROVE IInv'
  <2>1. UNCHANGED <<role, created, db, tables, policy, invite, disturbed, admitted, unburnt>>
        /\ req[p].pc = "flip_org" /\ Answer(p)
        /\ mem' = [mem EXCEPT !.mode = "organization"]
    BY <1>8 DEF FlipToOrganization, accounts, organization, history, At
  <2>2. DataOK'
    BY <1>0, <2>1 DEF DataOK, Modes
  <2>3. Moves(p, "idle", NoInvite, FALSE)
    BY <1>0, <2>1, AnswerMoves
  <2>4. Undisturbed => Behind("organization") /\ tables = OrgTables
    BY <1>b, <1>c, <2>1
  <2>5. Undisturbed => Settled'
    BY <1>0, <2>1, <2>4 DEF Settled, Behind, DataOK
  <2> QED
    BY <1>a, <1>b, <2>1, <2>2, <2>3, <2>4, <2>5, SwitchStepKeeps
<1> QED
  BY <1>1, <1>2, <1>3, <1>4, <1>5, <1>6, <1>7, <1>8

LEMMA RevertingKeeps ==
  ASSUME IInv, NEW p \in Procs
  PROVE  /\ BeginRevert(p) => IInv'
         /\ PurgeOthers(p) => IInv'
         /\ StepDown(p) => IInv'
         /\ PersistPersonal(p) => IInv'
         /\ DropTable(p) => IInv'
         /\ FlipToPersonal(p) => IInv'
         /\ BeginOpening(p) => IInv'
         /\ StoreOpen(p) => IInv'
         /\ RememberOpen(p) => IInv'
<1>0. req \in [Procs -> Request] /\ req[p] \in Request /\ DataOK
  BY DEF IInv, Types, RequestsOK
<1> DEFINE Ours == Reverting \cup Opening
<1>a. /\ Ours \subseteq PCs \ {"burn"} /\ Ours \subseteq Switching
      /\ "idle" \in PCs \ {"burn"} /\ "idle" \notin Switching /\ "idle" \notin Dropped
      /\ "member" \in Roles
  <2>1. Ours \subseteq Switching
    BY DEF Switching
  <2>2. "burn" \notin Ours
    BY DEF Reverting, Opening, Dropping
  <2>3. "idle" \notin Switching /\ "idle" \notin Dropped
    BY DEF Switching, Enabling, Dropped, Reverting, Opening, Dropping
  <2> QED
    BY <2>1, <2>2, <2>3 DEF PCs, Roles
<1>b. /\ Ours = {"purge", "step_down", "revert", "close", "close_mem", "drop_shared",
                 "drop_invite", "drop_organization", "flip_personal", "open", "open_mem"}
      /\ Dropped = {"drop_invite", "drop_organization", "flip_personal"}
      /\ Migrated \cap Ours = {}
  BY DEF Reverting, Opening, Dropping, Dropped, Migrated
\* What the invariant says of p while it is reverting or opening.
<1>c. ASSUME Undisturbed, req[p].pc \in Ours
      PROVE  /\ req[p].pc \in {"purge", "step_down", "revert", "open"} => Settled
             /\ req[p].pc \in {"close", "drop_shared"} \cup Dropped => Behind("personal")
             /\ req[p].pc = "close_mem" => db = [mode |-> "personal", open |-> req[p].val]
             /\ req[p].pc = "open_mem" => Opened(req[p].val)
             /\ mem.mode = "organization" /\ tables # OrgTables =>
                  db.mode = "personal" /\ ("half_way" \in disturbed \/ req[p].pc \in Dropped)
  <2>1. Fits(req[p])
    BY <1>c DEF Undisturbed
  <2>2. Quiet(Dropped) \/ req[p].pc \in Dropped
    <3>1. Dropped \subseteq Switching
      BY DEF Dropped, Switching, Reverting, Dropping
    <3> QED
      BY <1>a, <1>c, <3>1 DEF Undisturbed, Quiet
  <2> QED
    BY <1>b, <1>c, <2>1, <2>2 DEF Fits, Undisturbed
<1>d. ASSUME NEW pc \in Ours, req'[p].pc = pc,
             pc \in {"purge", "step_down", "revert", "open"} => Settled',
             pc \in {"close", "drop_shared"} \cup Dropped => Behind("personal")',
             pc = "close_mem" => db' = [mode |-> "personal", open |-> req'[p].val],
             pc = "open_mem" => Opened(req[p].val)'
      PROVE  Fits(req[p])'
  BY <1>b, <1>d DEF Fits, Opened
<1> HIDE DEF Ours
<1> USE DEF Settled, Behind, Opened
<1>1. ASSUME BeginRevert(p) PROVE IInv'
  <2>1. PICK u \in Accounts : BeginSwitch(p, [AtRest EXCEPT !.pc = "purge", !.actor = u])
    BY <1>1 DEF BeginRevert
  <2> DEFINE r == [AtRest EXCEPT !.pc = "purge", !.actor = u]
  <2>2. r \in Request /\ r.pc = "purge" /\ r.inv = NoInvite
    BY IdleIsARequest DEF Request, AtRest, Accounts, Switching, Reverting
  <2> HIDE DEF r
  <2> QED
    BY <2>1, <2>2, BeginSwitchKeeps DEF r
<1>2. ASSUME PurgeOthers(p) PROVE IInv'
  <2>1. UNCHANGED <<created, db, mem, tables, policy, invite, disturbed, admitted, unburnt>>
        /\ req[p].pc = "purge" /\ Goto(p, "step_down")
        /\ role' = [u \in Users |-> IF u = req[p].actor THEN role[u] ELSE "none"]
    BY <1>2 DEF PurgeOthers, settings, organization, history, At
  <2>2. DataOK'
    BY <1>0, <2>1 DEF DataOK
  <2>3. Moves(p, "step_down", req[p].inv, req[p].val)
    BY <1>0, <1>a, <1>b, <2>1, GotoMoves
  <2>4. Undisturbed => Fits(req[p])'
    BY <1>b, <1>c, <1>d, <2>1, <2>3 DEF Moves
  <2> QED
    BY <1>a, <1>b, <1>c, <2>1, <2>2, <2>3, <2>4, SwitchStepKeeps
<1>3. ASSUME StepDown(p) PROVE IInv'
  <2>1. UNCHANGED <<created, db, mem, tables, policy, invite, disturbed, admitted, unburnt>>
        /\ req[p].pc = "step_down" /\ Become(p, "revert", "member")
        /\ \/ role' = [u \in Users |-> IF u = req[p].actor /\ u \in Accounts
                                      THEN "member" ELSE role[u]]
           \/ role' = role
    BY <1>3 DEF StepDown, settings, organization, history, At
  <2>2. DataOK'
    BY <1>0, <2>1 DEF DataOK, Accounts, Roles
  <2>3. Moves(p, "revert", NoInvite, FALSE)
    BY <1>0, <1>a, <1>b, <2>1, BecomeMoves
  <2>4. Undisturbed => Fits(req[p])'
    BY <1>b, <1>c, <1>d, <2>1, <2>3 DEF Moves
  <2> QED
    BY <1>a, <1>b, <1>c, <2>1, <2>2, <2>3, <2>4, SwitchStepKeeps
<1>4. ASSUME PersistPersonal(p) PROVE IInv'
  <2>1. UNCHANGED <<role, created, mem, tables, policy, invite, disturbed, admitted, unburnt>>
        /\ req[p].pc = "revert"
    BY <1>4 DEF PersistPersonal, accounts, organization, history, At
  <2>2. CASE mem.mode = "organization"
    <3>1. db' = [db EXCEPT !.mode = "personal"] /\ Goto(p, "close")
      BY <1>4, <2>2 DEF PersistPersonal
    <3>2. DataOK'
      BY <1>0, <2>1, <3>1 DEF DataOK, Modes
    <3>3. Moves(p, "close", req[p].inv, req[p].val)
      BY <1>0, <1>a, <1>b, <3>1, GotoMoves
    <3>4. Undisturbed => Behind("personal")'
      BY <1>0, <1>b, <1>c, <2>1, <2>2, <3>1 DEF DataOK
    <3>5. Undisturbed => Fits(req[p])'
      BY <1>b, <1>d, <3>3, <3>4 DEF Moves
    <3>6. Undisturbed /\ mem'.mode = "organization" /\ tables' # OrgTables =>
            db'.mode = "personal" /\ "half_way" \in disturbed'
      BY <1>b, <1>c, <2>1, <3>4
    <3> QED
      BY <1>a, <1>b, <2>1, <3>2, <3>3, <3>5, <3>6, SwitchStepKeeps
  <2>3. CASE mem.mode # "organization"
    <3>1. db' = db /\ Answer(p)
      BY <1>4, <2>3 DEF PersistPersonal
    <3>2. DataOK'
      BY <1>0, <2>1, <3>1 DEF DataOK
    <3>3. Moves(p, "idle", NoInvite, FALSE)
      BY <1>0, <3>1, AnswerMoves
    <3> QED
      BY <1>a, <1>b, <1>c, <2>1, <3>1, <3>2, <3>3, SwitchStepKeeps
  <2> QED
    BY <2>2, <2>3
<1>5. ASSUME DropTable(p) PROVE IInv'
  <2>1. UNCHANGED <<role, created, db, mem, disturbed, admitted, unburnt>>
    BY <1>5 DEF DropTable, accounts, settings, history
  <2>2. CASE At(p, "drop_shared") /\ Goto(p, "drop_invite")
             /\ tables' = tables \ {"shared"} /\ UNCHANGED <<invite, policy>>
    <3>1. DataOK'
      BY <1>0, <2>1, <2>2 DEF DataOK
    <3>2. Moves(p, "drop_invite", req[p].inv, req[p].val)
      BY <1>0, <1>a, <1>b, <2>2, GotoMoves
    <3>3. Undisturbed => Fits(req[p])'
      BY <1>b, <1>c, <1>d, <2>1, <2>2, <3>2 DEF Moves, At
    <3>4. Undisturbed => db'.mode = "personal"
      BY <1>b, <1>c, <2>1, <2>2 DEF At
    <3> QED
      BY <1>a, <1>b, <2>1, <2>2, <3>1, <3>2, <3>3, <3>4, SwitchStepKeeps DEF At
  <2>3. CASE At(p, "drop_invite") /\ Goto(p, "drop_organization")
             /\ tables' = tables \ {"invite"} /\ Deleted(Born) /\ UNCHANGED policy
    <3>1. \A i \in Invites : \/ invite[i] = "unborn" /\ invite'[i] = "unborn"
                             \/ invite[i] # "unborn" /\ invite'[i] = "gone"
      BY <2>3 DEF Deleted, Born
    <3>2. DataOK'
      BY <1>0, <2>1, <2>3, <3>1 DEF DataOK, Deleted
    <3>3. Moves(p, "drop_organization", req[p].inv, req[p].val)
      BY <1>0, <1>a, <1>b, <2>3, GotoMoves
    <3>4. Undisturbed => Fits(req[p])'
      BY <1>b, <1>c, <1>d, <2>1, <2>3, <3>3 DEF Moves, At
    <3>5. "overlap" \notin disturbed' => Undisturbed'
      <4>1. Undisturbed => db'.mode = "personal"
        BY <1>b, <1>c, <2>1, <2>3 DEF At
      <4> QED
        BY <1>a, <1>b, <2>1, <2>3, <3>3, <3>4, <4>1, SwitchKeeps DEF IInv, At
    <3>6. RequestsOK'
      <4>1. req[p].inv # NoInvite => invite'[req[p].inv] # "unborn"
        BY <1>0, <3>1 DEF IInv, Types, RequestsOK, Request
      <4> QED
        BY <3>1, <3>3, <4>1, RequestsKeep DEF IInv
    <3>7. Spent' /\ Counted'
      BY <2>1, <3>1 DEF IInv, Types, Counted, Spent
    <3> QED
      BY <3>2, <3>5, <3>6, <3>7 DEF IInv, Types
  <2>4. CASE At(p, "drop_organization") /\ Goto(p, "flip_personal")
             /\ tables' = tables \ {"organization"} /\ policy' = "none" /\ UNCHANGED invite
    <3>1. DataOK'
      BY <1>0, <2>1, <2>4 DEF DataOK
    <3>2. Moves(p, "flip_personal", req[p].inv, req[p].val)
      BY <1>0, <1>a, <1>b, <2>4, GotoMoves
    <3>3. Undisturbed => Fits(req[p])'
      BY <1>b, <1>c, <1>d, <2>1, <2>4, <3>2 DEF Moves, At
    <3>4. Undisturbed => db'.mode = "personal"
      BY <1>b, <1>c, <2>1, <2>4 DEF At
    <3> QED
      BY <1>a, <1>b, <2>1, <2>4, <3>1, <3>2, <3>3, <3>4, SwitchStepKeeps DEF At
  <2> QED
    BY <1>5, <2>2, <2>3, <2>4, Zenon DEF DropTable
<1>6. ASSUME FlipToPersonal(p) PROVE IInv'
  <2>1. UNCHANGED <<role, created, db, tables, policy, invite, disturbed, admitted, unburnt>>
        /\ req[p].pc = "flip_personal" /\ Answer(p)
        /\ mem' = [mem EXCEPT !.mode = "personal"]
    BY <1>6 DEF FlipToPersonal, accounts, organization, history, At
  <2>2. DataOK'
    BY <1>0, <2>1 DEF DataOK, Modes
  <2>3. Moves(p, "idle", NoInvite, FALSE)
    BY <1>0, <2>1, AnswerMoves
  <2>4. mem'.mode = "personal" /\ (Undisturbed => Settled')
    BY <1>0, <1>b, <1>c, <2>1 DEF DataOK
  <2> QED
    BY <1>a, <1>b, <2>1, <2>2, <2>3, <2>4, SwitchStepKeeps
<1>7. ASSUME BeginOpening(p) PROVE IInv'
  <2>1. PICK u \in Accounts, val \in BOOLEAN :
          BeginSwitch(p, [AtRest EXCEPT !.pc = "open", !.val = val])
    BY <1>7 DEF BeginOpening
  <2> DEFINE r == [AtRest EXCEPT !.pc = "open", !.val = val]
  <2>2. r \in Request /\ r.pc = "open" /\ r.inv = NoInvite
    BY IdleIsARequest DEF Request, AtRest, Switching, Opening
  <2> HIDE DEF r
  <2> QED
    BY <2>1, <2>2, BeginSwitchKeeps DEF r
<1>8. ASSUME StoreOpen(p) PROVE IInv'
  <2>1. UNCHANGED <<role, created, mem, tables, policy, invite, disturbed, admitted, unburnt>>
        /\ db' = [db EXCEPT !.open = req[p].val]
    BY <1>8 DEF StoreOpen, accounts, organization, history
  <2>2. DataOK'
    BY <1>0, <2>1 DEF DataOK, Request
  <2>3. CASE At(p, "open") /\ Goto(p, "open_mem")
    <3>1. Moves(p, "open_mem", req[p].inv, req[p].val)
      BY <1>0, <1>a, <1>b, <2>3, GotoMoves
    <3>2. Undisturbed => Opened(req[p].val)'
      <4>1. db'.open = req[p].val /\ db'.mode = db.mode /\ req'[p].val = req[p].val
        BY <1>0, <2>1, <3>1 DEF DataOK, Moves
      <4>2. Undisturbed => Settled
        BY <1>b, <1>c, <2>3 DEF At
      <4> QED
        BY <1>0, <2>1, <4>1, <4>2 DEF DataOK
    <3>3. Undisturbed => Fits(req[p])'
      BY <1>b, <1>d, <3>1, <3>2 DEF Moves
    <3>4. Undisturbed /\ mem'.mode = "organization" /\ tables' # OrgTables =>
            db'.mode = "personal" /\ "half_way" \in disturbed'
      BY <1>0, <1>b, <1>c, <2>1, <2>3 DEF At, DataOK
    <3> QED
      BY <1>a, <1>b, <2>1, <2>2, <2>3, <3>1, <3>3, <3>4, SwitchStepKeeps DEF At
  <2>4. CASE At(p, "close") /\ Goto(p, "close_mem")
    <3>1. Moves(p, "close_mem", req[p].inv, req[p].val)
      BY <1>0, <1>a, <1>b, <2>4, GotoMoves
    <3>2. Undisturbed => db' = [mode |-> "personal", open |-> req'[p].val]
      BY <1>0, <1>b, <1>c, <2>1, <2>4, <3>1 DEF Moves, At, DataOK
    <3>3. Undisturbed => Fits(req[p])'
      BY <1>b, <1>d, <3>1, <3>2 DEF Moves
    <3>4. Undisturbed /\ mem'.mode = "organization" /\ tables' # OrgTables =>
            db'.mode = "personal" /\ "half_way" \in disturbed'
      BY <1>0, <1>b, <1>c, <2>1, <2>4 DEF At, DataOK
    <3> QED
      BY <1>a, <1>b, <2>1, <2>2, <2>4, <3>1, <3>3, <3>4, SwitchStepKeeps DEF At
  <2> QED
    BY <1>8, <2>3, <2>4 DEF StoreOpen
<1>9. ASSUME RememberOpen(p) PROVE IInv'
  <2>1. UNCHANGED <<role, created, db, tables, policy, invite, disturbed, admitted, unburnt>>
        /\ mem' = [mem EXCEPT !.open = req[p].val]
    BY <1>9 DEF RememberOpen, accounts, organization, history
  <2>2. DataOK' /\ mem'.mode = mem.mode
    BY <1>0, <2>1 DEF DataOK, Request
  <2>3. CASE At(p, "open_mem") /\ Answer(p)
    <3>1. Moves(p, "idle", NoInvite, FALSE)
      BY <1>0, <2>3, AnswerMoves
    <3>2. Undisturbed => Settled'
      <4>1. Undisturbed => Opened(req[p].val)
        BY <1>b, <1>c, <2>3 DEF At
      <4> QED
        BY <1>0, <2>1, <2>2, <4>1 DEF DataOK
    <3>3. Undisturbed /\ mem'.mode = "organization" /\ tables' # OrgTables =>
            db'.mode = "personal" /\ "half_way" \in disturbed'
      BY <1>b, <1>c, <2>1, <2>2, <2>3 DEF At
    <3> QED
      BY <1>a, <1>b, <2>1, <2>2, <2>3, <3>1, <3>2, <3>3, SwitchStepKeeps DEF At
  <2>4. CASE At(p, "close_mem") /\ Goto(p, "drop_shared")
    <3>1. Moves(p, "drop_shared", req[p].inv, req[p].val)
      BY <1>0, <1>a, <1>b, <2>4, GotoMoves
    <3>2. Undisturbed => Behind("personal")'
      <4>1. mem' \in [mode : Modes, open : BOOLEAN] /\ mem'.open = req[p].val
        BY <1>0, <2>1, <2>2 DEF DataOK
      <4>2. Undisturbed => db = [mode |-> "personal", open |-> req[p].val]
        BY <1>b, <1>c, <2>4 DEF At
      <4>3. [mem' EXCEPT !.mode = "personal"] = [mode |-> "personal", open |-> req[p].val]
        BY <4>1
      <4> QED
        BY <2>1, <4>1, <4>2, <4>3
    <3>3. Undisturbed => Fits(req[p])'
      BY <1>b, <1>d, <3>1, <3>2 DEF Moves
    <3>4. Undisturbed /\ mem'.mode = "organization" /\ tables' # OrgTables =>
            db'.mode = "personal" /\ "half_way" \in disturbed'
      BY <1>b, <1>c, <2>1, <2>2, <2>4 DEF At
    <3> QED
      BY <1>a, <1>b, <2>1, <2>2, <2>4, <3>1, <3>3, <3>4, SwitchStepKeeps DEF At
  <2> QED
    BY <1>9, <2>3, <2>4 DEF RememberOpen
<1> QED
  BY <1>1, <1>2, <1>3, <1>4, <1>5, <1>6, <1>7, <1>8, <1>9

-----------------------------------------------------------------------------
(* Failing statements, restarts and the passing of time *)

LEMMA StatementFailsKeeps ==
  ASSUME IInv, NEW p \in Procs, StatementFails(p)
  PROVE  IInv'
<1>0. req \in [Procs -> Request] /\ req[p] \in Request /\ DataOK
  BY DEF IInv, Types, RequestsOK
<1>1. /\ req[p].pc \notin {"idle", "gate", "policy", "seed", "step_down", "flip_org",
                          "flip_personal", "open_mem", "close_mem"}
      /\ Answer(p)
      /\ tables \subseteq tables' /\ tables' \subseteq tables \cup OrgTables
      /\ disturbed' = IF req[p].pc \in {"close"} \cup Dropping /\ "overlap" \notin disturbed
                      THEN disturbed \cup {"half_way"} ELSE disturbed
      /\ unburnt' = unburnt \cup (IF At(p, "burn") THEN {req[p].inv} ELSE {})
      /\ UNCHANGED <<role, created, db, mem, policy, invite, admitted>>
  BY DEF StatementFails, accounts, settings, Prefixes, OrgTables
<1>2. Moves(p, "idle", NoInvite, FALSE)
  BY <1>0, <1>1, AnswerMoves
<1>3. DataOK' /\ Counted'
  <2>1. At(p, "burn") => req[p].inv \in Invites
    BY <1>0 DEF IInv, Types, RequestsOK, Registered, Request
  <2> QED
    BY <1>0, <1>1, <2>1 DEF DataOK, Disturbances, IInv, Types, Counted
<1>4. RequestsOK'
  BY <1>1, <1>2, RequestsKeep DEF IInv
<1>5. Spent'
  <2>1. ASSUME NEW i \in Invites, Burning(i) PROVE i \in unburnt' \/ Burning(i)'
    <3>1. PICK q \in Procs : At(q, "burn") /\ req[q].inv = i
      BY <2>1 DEF Burning
    <3>2. CASE q = p
      BY <1>1, <3>1, <3>2
    <3>3. CASE q # p
      BY <1>2, <3>1, <3>3 DEF Moves, Burning, At
    <3> QED
      BY <3>2, <3>3
  <2> QED
    BY <1>1, <2>1 DEF IInv, Spent
<1>6. "overlap" \notin disturbed' => Undisturbed'
  <2> SUFFICES ASSUME "overlap" \notin disturbed' PROVE Undisturbed'
    BY Zenon
  <2>1. Undisturbed /\ "overlap" \notin disturbed /\ disturbed \subseteq disturbed'
    BY <1>1 DEF IInv
  <2>2. \A q \in Procs : req'[q] = req[q] \/ (q = p /\ req'[q].pc = "idle")
    BY <1>2 DEF Moves
  <2>3. \A q \in Procs : Fits(req[q])'
    <3> SUFFICES ASSUME NEW q \in Procs PROVE Fits(req[q])'
      OBVIOUS
    <3>1. CASE req'[q] = req[q]
      <4>1. Fits(req[q])
        BY <2>1 DEF Undisturbed
      <4>2. tables = OrgTables => tables' = OrgTables
        BY <1>1
      <4> QED
        BY <1>1, <2>1, <3>1, <4>1, <4>2 DEF Fits, Settled, Behind, Opened
    <3>2. CASE req'[q].pc = "idle"
      BY <3>2 DEF Fits, Migrated, Dropped
    <3> QED
      BY <2>2, <3>1, <3>2
  <2>4. "idle" \notin Switching
    BY DEF Switching, Enabling, Reverting, Opening, Dropping
  <2>5. Quiet(Switching)' => Settled'
    <3>1. CASE req[p].pc \in Switching
      <4>1. Fits(req[p])
        BY <2>1 DEF Undisturbed
      <4>2. \/ req[p].pc \in {"find", "migrate", "promote", "demote", "enable", "purge",
                              "revert", "open"}
            \/ req[p].pc \in {"close"} \cup Dropping
        BY <1>1, <3>1 DEF Switching, Enabling, Reverting, Opening, Dropping
      <4>3. CASE req[p].pc \in {"close"} \cup Dropping
        <5>1. Behind("personal") /\ "half_way" \in disturbed'
          BY <1>1, <2>1, <4>1, <4>3 DEF Fits, Dropping, Dropped
        <5> QED
          BY <1>1, <5>1 DEF Settled, Behind
      <4>4. CASE req[p].pc \notin {"close"} \cup Dropping
        <5>1. Settled /\ disturbed' = disturbed
          BY <1>1, <4>1, <4>2, <4>4 DEF Fits
        <5> QED
          BY <1>1, <5>1 DEF Settled
      <4> QED
        BY <4>3, <4>4
    <3>2. CASE req[p].pc \notin Switching
      <4>1. Quiet(Switching)' => Quiet(Switching)
        BY <2>2, <3>2 DEF Quiet
      <4> QED
        BY <1>1, <2>1, <4>1 DEF Undisturbed, Settled
    <3> QED
      BY <3>1, <3>2
  <2>6. Quiet(Dropped)' => Quiet(Dropped) \/ "half_way" \in disturbed'
    <3>1. req[p].pc \in Dropped => "half_way" \in disturbed'
      BY <1>1, <2>1 DEF Dropped, Dropping
    <3> QED
      BY <2>2, <3>1 DEF Quiet
  <2>7. mem'.mode = "organization" /\ tables' # OrgTables =>
          db'.mode = "personal" /\ ("half_way" \in disturbed' \/ ~Quiet(Dropped)')
    <3>1. tables' # OrgTables => tables # OrgTables
      BY <1>1, <1>3 DEF DataOK
    <3> QED
      BY <1>1, <2>1, <2>6, <3>1 DEF Undisturbed
  <2>8. \A q, s \in Procs : req'[q].pc \in Switching /\ req'[s].pc \in Switching => q = s
    BY <2>1, <2>2, <2>4 DEF Undisturbed
  <2> QED
    BY <2>3, <2>5, <2>7, <2>8 DEF Undisturbed
<1> QED
  BY <1>3, <1>4, <1>5, <1>6 DEF IInv, Types

LEMMA RestartKeeps ==
  ASSUME IInv, Restart
  PROVE  IInv'
<1>0. req \in [Procs -> Request] /\ DataOK
  BY DEF IInv, Types, RequestsOK
<1>1. /\ mem' \in Readings
      /\ db' \in {db} \cup {[db EXCEPT !.mode = "organization"] : a \in {mem'} \cap {Adopted}}
      /\ disturbed' = {d \in {"misread"} : mem' # db}
      /\ mem'.mode = "organization" => tables' = OrgTables /\ EnsureOrgOwner
      /\ mem'.mode # "organization" => UNCHANGED <<tables, role>>
      /\ req' = [p \in Procs |-> AtRest]
      /\ unburnt' = unburnt \cup {req[p].inv : p \in {q \in Procs : At(q, "burn")}}
      /\ UNCHANGED <<created, policy, invite, admitted>>
  BY DEF Restart
<1>2. \A p \in Procs : req'[p] = AtRest
  BY <1>1
<1>3. DataOK' /\ Counted'
  <2>1. role' \in [Users -> Roles \cup {"none"}]
        /\ \A u \in Users : role'[u] # "none" => role[u] # "none"
    BY <1>0, <1>1 DEF EnsureOrgOwner, DataOK, IsFirst, Accounts, Roles
  <2>2. unburnt' \subseteq Invites
    <3>1. \A q \in Procs : At(q, "burn") => req[q].inv \in Invites
      BY <1>0 DEF IInv, Types, RequestsOK, Registered, Request
    <3>2. unburnt \subseteq Invites
      BY <1>0 DEF DataOK
    <3> QED
      BY <1>1, <3>1, <3>2
  <2>3. /\ disturbed' \in Disturbances
        /\ tables' \subseteq OrgTables /\ tables \subseteq tables'
        /\ UNCHANGED <<created, policy, invite, admitted>>
    BY <1>0, <1>1 DEF DataOK, Disturbances
  <2>4. mem' \in [mode : Modes, open : BOOLEAN]
    <3>1. Adopted \in [mode : Modes, open : BOOLEAN] /\ Defaults \in [mode : Modes, open : BOOLEAN]
      BY DEF Adopted, Defaults, Modes
    <3>2. db \in [mode : Modes, open : BOOLEAN]
      BY <1>0 DEF DataOK
    <3> QED
      BY <1>1, <3>1, <3>2 DEF Readings
  <2>5. db' \in [mode : Modes, open : BOOLEAN]
    <3>1. db' = db \/ db' = [db EXCEPT !.mode = "organization"]
      BY <1>1
    <3> QED
      BY <1>0, <3>1 DEF DataOK, Modes
  <2> QED
    BY <1>0, <2>1, <2>2, <2>3, <2>4, <2>5 DEF DataOK, IInv, Types, Counted
<1>4. RequestsOK'
  BY <1>1, <1>2, IdleIsARequest DEF RequestsOK, Registered, At, AtRest
<1>5. Spent'
  <2>1. ASSUME NEW i \in Invites, Burning(i) PROVE i \in unburnt'
    BY <1>1, <2>1 DEF Burning
  <2> QED
    BY <1>1, <2>1 DEF IInv, Spent
<1>6. Undisturbed'
  <2>1. \A p \in Procs : req'[p].pc \notin Switching /\ Fits(req[p])'
    BY <1>2 DEF AtRest, Switching, Enabling, Reverting, Opening, Dropping, Fits, Migrated, Dropped
  <2>2. Settled'
    <3>1. mem' = db => db' = mem'
      BY <1>0, <1>1 DEF DataOK, Adopted
    <3>2. mem' # db => "misread" \in disturbed' /\ ~mem'.open
      BY <1>1 DEF Readings, Adopted, Defaults
    <3> QED
      BY <3>1, <3>2 DEF Settled
  <2> QED
    BY <1>1, <2>1, <2>2 DEF Undisturbed
<1> QED
  BY <1>3, <1>4, <1>5, <1>6 DEF IInv, Types

LEMMA ExpireKeeps ==
  ASSUME IInv, Expire
  PROVE  IInv'
<1>1. PICK i \in Invites : invite[i] = "pending" /\ invite' = [invite EXCEPT ![i] = "expired"]
  BY DEF Expire
<1>2. UNCHANGED <<role, created, db, mem, tables, policy, req, disturbed, admitted, unburnt>>
  BY DEF Expire, accounts, settings, history
<1>3. /\ invite' \in [Invites -> {"unborn", "pending", "used", "expired", "gone"}]
      /\ \A j \in Invites : invite'[j] = invite[j] \/ (j = i /\ invite'[j] = "expired")
  BY <1>1 DEF IInv, Types, DataOK
<1>4. DataOK' /\ Counted'
  BY <1>1, <1>2, <1>3 DEF IInv, Types, DataOK, Counted
<1>5. RequestsOK'
  <2>1. \A p \in Procs : req[p].inv \in Invites \cup {NoInvite}
    BY DEF IInv, Types, RequestsOK, Request
  <2> QED
    BY <1>2, <1>3, <2>1 DEF IInv, Types, RequestsOK, Registered, At
<1>6. Spent'
  BY <1>2, <1>3 DEF IInv, Spent, Burning, At
<1>7. "overlap" \notin disturbed' => Undisturbed'
  BY <1>2 DEF IInv, Undisturbed, Quiet, Fits, Settled, Behind, Opened
<1> QED
  BY <1>4, <1>5, <1>6, <1>7 DEF IInv, Types

-----------------------------------------------------------------------------
(* The invariant and the theorems *)

LEMMA InitIsGood == Init => IInv
<1> SUFFICES ASSUME Init PROVE IInv
  OBVIOUS
<1>1. Types
  <2>1. DataOK
    <3>1. db = [mode |-> "personal", open |-> FALSE] /\ mem = db
      BY DEF Init
    <3>2. created \in 0..MaxUsers
      BY InstanceAssumption DEF Init
    <3>3. db \in [mode : Modes, open : BOOLEAN] /\ mem \in [mode : Modes, open : BOOLEAN]
      BY <3>1 DEF Modes
    <3>4. role \in [Users -> Roles \cup {"none"}] /\ \A u \in Users : role[u] = "none"
      BY DEF Init
    <3>5. invite \in [Invites -> {"unborn", "pending", "used", "expired", "gone"}]
          /\ \A i \in Invites : invite[i] = "unborn"
      BY DEF Init
    <3>6. admitted \in [Invites -> 0..MaxUsers]
      BY InstanceAssumption DEF Init
    <3>7. tables = {} /\ policy = "none" /\ disturbed = {} /\ unburnt = {}
      BY DEF Init
    <3> QED
      BY <3>2, <3>3, <3>4, <3>5, <3>6, <3>7 DEF DataOK, Disturbances
  <2>4. Counted
    BY DEF Init, Counted
  <2>2. \A p \in Procs : req[p] = AtRest
    BY DEF Init
  <2>3. RequestsOK
    BY <2>2, IdleIsARequest DEF Init, RequestsOK, Registered, At, AtRest
  <2> QED
    BY <2>1, <2>3, <2>4 DEF Types
<1>2. Spent
  BY DEF Init, Spent
<1>3. Undisturbed
  <2>1. \A p \in Procs : req[p].pc \notin Switching /\ Fits(req[p])
    BY DEF Init, AtRest, Switching, Enabling, Reverting, Opening, Dropping, Fits, Migrated, Dropped
  <2> QED
    BY <2>1 DEF Init, Undisturbed, Settled
<1> QED
  BY <1>1, <1>2, <1>3 DEF IInv

LEMMA NextKeeps == IInv /\ [Next]_vars => IInv'
<1> SUFFICES ASSUME IInv, [Next]_vars PROVE IInv'
  OBVIOUS
<1>1. CASE UNCHANGED vars
  BY <1>1 DEF vars, IInv, Types, DataOK, RequestsOK, Registered, Counted, Spent, Burning,
              Undisturbed, Quiet, Fits, Settled, Behind, Opened, At
<1>2. CASE Next
  BY <1>2, RegistrationKeeps, ManagingKeeps, EnablingKeeps, RevertingKeeps, LeavingKeeps,
     StatementFailsKeeps, RestartKeeps, ExpireKeeps DEF Next
<1> QED
  BY <1>1, <1>2

LEMMA Invariance == Spec => []IInv
<1> QED
  BY InitIsGood, NextKeeps, PTL DEF Spec

\* Types: no row of an organization's table without the table, no account above the
\* counter, and no registration with an invite that was never minted.
THEOREM TypeCorrect == Spec => []TypeOK
<1>1. IInv => TypeOK
  BY DEF IInv, Types, DataOK, RequestsOK, TypeOK
<1> QED
  BY Invariance, <1>1, PTL

\* appmode.go:1: while no settings request is under way and none has overlapped
\* another since the last boot, memory and app_state are the same, or apart in the
\* one way that a boot which could not read app_state, or a revert which failed
\* half way, leaves behind; sign-up is never open in memory and closed in the row.
THEOREM SettingsAgreeHolds == Spec => []SettingsAgree
<1>1. IInv => SettingsAgree
  BY DEF IInv, Undisturbed, Settled, SettingsAgree
<1> QED
  BY Invariance, <1>1, PTL

\* appmode.go:91, 157-165: an organization that is served lacks a table only once
\* app_state says personal, and while or after a revert has dropped it.
THEOREM OrgTablesExistHolds == Spec => []OrgTablesExist
<1>1. IInv => OrgTablesExist
  <2>1. Quiet(Dropping \cup {"flip_personal"}) => Quiet(Dropped)
    BY DEF Quiet, Dropped, Dropping
  <2> QED
    BY <2>1 DEF IInv, Undisturbed, OrgTablesExist
<1> QED
  BY Invariance, <1>1, PTL

\* auth.go:194: an invite that has let an account in lets in another one only when
\* the two registrations overlap, or the write that burns it was lost.
THEOREM InviteSpentOnceHolds == Spec => InviteSpentOnce
<1>1. IInv /\ [Next]_vars => [InviteStep]_vars
  <2> SUFFICES ASSUME IInv, Next, NEW p \in Procs, At(p, "lookup"), req'[p].pc = "create",
                      admitted[req'[p].inv] > 0
               PROVE  req'[p].inv \in unburnt \/ Burning(req'[p].inv)
    BY DEF InviteStep, Burning
  <2>1. req \in [Procs -> Request]
    BY DEF IInv, Types, RequestsOK
  <2>2. ASSUME NEW q \in Procs, q # p,
               \/ CountUsers(q) \/ Gate(q) \/ ReadPolicy(q) \/ LookUp(q)
               \/ CreateAccount(q) \/ BurnInvite(q)
               \/ BeginManaging(q) \/ SetPolicy(q) \/ Mint(q) \/ DeleteInvites(q)
        PROVE  req'[p] = req[p]
    BY <2>1, <2>2 DEF CountUsers, Gate, ReadPolicy, LookUp, CreateAccount, BurnInvite,
       BeginManaging, SetPolicy, Mint, DeleteInvites, Answer, Become, Goto, Begin
  <2>3. ASSUME NEW q \in Procs, q # p,
               \/ BeginEnable(q) \/ FindActor(q) \/ MigrateOrg(q) \/ PromoteActor(q)
               \/ DemoteOthers(q) \/ SeedOrganization(q) \/ PersistOrganization(q)
               \/ FlipToOrganization(q)
        PROVE  req'[p] = req[p]
    BY <2>1, <2>3 DEF BeginEnable, FindActor, MigrateOrg, PromoteActor, DemoteOthers,
       SeedOrganization, PersistOrganization, FlipToOrganization, BeginSwitch,
       Answer, Become, Goto, Begin
  <2>4. ASSUME NEW q \in Procs, q # p,
               \/ BeginRevert(q) \/ PurgeOthers(q) \/ StepDown(q) \/ PersistPersonal(q)
               \/ DropTable(q) \/ FlipToPersonal(q)
               \/ BeginOpening(q) \/ StoreOpen(q) \/ RememberOpen(q)
               \/ BeginLeaving(q) \/ LeavingGuard(q) \/ Leave(q) \/ StatementFails(q)
        PROVE  req'[p] = req[p]
    BY <2>1, <2>4 DEF BeginRevert, PurgeOthers, StepDown, PersistPersonal, DropTable,
       FlipToPersonal, BeginOpening, StoreOpen, RememberOpen, BeginLeaving, LeavingGuard,
       Leave, StatementFails, BeginSwitch, Answer, Become, Goto, Begin
  <2>5. req'[p] # req[p] /\ req'[p] # AtRest
    BY DEF At, AtRest
  <2>6. ~StatementFails(p) /\ ~Expire /\ ~Restart
    BY <2>1, <2>5 DEF StatementFails, Answer, Expire, Restart
  <2>7. LookUp(p)
    <3>1. PICK q \in Procs :
            \/ CountUsers(q) \/ Gate(q) \/ ReadPolicy(q) \/ LookUp(q)
            \/ CreateAccount(q) \/ BurnInvite(q)
            \/ BeginManaging(q) \/ SetPolicy(q) \/ Mint(q) \/ DeleteInvites(q)
            \/ BeginEnable(q) \/ FindActor(q) \/ MigrateOrg(q) \/ PromoteActor(q)
            \/ DemoteOthers(q) \/ SeedOrganization(q) \/ PersistOrganization(q)
            \/ FlipToOrganization(q)
            \/ BeginRevert(q) \/ PurgeOthers(q) \/ StepDown(q) \/ PersistPersonal(q)
            \/ DropTable(q) \/ FlipToPersonal(q)
            \/ BeginOpening(q) \/ StoreOpen(q) \/ RememberOpen(q)
            \/ BeginLeaving(q) \/ LeavingGuard(q) \/ Leave(q) \/ StatementFails(q)
      BY <2>6, Zenon DEF Next
    <3>2. q = p
      BY <2>2, <2>3, <2>4, <2>5, <3>1
    <3> QED
      BY <2>6, <3>1, <3>2 DEF At, CountUsers, Gate, ReadPolicy, CreateAccount, BurnInvite,
         BeginManaging, SetPolicy, Mint, DeleteInvites, BeginEnable, FindActor, MigrateOrg,
         PromoteActor, DemoteOthers, SeedOrganization, PersistOrganization, FlipToOrganization,
         BeginRevert, PurgeOthers, StepDown, PersistPersonal, DropTable, FlipToPersonal,
         BeginOpening, StoreOpen, RememberOpen, BeginLeaving, LeavingGuard, Leave,
         BeginSwitch, Begin
  <2>8. PICK i \in Invites :
          invite[i] = "pending" /\ req' = [req EXCEPT ![p].pc = "create", ![p].inv = i]
    BY <2>1, <2>5, <2>7 DEF LookUp, Answer
  <2>9. req'[p].inv = i /\ \A q \in Procs : q # p => req'[q] = req[q]
    BY <2>1, <2>8 DEF Request
  <2> QED
    BY <2>8, <2>9 DEF IInv, Spent
<1> QED
  BY Invariance, <1>1, PTL DEF Spec, InviteSpentOnce
=============================================================================
