------------------------------ MODULE AdminProofs ------------------------------
(***************************************************************************)
(* Proofs about what administrators change and read: UserAdmin, for any    *)
(* number of accounts and of goroutines; OrgSettings, for any columns and  *)
(* goroutines; AuditLog, for any entries, times and page sizes; and these  *)
(* next to SharedVault, whose own proofs are in SharedVaultProofs.         *)
(*                                                                         *)
(* UserAdmin: the invariant records what a request that is about to write  *)
(* has established on the way (Judged).  OrgSettings: what a request       *)
(* uses of its copy is what the columns must have, but for those written   *)
(* since (Fresh).  AuditLog: an entry's rank is the number of entries      *)
(* listed before it; what was there when a walk began is behind its offset *)
(* or has been shown (Covered), and what was pushed behind it again was    *)
(* pushed by an entry recorded since (Pushed).                             *)
(***************************************************************************)
EXTENDS MCAdmin, FiniteSetTheorems, TLAPS

-----------------------------------------------------------------------------
(* UserAdmin *)

\* What the checks of a handler leave behind: only an owner gets past
\* guardOwnerTarget, and a request that had to consult the last-admin guard
\* counted at least two administrators.
JudgedRequest(r) ==
    /\ r.pc = "find" => r.op \notin {"delete", "register"}
    /\ r.pc \in {"count", "write"} =>
         r.op # "register" /\ (r.targetRole = "owner" => r.actorRole = "owner")
    /\ r.pc = "write" /\ ConsultsGuard(r.op, r.targetRole) =>
         \E u, v \in r.admins : u # v

Judged == \A p \in Procs : JudgedRequest(req[p])

IInv == TypeOK /\ Judged

-----------------------------------------------------------------------------
\* A set of accounts the count finds to have more than one row holds two
\* different accounts: the use the last-admin guard makes of COUNT.
LEMMA TwoAdmins ==
  ASSUME NEW S \in SUBSET Users, ~(Cardinality(S) <= 1)
  PROVE  \E u, v \in S : u # v
<1>1. IsFiniteSet(Users)
  BY FS_Interval, UserAdminAssumption DEF Users
<1>2. IsFiniteSet(S) /\ Cardinality(S) \in Nat
  BY <1>1, FS_Subset, FS_CardinalityType
<1>3. Cardinality(S) # 0 /\ Cardinality(S) # 1
  BY <1>2
<1>4. PICK u \in S : TRUE
  BY <1>2, <1>3, FS_EmptySet
<1>5. S # {u}
  BY <1>2, <1>3, FS_Singleton
<1> QED
  BY <1>4, <1>5

\* The idle request is well typed and has nothing to show for itself.
LEMMA IdleIsARequest == Idle \in Request /\ JudgedRequest(Idle)
<1>1. 1 \in Users
  BY UserAdminAssumption DEF Users
<1> QED
  BY <1>1 DEF Idle, Request, Ops, Roles, Statuses, JudgedRequest

-----------------------------------------------------------------------------
\* A step that only moves one request from one good state to another preserves
\* the invariant.
LEMMA OneRequestMoves ==
  ASSUME IInv, NEW p \in Procs, NEW r \in Request, JudgedRequest(r),
         req' = [req EXCEPT ![p] = r], UNCHANGED <<role, status, created>>
  PROVE  IInv'
BY DEF IInv, TypeOK, Judged, Users, Roles, Statuses

LEMMA InitIsGood == Init => IInv
<1> SUFFICES ASSUME Init PROVE IInv
  OBVIOUS
<1>1. 1 \in Users /\ Users \subseteq Nat
  BY UserAdminAssumption DEF Users
<1> QED
  BY <1>1, IdleIsARequest DEF Init, IInv, TypeOK, Judged, Roles, Statuses

\* Each action preserves the invariant.
LEMMA NextPreserves == IInv /\ [Next]_vars => IInv'
<1> SUFFICES ASSUME IInv, [Next]_vars PROVE IInv'
  OBVIOUS
<1> USE DEF IInv
<1>0. Users \subseteq Nat /\ 1 \in Users /\ MaxUsers \in Users
  BY UserAdminAssumption DEF Users
<1>1. ASSUME NEW p \in Procs, AdmitManager(p) PROVE IInv'
  <2>1. PICK actor \in Users, target \in Users, op \in Ops \ {"delete", "register"} :
          /\ IsAdminRole(role[actor])
          /\ req' = [req EXCEPT ![p] = [Idle EXCEPT !.pc = "find", !.op = op,
                               !.target = target, !.actorRole = role[actor]]]
    BY <1>1 DEF AdmitManager
  <2> DEFINE r == [Idle EXCEPT !.pc = "find", !.op = op, !.target = target,
                               !.actorRole = role[actor]]
  <2>2. r \in Request /\ JudgedRequest(r)
    BY <2>1, IdleIsARequest DEF Request, Idle, Roles, IsAdminRole, JudgedRequest
  <2> QED
    BY <1>1, <2>1, <2>2, OneRequestMoves DEF AdmitManager
<1>2. ASSUME NEW p \in Procs, AdmitSelfDeletion(p) PROVE IInv'
  <2>1. PICK actor \in Accounts :
          req' = [req EXCEPT ![p] = [Idle EXCEPT
                            !.pc = Decided("delete", role[actor]),
                            !.op = "delete", !.target = actor,
                            !.actorRole = role[actor], !.targetRole = role[actor]]]
    BY <1>2 DEF AdmitSelfDeletion
  <2> DEFINE r == [Idle EXCEPT !.pc = Decided("delete", role[actor]),
                            !.op = "delete", !.target = actor,
                            !.actorRole = role[actor], !.targetRole = role[actor]]
  <2>2. actor \in Users /\ role[actor] \in Roles
    BY DEF Accounts, TypeOK
  <2>3. r \in Request
    BY <2>2, IdleIsARequest DEF Request, Idle, Ops, Decided
  <2>4. JudgedRequest(r)
    BY <2>2 DEF JudgedRequest, Idle, Decided
  <2> QED
    BY <1>2, <2>1, <2>3, <2>4, OneRequestMoves DEF AdmitSelfDeletion
<1>3. ASSUME NEW p \in Procs, FindUser(p) PROVE IInv'
  <2>1. req[p] \in Request /\ JudgedRequest(req[p]) /\ req[p].pc = "find"
    BY <1>3 DEF FindUser, TypeOK, Judged
  <2>2. CASE req' = [req EXCEPT ![p] = Idle]
    BY <1>3, <2>2, IdleIsARequest, OneRequestMoves DEF FindUser
  <2>3. CASE req' # [req EXCEPT ![p] = Idle]
    <3> DEFINE t == role[req[p].target]
               r == [req[p] EXCEPT !.pc = Decided(req[p].op, t), !.targetRole = t]
    <3>1. /\ req[p].target \in Accounts
          /\ ~Refused(req[p].op, req[p].actorRole, t, status[req[p].target])
          /\ req' = [req EXCEPT ![p].pc = Decided(req[p].op, t), ![p].targetRole = t]
      BY <1>3, <2>3 DEF FindUser
    <3>2. t \in Roles /\ (t = "owner" => req[p].actorRole = "owner")
      BY <3>1 DEF Accounts, TypeOK, Refused
    <3>3. r \in Request
      BY <2>1, <3>2 DEF Request, Decided
    <3>4. JudgedRequest(r)
      BY <2>1, <3>2 DEF Request, JudgedRequest, Decided
    <3>5. req' = [req EXCEPT ![p] = r]
      BY <2>1, <3>1 DEF TypeOK, Request
    <3> QED
      BY <1>3, <3>3, <3>4, <3>5, OneRequestMoves DEF FindUser
  <2> QED
    BY <2>2, <2>3
<1>4. ASSUME NEW p \in Procs, CountActiveAdmins(p) PROVE IInv'
  <2>1. req[p] \in Request /\ JudgedRequest(req[p]) /\ req[p].pc = "count"
    BY <1>4 DEF CountActiveAdmins, TypeOK, Judged
  <2>2. CASE Cardinality(ActiveAdmins) <= 1
    BY <1>4, <2>2, IdleIsARequest, OneRequestMoves DEF CountActiveAdmins, TypeOK
  <2>3. CASE ~(Cardinality(ActiveAdmins) <= 1)
    <3> DEFINE r == [req[p] EXCEPT !.pc = "write", !.admins = ActiveAdmins]
    <3>1. ActiveAdmins \in SUBSET Users
      BY DEF ActiveAdmins
    <3>2. r \in Request
      BY <2>1, <3>1 DEF Request
    <3>3. JudgedRequest(r)
      BY <2>1, <2>3, <3>1, TwoAdmins DEF Request, JudgedRequest
    <3>4. req' = [req EXCEPT ![p] = r]
      BY <1>4, <2>3 DEF CountActiveAdmins, TypeOK
    <3> QED
      BY <1>4, <3>2, <3>3, <3>4, OneRequestMoves DEF CountActiveAdmins
  <2> QED
    BY <2>2, <2>3
<1>5. ASSUME NEW p \in Procs, Write(p) PROVE IInv'
  <2>1. req[p] \in Request /\ req[p].target \in Users
    BY <1>5 DEF Write, TypeOK, Request
  <2>2. req' = [req EXCEPT ![p] = Idle] /\ created' = created
    BY <1>5 DEF Write
  <2>3. role' \in [Users -> Roles \cup {"none"}] /\ status' \in [Users -> Statuses]
    BY <1>5, <2>1 DEF Write, TypeOK
  <2>4. \A u \in Users : u > created => role'[u] = "none" /\ status'[u] = "active"
    BY <1>5, <2>1 DEF Write, TypeOK, Accounts
  <2>5. req' \in [Procs -> Request] /\ Judged'
    BY <2>2, IdleIsARequest DEF TypeOK, Judged
  <2> QED
    BY <2>2, <2>3, <2>4, <2>5 DEF TypeOK
<1>6. ASSUME NEW p \in Procs, StartRegistration(p) PROVE IInv'
  <2>1. PICK a \in {"owner", "member"} :
          req' = [req EXCEPT ![p] = [Idle EXCEPT !.pc = "create",
                                      !.op = "register", !.actorRole = a]]
    BY <1>6 DEF StartRegistration
  <2> DEFINE r == [Idle EXCEPT !.pc = "create", !.op = "register", !.actorRole = a]
  <2>2. r \in Request /\ JudgedRequest(r)
    BY IdleIsARequest DEF Request, Idle, Ops, Roles, JudgedRequest
  <2> QED
    BY <1>6, <2>1, <2>2, OneRequestMoves DEF StartRegistration
<1>7. ASSUME NEW p \in Procs, CreateAccount(p) PROVE IInv'
  <2>1. req[p].actorRole \in Roles /\ created + 1 \in Users
    BY <1>7, UserAdminAssumption DEF CreateAccount, TypeOK, Request, Users
  <2>2. role' \in [Users -> Roles \cup {"none"}] /\ created' \in Users
    BY <1>7, <2>1 DEF CreateAccount, TypeOK
  <2>3. \A u \in Users : u > created' => role'[u] = "none" /\ status'[u] = "active"
    BY <1>0, <1>7 DEF CreateAccount, TypeOK
  <2>4. req' \in [Procs -> Request] /\ Judged'
    BY <1>7, IdleIsARequest DEF CreateAccount, TypeOK, Judged
  <2> QED
    BY <1>7, <2>2, <2>3, <2>4 DEF CreateAccount, TypeOK
<1>8. ASSUME NEW p \in Procs, StatementFails(p) PROVE IInv'
  BY <1>8, IdleIsARequest, OneRequestMoves DEF StatementFails
<1>9. CASE Restart
  <2>1. role' \in [Users -> Roles \cup {"none"}]
    BY <1>9 DEF Restart, TypeOK, Roles
  <2>2. \A u \in Users : u > created => role'[u] = "none" /\ status'[u] = "active"
    BY <1>9 DEF Restart, TypeOK, Oldest, Accounts
  <2>3. req' \in [Procs -> Request] /\ Judged'
    BY <1>9, IdleIsARequest DEF Restart, Judged
  <2> QED
    BY <1>9, <2>1, <2>2, <2>3 DEF Restart, TypeOK
<1>10. CASE UNCHANGED vars
  BY <1>10 DEF vars, TypeOK, Judged
<1> QED
  BY <1>1, <1>2, <1>3, <1>4, <1>5, <1>6, <1>7, <1>8, <1>9, <1>10 DEF Next

\* The invariant holds in every reachable state.
LEMMA Invariance == Spec => []IInv
BY InitIsGood, NextPreserves, PTL DEF Spec

\* Types, and the numbering of accounts, of every reachable state.
THEOREM TypeCorrect == Spec => []TypeOK
<1>1. IInv => TypeOK
  BY DEF IInv
<1> QED
  BY <1>1, Invariance, PTL

-----------------------------------------------------------------------------
\* Only the write of a request can take an account out of the set of active
\* administrators, and it can only do so for its target.
LEMMA OnlyWritesDisturb ==
  ASSUME IInv, [Next]_vars, NEW u \in Users, role[u] # "none",
         \/ role'[u] # role[u] /\ role'[u] # "owner"
         \/ status'[u] # status[u]
  PROVE  \E p \in Procs : Write(p) /\ req[p].target = u
<1> USE DEF IInv, TypeOK
<1>1. ASSUME NEW p \in Procs, CreateAccount(p) PROVE FALSE
  BY <1>1, UserAdminAssumption DEF CreateAccount, Users
<1>2. ASSUME NEW p \in Procs, Write(p) PROVE req[p].target = u
  BY <1>2 DEF Write, Request
<1>3. ~Restart
  BY DEF Restart
<1>4. ~UNCHANGED vars
  BY DEF vars
<1>5. ASSUME NEW p \in Procs
      PROVE  /\ ~AdmitManager(p) /\ ~AdmitSelfDeletion(p) /\ ~FindUser(p)
             /\ ~CountActiveAdmins(p) /\ ~StartRegistration(p) /\ ~StatementFails(p)
  BY DEF AdmitManager, AdmitSelfDeletion, FindUser, CountActiveAdmins,
         StartRegistration, StatementFails
<1> QED
  BY <1>1, <1>2, <1>3, <1>4, <1>5 DEF Next

\* Where the last-admin guard does its work: a write whose data still holds
\* leaves an active administrator behind.
LEMMA FreshWriteKeepsAnAdmin ==
  ASSUME IInv, NEW p \in Procs, Write(p), ~Outdated(req[p]),
         ActiveAdmins # {}
  PROVE  ActiveAdmins' # {}
<1> DEFINE r == req[p]
<1>1. r \in Request /\ JudgedRequest(r) /\ r.pc = "write"
  BY DEF Write, IInv, TypeOK, Judged
<1>2. role[r.target] = r.targetRole /\ r.target \in Users
  BY <1>1 DEF Outdated, Request
<1>3. \A u \in ActiveAdmins : u # r.target => u \in ActiveAdmins'
  BY <1>1, <1>2 DEF Write, ActiveAdmins, IInv, TypeOK
<1>4. CASE ConsultsGuard(r.op, r.targetRole)
  <2>1. \E u, v \in ActiveAdmins : u # v
    BY <1>1, <1>4 DEF JudgedRequest, Outdated
  <2> QED
    BY <2>1, <1>3
<1>5. CASE ~ConsultsGuard(r.op, r.targetRole)
  <2>1. CASE r.target \notin ActiveAdmins
    BY <2>1, <1>3
  <2>2. CASE r.target \in ActiveAdmins
    <3>1. r.op \in {"owner", "admin", "active"}
      BY <1>1, <1>2, <1>5, <2>2
         DEF ActiveAdmins, ConsultsGuard, JudgedRequest, Request, Ops, Roles, Statuses
    <3>2. r.target \in ActiveAdmins'
      BY <1>1, <1>2, <2>2, <3>1
         DEF Write, ActiveAdmins, Accounts, IsAdminRole, IInv, TypeOK, Roles, Statuses
    <3> QED
      BY <3>2
  <2> QED
    BY <2>1, <2>2
<1> QED
  BY <1>4, <1>5

\* LastAdminGuard (orgusers.go, settings.go): two requests have to interleave
\* for the last active administrator to go; no single request removes it.
THEOREM LastAdminGuardHolds == Spec => LastAdminGuard
<1>1. IInv /\ [Next]_vars => LastAdminStep
  <2> SUFFICES ASSUME IInv, [Next]_vars, ActiveAdmins # {}, ActiveAdmins' = {}
               PROVE  \E p \in Procs : req[p].pc = "write" /\ Outdated(req[p])
    BY DEF LastAdminStep
  <2>1. PICK u \in ActiveAdmins : u \notin ActiveAdmins'
    OBVIOUS
  <2>2. /\ u \in Users /\ role[u] # "none"
        /\ (role'[u] # role[u] /\ role'[u] # "owner") \/ status'[u] # status[u]
    BY <2>1 DEF ActiveAdmins, IsAdminRole
  <2>3. PICK p \in Procs : Write(p)
    BY <2>2, OnlyWritesDisturb
  <2>4. Outdated(req[p])
    BY <2>3, FreshWriteKeepsAnAdmin
  <2> QED
    BY <2>3, <2>4 DEF Write
<1>2. IInv /\ [Next]_vars => [LastAdminStep]_vars
  BY <1>1
<1> QED
  BY <1>2, Invariance, PTL DEF Spec, LastAdminGuard

\* guardOwnerTarget (orgusers.go:30-42): owners are peers, so an owner is
\* demoted, suspended or removed only by a request of an owner, unless that
\* request saw the account before it was made one.
THEOREM OwnersArePeersHolds == Spec => OwnersArePeers
<1>1. IInv /\ [Next]_vars => OwnerStep
  <2> SUFFICES ASSUME IInv, [Next]_vars, NEW u \in Owners,
                      role'[u] # "owner" \/ status'[u] # status[u]
               PROVE  \E p \in Procs : /\ req[p].pc = "write" /\ req[p].target = u
                                       /\ \/ req[p].actorRole = "owner"
                                          \/ req[p].targetRole # "owner"
    BY DEF OwnerStep
  <2>1. /\ u \in Users /\ role[u] # "none"
        /\ (role'[u] # role[u] /\ role'[u] # "owner") \/ status'[u] # status[u]
    BY DEF Owners
  <2>2. PICK p \in Procs : Write(p) /\ req[p].target = u
    BY <2>1, OnlyWritesDisturb
  <2>3. req[p].pc = "write" /\ JudgedRequest(req[p])
    BY <2>2 DEF Write, IInv, Judged
  <2> QED
    BY <2>2, <2>3 DEF JudgedRequest
<1>2. IInv /\ [Next]_vars => [OwnerStep]_vars
  BY <1>1
<1> QED
  BY <1>2, Invariance, PTL DEF Spec, OwnersArePeers

-----------------------------------------------------------------------------
(* OrgSettings *)

\* Every request sets some columns to values they can have.
GoodRequest(r) ==
    /\ r.whole \in BOOLEAN
    /\ DOMAIN r.sets \subseteq Columns
    /\ \A c \in DOMAIN r.sets : r.sets[c] \in BOOLEAN

LEMMA RequestsAreGood == \A r \in Requests : GoodRequest(r)
<1>1. ASSUME NEW r \in Update PROVE GoodRequest(r)
  <2>1. PICK f \in UNION {[C -> BOOLEAN] : C \in SUBSET Branding} :
            r = [whole |-> TRUE, sets |-> f]
    BY DEF Update
  <2>2. PICK C \in SUBSET Branding : f \in [C -> BOOLEAN]
    OBVIOUS
  <2>3. r.whole = TRUE /\ r.sets = f
    BY <2>1
  <2> QED
    BY <2>2, <2>3 DEF GoodRequest, Columns
<1>2. ASSUME NEW r \in UpdateSharedSettings PROVE GoodRequest(r)
  <2>1. PICK f \in UNION {[C -> BOOLEAN] : C \in SUBSET Toggles \ {{}}} :
            r = [whole |-> FALSE, sets |-> f]
    BY DEF UpdateSharedSettings
  <2>2. PICK C \in SUBSET Toggles : f \in [C -> BOOLEAN]
    OBVIOUS
  <2>3. r.whole = FALSE /\ r.sets = f
    BY <2>1
  <2> QED
    BY <2>2, <2>3 DEF GoodRequest, Columns
<1>3. ASSUME NEW r \in UpdateRegistration PROVE GoodRequest(r)
  <2>1. PICK f \in [{"registration"} -> BOOLEAN] : r = [whole |-> FALSE, sets |-> f]
    BY DEF UpdateRegistration
  <2>2. r.whole = FALSE /\ r.sets = f
    BY <2>1
  <2> QED
    BY <2>2 DEF GoodRequest, Columns
<1>4. GoodRequest(UploadLogo) /\ GoodRequest(DeleteLogo) /\ GoodRequest(Show)
  BY DEF UploadLogo, DeleteLogo, Show, GoodRequest, Columns
<1> QED
  BY <1>1, <1>2, <1>3, <1>4 DEF Requests

\* A row with some of its columns set is a row.
LEMMA SetIsARow ==
  ASSUME NEW row \in Row, NEW r \in Requests
  PROVE  Set(row, r.sets) \in Row
BY RequestsAreGood DEF GoodRequest, Set, Row

OrgRequest == [pc : {"idle", "create", "write"}, req : Requests, copy : Row]

LEMMA NoOrgRequestIsARequest ==
  NoOrgRequest \in OrgRequest /\ NoOrgRequest.pc = "idle" /\ Default \in Row
<1>1. Default \in Row
  BY DEF Default, Row
<1> QED
  BY <1>1 DEF NoOrgRequest, OrgRequest, Requests

\* What a request uses of its copy is what the columns must have, but for those
\* that were written since; a request that is about to create the row has none,
\* and then the columns have their defaults.
Fresh ==
    /\ \A p \in OrgProcs : orgReq[p].pc = "write" =>
           \A c \in Uses(orgReq[p].req) \ since[p] : orgReq[p].copy[c] = kept[c]
    /\ \A p \in OrgProcs : orgReq[p].pc # "write" => since[p] = {}
    /\ \A p \in OrgProcs : orgReq[p].pc = "create" => orgReq[p].copy = Default
    /\ table /\ org = {} => kept = Default

OrgInv == OrgTypeOK /\ Fresh /\ SettingsKept

\* A request ends and the columns in C have changed what they must have: the
\* others keep what they have loaded.
LEMMA WrittenKeeps ==
  ASSUME OrgInv, NEW p \in OrgProcs, NEW C, C \subseteq Columns,
         Answer(p), Written(C), kept' \in Row,
         \A c \in Columns \ C : kept'[c] = kept[c],
         table' = table, table' /\ org' = {} => kept' = Default
  PROVE  /\ orgReq' \in [OrgProcs -> OrgRequest]
         /\ since' \in [OrgProcs -> SUBSET Columns]
         /\ Fresh'
<1>1. orgReq \in [OrgProcs -> OrgRequest] /\ since \in [OrgProcs -> SUBSET Columns]
  BY DEF OrgInv, OrgTypeOK, OrgRequest
<1>2. /\ orgReq' \in [OrgProcs -> OrgRequest]
      /\ orgReq'[p].pc = "idle"
      /\ \A q \in OrgProcs : q # p => orgReq'[q] = orgReq[q]
  BY <1>1, NoOrgRequestIsARequest DEF Answer
<1>3. \A q \in OrgProcs :
          since'[q] = IF orgReq'[q].pc = "write" THEN since[q] \cup (C \cap Uses(orgReq[q].req)) ELSE {}
  BY DEF Written
<1>4. since' \in [OrgProcs -> SUBSET Columns]
  <2>1. \A q \in OrgProcs : since'[q] \in SUBSET Columns
    BY <1>1, <1>3
  <2> QED
    BY <2>1 DEF Written
<1>5. ASSUME NEW q \in OrgProcs, orgReq'[q].pc = "write",
             NEW c \in Uses(orgReq'[q].req) \ since'[q]
      PROVE  orgReq'[q].copy[c] = kept'[c]
  <2>1. q # p /\ orgReq'[q] = orgReq[q]
    BY <1>2, <1>5
  <2>2. c \notin since[q] /\ c \notin C
    BY <1>3, <1>5, <2>1
  <2>3. c \in Columns
    <3>1. orgReq[q].req \in Requests
      BY <1>1 DEF OrgRequest
    <3> QED
      BY <1>5, <2>1, <3>1, RequestsAreGood DEF Uses, GoodRequest
  <2> QED
    BY <1>5, <2>1, <2>2, <2>3 DEF OrgInv, Fresh
<1>6. \A q \in OrgProcs : /\ orgReq'[q].pc # "write" => since'[q] = {}
                          /\ orgReq'[q].pc = "create" => orgReq'[q].copy = Default
  BY <1>2, <1>3 DEF OrgInv, Fresh
<1> QED
  BY <1>2, <1>4, <1>5, <1>6 DEF Fresh

\* getOrCreate reads the row, or finds that there is none.
LEMMA LoadKeeps ==
  ASSUME OrgInv, NEW p \in OrgProcs, Load(p)
  PROVE  OrgInv'
<1>1. /\ table /\ orgReq[p].pc = "idle"
      /\ UNCHANGED <<table, org, since, kept>>
  BY DEF Load, At
<1>2. PICK r \in Requests :
        orgReq' = [orgReq EXCEPT ![p] =
            IF org = {} THEN [pc |-> "create", req |-> r, copy |-> Default]
            ELSE [pc |-> "write", req |-> r,
                  copy |-> [c \in Columns |-> c \in Uses(r) /\ \E row \in org : row[c]]]]
  BY DEF Load
<1>3. orgReq \in [OrgProcs -> OrgRequest] /\ since[p] = {}
  BY <1>1 DEF OrgInv, OrgTypeOK, OrgRequest, Fresh
<1> DEFINE copy == [c \in Columns |-> c \in Uses(r) /\ \E row \in org : row[c]]
           new == IF org = {} THEN [pc |-> "create", req |-> r, copy |-> Default]
                  ELSE [pc |-> "write", req |-> r, copy |-> copy]
<1>4. copy \in Row
  BY DEF Row
<1>5. new \in OrgRequest
  <2> HIDE DEF copy
  <2> QED
    BY <1>4, NoOrgRequestIsARequest DEF OrgRequest
<1>6. /\ orgReq' \in [OrgProcs -> OrgRequest] /\ orgReq'[p] = new
      /\ \A q \in OrgProcs : q # p => orgReq'[q] = orgReq[q]
  <2>1. orgReq' = [orgReq EXCEPT ![p] = new]
    BY <1>2
  <2> HIDE DEF new
  <2> QED
    BY <1>3, <1>5, <2>1
<1>7. ASSUME new.pc = "write", NEW c \in Uses(new.req)
      PROVE  new.copy[c] = kept[c]
  <2>1. org # {} /\ new.req = r /\ new.copy = copy
    BY <1>7
  <2>2. org = {kept} /\ kept \in Row
    BY <2>1 DEF OrgInv, OrgTypeOK, SettingsKept
  <2>3. c \in Columns
    BY <1>7, <2>1, RequestsAreGood DEF Uses, GoodRequest
  <2>4. kept[c] \in BOOLEAN /\ (kept[c] <=> \E row \in org : row[c])
    BY <2>2, <2>3 DEF Row
  <2>5. copy[c] = (c \in Uses(r) /\ \E row \in org : row[c])
    BY <2>3
  <2>6. copy[c] = (\E row \in org : row[c])
    BY <1>7, <2>1, <2>5
  <2> HIDE DEF copy, new
  <2> QED
    BY <2>1, <2>4, <2>6
<1>8. new.pc # "write" => new.pc = "create" /\ new.copy = Default
  OBVIOUS
<1> HIDE DEF new
<1>9. Fresh'
  BY <1>1, <1>3, <1>6, <1>7, <1>8 DEF OrgInv, Fresh
<1> QED
  BY <1>1, <1>6, <1>9 DEF OrgInv, OrgTypeOK, OrgRequest, SettingsKept

\* The default row is created only where there is none, and there the columns
\* have their defaults.
LEMMA CreateKeeps ==
  ASSUME OrgInv, NEW p \in OrgProcs, Create(p)
  PROVE  OrgInv'
<1>1. table /\ orgReq[p].pc = "create" /\ UNCHANGED <<table, since, kept>>
  BY DEF Create, At
<1>2. orgReq \in [OrgProcs -> OrgRequest] /\ since[p] = {} /\ orgReq[p].copy = Default
  BY <1>1 DEF OrgInv, OrgTypeOK, OrgRequest, Fresh
<1>3. CASE org = {}
  <2>1. org' = {Default} /\ orgReq' = [orgReq EXCEPT ![p].pc = "write"]
    BY <1>3 DEF Create
  <2>2. kept = Default
    BY <1>1, <1>3 DEF OrgInv, Fresh
  <2>3. /\ orgReq' \in [OrgProcs -> OrgRequest]
        /\ orgReq'[p].pc = "write" /\ orgReq'[p].copy = Default
        /\ \A q \in OrgProcs : q # p => orgReq'[q] = orgReq[q]
    BY <1>2, <2>1 DEF OrgRequest
  <2>4. Fresh'
    BY <1>1, <2>1, <2>2, <2>3 DEF OrgInv, Fresh
  <2>5. OrgTypeOK'
    BY <1>1, <2>1, <2>3, NoOrgRequestIsARequest DEF OrgInv, OrgTypeOK, OrgRequest
  <2> QED
    BY <1>1, <2>1, <2>2, <2>4, <2>5 DEF OrgInv, SettingsKept
<1>4. CASE org # {}
  <2>1. org' = org /\ Answer(p)
    BY <1>4 DEF Create
  <2>2. /\ orgReq' \in [OrgProcs -> OrgRequest] /\ orgReq'[p].pc = "idle"
        /\ \A q \in OrgProcs : q # p => orgReq'[q] = orgReq[q]
    BY <1>2, <2>1, NoOrgRequestIsARequest DEF Answer
  <2>3. Fresh'
    BY <1>1, <1>2, <2>1, <2>2 DEF OrgInv, Fresh
  <2>4. OrgTypeOK'
    BY <1>1, <2>1, <2>2 DEF OrgInv, OrgTypeOK, OrgRequest
  <2> QED
    BY <1>1, <2>1, <2>3, <2>4 DEF OrgInv, SettingsKept
<1> QED
  BY <1>3, <1>4

\* A whole row that is saved loses what was written since it was loaded, and
\* nothing else.
LEMMA SaveKeeps ==
  ASSUME OrgInv, NEW p \in OrgProcs, Save(p)
  PROVE  OrgInv'
<1> DEFINE r == orgReq[p].req
           copy == orgReq[p].copy
           C == DOMAIN r.sets \cup since[p]
<1>1. /\ table /\ orgReq[p].pc = "write" /\ r.whole
      /\ org' = {Set(copy, r.sets)}
      /\ kept' = [c \in Columns |-> IF c \in DOMAIN r.sets THEN r.sets[c]
                                   ELSE IF c \in since[p] THEN copy[c] ELSE kept[c]]
      /\ Answer(p) /\ Written(C) /\ UNCHANGED table
  BY DEF Save, At
<1>2. r \in Requests /\ copy \in Row /\ kept \in Row /\ since[p] \subseteq Columns
  BY DEF OrgInv, OrgTypeOK
<1>3. GoodRequest(r) /\ C \subseteq Columns /\ Set(copy, r.sets) \in Row
  BY <1>2, RequestsAreGood, SetIsARow DEF GoodRequest
<1>4. \A c \in Columns \ since[p] : copy[c] = kept[c]
  BY <1>1 DEF OrgInv, Fresh, Uses
<1>5. kept' = Set(copy, r.sets)
  BY <1>1, <1>4 DEF Set
<1>6. \A c \in Columns \ C : kept'[c] = kept[c]
  BY <1>1
<1>7. orgReq' \in [OrgProcs -> OrgRequest] /\ since' \in [OrgProcs -> SUBSET Columns] /\ Fresh'
  <2> HIDE DEF C
  <2> QED
    BY <1>1, <1>3, <1>5, <1>6, WrittenKeeps
<1>8. OrgTypeOK'
  BY <1>1, <1>3, <1>5, <1>7 DEF OrgTypeOK, OrgRequest, OrgInv
<1> QED
  BY <1>1, <1>5, <1>7, <1>8 DEF OrgInv, SettingsKept

\* An update of some columns leaves the others as they are.
LEMMA SetColumnsKeeps ==
  ASSUME OrgInv, NEW p \in OrgProcs, SetColumns(p)
  PROVE  OrgInv'
<1> DEFINE r == orgReq[p].req
           C == DOMAIN r.sets
<1>1. /\ table
      /\ org' = {Set(row, r.sets) : row \in org}
      /\ kept' = IF org = {} THEN kept ELSE Set(kept, r.sets)
      /\ Answer(p) /\ Written(C) /\ UNCHANGED table
  BY DEF SetColumns
<1>2. r \in Requests /\ kept \in Row
  BY DEF OrgInv, OrgTypeOK
<1>3. C \subseteq Columns /\ Set(kept, r.sets) \in Row
  BY <1>2, RequestsAreGood, SetIsARow DEF GoodRequest
<1>4. kept' \in Row /\ \A c \in Columns \ C : kept'[c] = kept[c]
  BY <1>1, <1>2, <1>3 DEF Set
<1>5. (org' = {} /\ kept' = Default) \/ org' = {kept'}
  <2>1. CASE org = {}
    BY <1>1, <2>1 DEF OrgInv, Fresh
  <2>2. CASE org # {}
    <3>1. org = {kept}
      BY <2>2 DEF OrgInv, OrgTypeOK, SettingsKept
    <3> QED
      BY <1>1, <3>1
  <2> QED
    BY <2>1, <2>2
<1>6. orgReq' \in [OrgProcs -> OrgRequest] /\ since' \in [OrgProcs -> SUBSET Columns] /\ Fresh'
  <2> HIDE DEF C
  <2> QED
    BY <1>1, <1>3, <1>4, <1>5, WrittenKeeps
<1>7. OrgTypeOK'
  BY <1>1, <1>4, <1>5, <1>6 DEF OrgTypeOK, OrgRequest, OrgInv
<1> QED
  BY <1>5, <1>6, <1>7 DEF OrgInv, SettingsKept

\* A request ends and the row stays as it is.  The answer that the policy is the
\* wanted one was given on a copy that is old, or it is true.
LEMMA EndKeeps ==
  ASSUME OrgInv, NEW p \in OrgProcs, Unchanged(p) \/ OrgStatementFails(p)
  PROVE  OrgInv'
<1>1. Answer(p) /\ Written({}) /\ UNCHANGED <<table, org>>
  BY DEF Unchanged, OrgStatementFails
<1>2. kept' = kept
  <2>1. CASE OrgStatementFails(p)
    BY <2>1 DEF OrgStatementFails
  <2>2. CASE Unchanged(p)
    <3> DEFINE r == orgReq[p].req
    <3>1. /\ orgReq[p].pc = "write" /\ r \in UpdateRegistration
          /\ orgReq[p].copy["registration"] = r.sets["registration"]
          /\ kept' = IF "registration" \in since[p] THEN kept ELSE Set(kept, r.sets)
      BY <2>2 DEF Unchanged, At
    <3>2. DOMAIN r.sets = {"registration"} /\ "registration" \in Uses(r)
      BY <3>1 DEF UpdateRegistration, Uses, Columns
    <3>3. CASE "registration" \notin since[p]
      <4>1. kept["registration"] = r.sets["registration"]
        BY <3>1, <3>2, <3>3 DEF OrgInv, Fresh
      <4>2. kept \in Row
        BY DEF OrgInv, OrgTypeOK
      <4>3. Set(kept, r.sets) = kept
        BY <3>2, <4>1, <4>2 DEF Set, Row
      <4> QED
        BY <3>1, <3>3, <4>3
    <3> QED
      BY <3>1, <3>3
  <2> QED
    BY <2>1, <2>2
<1>3. orgReq' \in [OrgProcs -> OrgRequest] /\ since' \in [OrgProcs -> SUBSET Columns] /\ Fresh'
  <2>1. kept \in Row /\ (table /\ org = {} => kept = Default)
    BY DEF OrgInv, OrgTypeOK, Fresh
  <2> QED
    BY <1>1, <1>2, <2>1, WrittenKeeps
<1> QED
  BY <1>1, <1>2, <1>3 DEF OrgInv, OrgTypeOK, OrgRequest, SettingsKept

\* A switch to the organization puts the columns to their defaults, behind the
\* back of all requests.
LEMMA SwitchKeeps ==
  ASSUME OrgInv, Revert \/ Enable
  PROVE  OrgInv'
<1>1. CASE Revert
  BY <1>1 DEF Revert, OrgInv, OrgTypeOK, Fresh, SettingsKept
<1>2. CASE Enable
  <2>1. /\ table' = TRUE /\ org' \in {{Default}, {}} /\ kept' = Default
        /\ UNCHANGED orgReq /\ Written(Columns)
    BY <1>2 DEF Enable
  <2>2. orgReq \in [OrgProcs -> OrgRequest] /\ since \in [OrgProcs -> SUBSET Columns]
    BY DEF OrgInv, OrgTypeOK, OrgRequest
  <2>3. \A q \in OrgProcs :
            since'[q] = IF orgReq[q].pc = "write" THEN since[q] \cup (Columns \cap Uses(orgReq[q].req)) ELSE {}
    BY <2>1 DEF Written
  <2>4. since' \in [OrgProcs -> SUBSET Columns]
    <3>1. \A q \in OrgProcs : since'[q] \in SUBSET Columns
      BY <2>2, <2>3
    <3> QED
      BY <2>1, <3>1 DEF Written
  <2>5. \A q \in OrgProcs : Uses(orgReq[q].req) \subseteq Columns
    BY <2>2, RequestsAreGood DEF Uses, GoodRequest, OrgRequest
  <2>6. Fresh'
    BY <2>1, <2>3, <2>5 DEF OrgInv, Fresh
  <2>7. OrgTypeOK'
    BY <2>1, <2>2, <2>4, NoOrgRequestIsARequest DEF OrgInv, OrgTypeOK, OrgRequest
  <2> QED
    BY <2>1, <2>6, <2>7 DEF OrgInv, SettingsKept
<1> QED
  BY <1>1, <1>2

LEMMA OrgInitIsGood == OrgInit => OrgInv
<1> SUFFICES ASSUME OrgInit PROVE OrgInv
  OBVIOUS
<1>1. /\ table = TRUE /\ org = {Default} /\ kept = Default
      /\ \A p \in OrgProcs : orgReq[p] = NoOrgRequest /\ since[p] = {}
      /\ orgReq \in [OrgProcs -> OrgRequest] /\ since \in [OrgProcs -> SUBSET Columns]
  BY NoOrgRequestIsARequest DEF OrgInit
<1> QED
  BY <1>1, NoOrgRequestIsARequest DEF OrgInv, OrgTypeOK, OrgRequest, Fresh, SettingsKept

LEMMA OrgNextKeeps == OrgInv /\ [OrgNext]_orgVars => OrgInv'
<1> SUFFICES ASSUME OrgInv, [OrgNext]_orgVars PROVE OrgInv'
  OBVIOUS
<1>1. CASE UNCHANGED orgVars
  BY <1>1 DEF orgVars, OrgInv, OrgTypeOK, Fresh, SettingsKept
<1> QED
  BY <1>1, LoadKeeps, CreateKeeps, SaveKeeps, SetColumnsKeeps, EndKeeps, SwitchKeeps DEF OrgNext

\* Types of the organization's row and of the requests about it: the row is in
\* its table, and there is never a second one.
LEMMA OrgTypeCorrect == OrgSpec => []OrgTypeOK
<1>1. OrgInv => OrgTypeOK
  BY DEF OrgInv
<1> QED
  BY <1>1, OrgInitIsGood, OrgNextKeeps, PTL DEF OrgSpec

\* organization.go:197, 254, 321: every setting keeps the value last given to it,
\* except where a whole row is saved over it from an older copy.
THEOREM SettingsKeptHolds == OrgSpec => []SettingsKept
<1>1. OrgInv => SettingsKept
  BY DEF OrgInv
<1> QED
  BY <1>1, OrgInitIsGood, OrgNextKeeps, PTL DEF OrgSpec
-----------------------------------------------------------------------------
(* AuditLog: ranks and pages *)

\* The log as the queries see it: finitely many entries that have an id and a time.
LogOK ==
    /\ log \subseteq Events /\ IsFiniteSet(log)
    /\ createdAt \in [Events -> 0..MaxTime]

\* ORDER BY created_at DESC, id DESC is a strict order in which any two entries
\* differ: the id decides between entries of one instant.
LEMMA NewerIsTotal ==
  ASSUME LogOK
  PROVE  /\ \A e, f \in log : e # f => Newer(e, f) \/ Newer(f, e)
         /\ \A e \in log : ~Newer(e, e)
         /\ \A e, f, g \in log : Newer(e, f) /\ Newer(f, g) => Newer(e, g)
<1>1. \A e \in log : e \in Nat /\ createdAt[e] \in Nat
  BY AuditLogAssumption DEF LogOK
<1> QED
  BY <1>1 DEF Newer

\* The entries that are listed before e.
Ahead(e) == {f \in log : Newer(f, e)}

LEMMA RankIsNatural ==
  ASSUME LogOK, NEW e
  PROVE  IsFiniteSet(Ahead(e)) /\ Rank(e) = Cardinality(Ahead(e)) /\ Rank(e) \in Nat
<1>1. IsFiniteSet(Ahead(e))
  BY FS_Subset DEF LogOK, Ahead
<1> QED
  BY <1>1, FS_CardinalityType DEF Rank, Ahead

\* A newer entry has a lower rank.
LEMMA NewerRanksLower ==
  ASSUME LogOK, NEW e \in log, NEW f \in log, Newer(e, f)
  PROVE  Rank(e) < Rank(f)
<1>1. Ahead(e) \subseteq Ahead(f) /\ e \in Ahead(f) /\ e \notin Ahead(e)
  BY NewerIsTotal DEF Ahead
<1>2. Cardinality(Ahead(e)) <= Cardinality(Ahead(f)) /\ Cardinality(Ahead(e)) # Cardinality(Ahead(f))
  BY <1>1, RankIsNatural, FS_Subset
<1> QED
  BY <1>2, RankIsNatural

\* No two entries have the same rank.
LEMMA RanksDiffer ==
  ASSUME LogOK, NEW e \in log, NEW f \in log, e # f
  PROVE  Rank(e) # Rank(f)
<1>1. CASE Newer(e, f)
  BY <1>1, NewerRanksLower, RankIsNatural
<1>2. CASE Newer(f, e)
  BY <1>2, NewerRanksLower, RankIsNatural
<1> QED
  BY <1>1, <1>2, NewerIsTotal

\* The entries whose ranks lie between two bounds.
Ranked(a, b) == {e \in log : Rank(e) \in a..b}

\* There are no more of them than there are ranks.
LEMMA FewRanked ==
  ASSUME LogOK, NEW a \in Int, NEW b \in Int, a <= b + 1
  PROVE  /\ IsFiniteSet(Ranked(a, b)) /\ Cardinality(Ranked(a, b)) \in Nat
         /\ Cardinality(Ranked(a, b)) <= b - a + 1
<1> DEFINE rankOf == [e \in Ranked(a, b) |-> Rank(e)]
<1>1. rankOf \in [Ranked(a, b) -> a..b]
  BY DEF Ranked
<1>2. \A e, f \in Ranked(a, b) : rankOf[e] = rankOf[f] => e = f
  BY RanksDiffer DEF Ranked
<1>3. rankOf \in Injection(Ranked(a, b), a..b)
  BY <1>1, <1>2 DEF Injection, IsInjective
<1>4. IsFiniteSet(a..b) /\ Cardinality(a..b) = b - a + 1
  BY FS_Interval
<1> QED
  BY <1>3, <1>4, FS_Injection, FS_CardinalityType

\* And none of the ranks below that of an entry is free.
LEMMA NoRankIsFree ==
  ASSUME LogOK, NEW e \in log, NEW n \in Nat, n <= Rank(e)
  PROVE  Cardinality(Ranked(n, Rank(e))) >= Rank(e) - n + 1
<1> DEFINE upTo == Ahead(e) \cup {e}
<1>1. Rank(e) \in Nat /\ IsFiniteSet(upTo) /\ Cardinality(upTo) = Rank(e) + 1
  <2>1. e \notin Ahead(e)
    BY NewerIsTotal DEF Ahead
  <2> QED
    BY <2>1, RankIsNatural, FS_AddElement
<1>2. ASSUME NEW f \in upTo PROVE f \in log /\ Rank(f) \in 0..Rank(e)
  <2>1. Rank(f) \in Nat /\ Rank(e) \in Nat
    BY RankIsNatural
  <2>2. CASE f = e
    BY <2>1, <2>2
  <2>3. CASE f \in Ahead(e)
    <3>1. f \in log /\ Newer(f, e)
      BY <2>3 DEF Ahead
    <3> QED
      BY <2>1, <3>1, NewerRanksLower
  <2> QED
    BY <2>2, <2>3
<1>3. upTo \subseteq Ranked(0, n - 1) \cup Ranked(n, Rank(e))
  BY <1>1, <1>2 DEF Ranked
<1>4. /\ IsFiniteSet(Ranked(0, n - 1)) /\ Cardinality(Ranked(0, n - 1)) \in Nat
      /\ Cardinality(Ranked(0, n - 1)) <= n
  <2> DEFINE b == n - 1
  <2>1. 0 \in Int /\ b \in Int /\ 0 <= b + 1 /\ b - 0 + 1 = n
    OBVIOUS
  <2> HIDE DEF b
  <2>2. /\ IsFiniteSet(Ranked(0, b)) /\ Cardinality(Ranked(0, b)) \in Nat
        /\ Cardinality(Ranked(0, b)) <= b - 0 + 1
    BY <2>1, FewRanked
  <2> QED
    BY <2>1, <2>2 DEF b
<1>5. IsFiniteSet(Ranked(n, Rank(e))) /\ Cardinality(Ranked(n, Rank(e))) \in Nat
  BY <1>1, FewRanked
<1>6. Cardinality(upTo) <= Cardinality(Ranked(0, n - 1)) + Cardinality(Ranked(n, Rank(e)))
  <2> DEFINE A == Ranked(0, n - 1)
             B == Ranked(n, Rank(e))
  <2> HIDE DEF A, B, upTo
  <2>1. IsFiniteSet(A) /\ IsFiniteSet(B) /\ upTo \subseteq A \cup B
    BY <1>3, <1>4, <1>5 DEF A, B
  <2>2. /\ IsFiniteSet(A \cup B)
        /\ Cardinality(A \cup B) = Cardinality(A) + Cardinality(B) - Cardinality(A \cap B)
    BY <2>1, FS_Union
  <2>3. Cardinality(A \cap B) \in Nat /\ Cardinality(A) \in Nat /\ Cardinality(B) \in Nat
    BY <2>1, FS_Intersection, FS_CardinalityType
  <2>4. Cardinality(upTo) <= Cardinality(A \cup B)
    BY <2>1, <2>2, FS_Subset
  <2>5. Cardinality(upTo) \in Nat
    BY <1>1
  <2> QED
    BY <2>2, <2>3, <2>4, <2>5 DEF A, B
<1> QED
  BY <1>1, <1>4, <1>5, <1>6

\* A page takes up where the offset points and ends where the next offset does:
\* no entry at or behind the offset is passed over, and none is left when the
\* page is empty.
LEMMA PagesAdjoin ==
  ASSUME LogOK, NEW offset \in Nat, NEW limit \in Nat \ {0}
  PROVE  LET page == Ranked(offset, offset + limit - 1)
         IN  /\ IsFiniteSet(page) /\ Cardinality(page) \in Nat
             /\ \A e \in log : e \in page <=> Rank(e) \in offset..(offset + Cardinality(page) - 1)
             /\ page = {} => \A e \in log : Rank(e) < offset
<1> DEFINE page == Ranked(offset, offset + limit - 1)
<1>1. IsFiniteSet(page) /\ Cardinality(page) \in Nat /\ Cardinality(page) <= limit
  BY FewRanked
<1>2. ASSUME NEW e \in page
      PROVE  Rank(e) < offset + Cardinality(page)
  <2>1. e \in log /\ Rank(e) \in Nat /\ offset <= Rank(e) /\ Rank(e) <= offset + limit - 1
    BY RankIsNatural DEF Ranked
  <2>2. Ranked(offset, Rank(e)) \subseteq page
    BY <2>1 DEF Ranked
  <2>3. Cardinality(Ranked(offset, Rank(e))) <= Cardinality(page)
    BY <1>1, <2>2, FS_Subset
  <2>4. Cardinality(Ranked(offset, Rank(e))) >= Rank(e) - offset + 1
    BY <2>1, NoRankIsFree
  <2>5. Cardinality(Ranked(offset, Rank(e))) \in Nat
    BY <2>1, FewRanked
  <2> QED
    BY <1>1, <2>1, <2>3, <2>4, <2>5
<1>3. ASSUME NEW e \in log, Rank(e) \in offset..(offset + Cardinality(page) - 1)
      PROVE  e \in page
  BY <1>1, <1>3 DEF Ranked
<1>4. ASSUME page = {}, NEW e \in log, ~(Rank(e) < offset)
      PROVE  FALSE
  <2>1. Rank(e) \in Nat /\ Rank(e) >= offset
    BY <1>4, RankIsNatural
  <2>2. Rank(e) > offset + limit - 1
    BY <1>4, <2>1 DEF Ranked
  <2>3. Ranked(offset, Rank(e)) = Ranked(offset + limit, Rank(e))
    <3>1. \A f \in log : Rank(f) \in Nat /\ Rank(f) \notin offset..(offset + limit - 1)
      BY <1>4, RankIsNatural DEF Ranked
    <3> QED
      BY <2>1, <3>1 DEF Ranked
  <2>4. Cardinality(Ranked(offset, Rank(e))) >= Rank(e) - offset + 1
    BY <2>1, NoRankIsFree
  <2>5. /\ Cardinality(Ranked(offset + limit, Rank(e))) \in Nat
        /\ Cardinality(Ranked(offset + limit, Rank(e))) <= Rank(e) - (offset + limit) + 1
    <3>1. offset + limit \in Int /\ Rank(e) \in Int /\ offset + limit <= Rank(e) + 1
      BY <2>1, <2>2
    <3> QED
      BY <3>1, FewRanked
  <2> QED
    BY <2>1, <2>3, <2>4, <2>5
<1>5. ASSUME NEW e \in page
      PROVE  Rank(e) \in offset..(offset + Cardinality(page) - 1)
  <2>1. Rank(e) \in Nat /\ offset <= Rank(e)
    BY RankIsNatural DEF Ranked
  <2> QED
    BY <1>1, <1>2, <2>1
<1> HIDE DEF page
<1> QED
  BY <1>1, <1>3, <1>4, <1>5 DEF page

-----------------------------------------------------------------------------
(* AuditLog: the walk *)

\* What has been shown and has gone behind the offset again: it will be repeated.
Pushed == {e \in seen \cap log : Rank(e) >= walk.offset}

\* What was there when the walk began is listed behind the offset or has been shown.
Covered == \A e \in before : Rank(e) < walk.offset => e \in seen

AuditInv ==
    /\ AuditTypeOK
    /\ IsFiniteSet(log) /\ before \subseteq log
    /\ recording \cap seen = {}
    /\ Covered
    /\ NothingVanishes
    /\ repeats + Cardinality(Pushed) <= appended

LEMMA AuditLogOK == AuditInv => LogOK
  BY DEF AuditInv, AuditTypeOK, LogOK

LEMMA PushedIsFinite ==
  ASSUME AuditInv
  PROVE  IsFiniteSet(Pushed) /\ Cardinality(Pushed) \in Nat
<1>1. Pushed \subseteq log /\ IsFiniteSet(log)
  BY DEF Pushed, AuditInv
<1> QED
  BY <1>1, FS_Subset, FS_CardinalityType

\* A step that leaves the order of the log, and the walk, alone.
LEMMA RanksStay ==
  ASSUME AuditInv, UNCHANGED <<log, walk, before, seen>>,
         \A e \in log : createdAt'[e] = createdAt[e]
  PROVE  /\ Pushed' = Pushed
         /\ Covered'
         /\ NothingVanishes'
<1>1. ASSUME NEW e \in log PROVE Rank(e)' = Rank(e)
  BY DEF Rank, Newer
<1>2. before \subseteq log
  BY DEF AuditInv
<1> QED
  BY <1>1, <1>2 DEF AuditInv, Pushed, Covered, NothingVanishes

LEMMA MakeKeeps ==
  ASSUME AuditInv, NEW e \in Events, Make(e)
  PROVE  AuditInv'
<1>1. /\ createdAt[e] = 0
      /\ createdAt' = [createdAt EXCEPT ![e] = clock]
      /\ recording' = recording \cup {e}
      /\ UNCHANGED <<clock, log, walk, before, seen, repeats, appended>>
  BY DEF Make, observed
<1>2. /\ clock \in 1..MaxTime
      /\ createdAt \in [Events -> 0..MaxTime]
      /\ recording \cup log \cup before \cup seen \subseteq {f \in Events : createdAt[f] # 0}
  BY DEF AuditInv, AuditTypeOK
<1>3. e \notin log /\ e \notin seen
  BY <1>1, <1>2
<1>4. \A f \in Events : createdAt'[f] = IF f = e THEN clock ELSE createdAt[f]
  BY <1>1, <1>2
<1>5. createdAt' \in [Events -> 0..MaxTime]
  BY <1>1, <1>2, AuditLogAssumption
<1>6. {f \in Events : createdAt'[f] # 0} = {f \in Events : createdAt[f] # 0} \cup {e}
  BY <1>1, <1>2, <1>4
<1>7. AuditTypeOK'
  BY <1>1, <1>3, <1>5, <1>6 DEF AuditInv, AuditTypeOK
<1>8. Pushed' = Pushed /\ Covered' /\ NothingVanishes'
  BY <1>1, <1>2, <1>3, <1>4, RanksStay
<1> QED
  BY <1>1, <1>3, <1>7, <1>8 DEF AuditInv

\* An entry that is recorded lowers no rank and raises none by more than one, so
\* at most one entry that has been shown goes behind the offset.
LEMMA RecordKeeps ==
  ASSUME AuditInv, NEW e \in Events, Record(e)
  PROVE  AuditInv'
<1>1. /\ e \in recording
      /\ recording' = recording \ {e}
      /\ UNCHANGED <<clock, createdAt, walk, before, seen, repeats>>
  BY DEF Record, observed
<1>2. CASE UNCHANGED <<log, appended>>
  <2>1. AuditTypeOK'
    BY <1>1, <1>2 DEF AuditInv, AuditTypeOK
  <2>2. Pushed' = Pushed /\ Covered' /\ NothingVanishes'
    BY <1>1, <1>2, RanksStay
  <2> QED
    BY <1>1, <1>2, <2>1, <2>2 DEF AuditInv
<1>3. CASE log' = log \cup {e} /\ appended' = appended + 1
  <2>1. AuditTypeOK' /\ IsFiniteSet(log') /\ LogOK /\ LogOK'
    <3>1. AuditTypeOK'
      BY <1>1, <1>3 DEF AuditInv, AuditTypeOK
    <3>2. IsFiniteSet(log')
      BY <1>3, FS_AddElement DEF AuditInv
    <3> QED
      BY <3>1, <3>2, AuditLogOK DEF AuditTypeOK, LogOK
  <2>2. e \notin log /\ e \notin seen /\ e \notin before
    BY <1>1 DEF AuditInv, AuditTypeOK
  <2>3. ASSUME NEW f \in log
        PROVE  /\ Rank(f) \in Nat /\ Rank(f)' \in Nat
               /\ Rank(f) <= Rank(f)' /\ Rank(f)' <= Rank(f) + 1
    <3>1. Ahead(f)' = IF Newer(e, f) THEN Ahead(f) \cup {e} ELSE Ahead(f)
      BY <1>1, <1>3 DEF Ahead, Newer
    <3>2. IsFiniteSet(Ahead(f)) /\ Rank(f) = Cardinality(Ahead(f)) /\ Rank(f) \in Nat
      BY <2>1, RankIsNatural
    <3>3. Rank(f)' = Cardinality(Ahead(f)')
      BY DEF Rank, Ahead
    <3>4. Cardinality(Ahead(f) \cup {e}) \in {Cardinality(Ahead(f)), Cardinality(Ahead(f)) + 1}
      BY <3>2, FS_AddElement
    <3> QED
      BY <3>1, <3>2, <3>3, <3>4
  <2>4. walk.offset \in Nat
    BY DEF AuditInv, AuditTypeOK
  <2>5. Covered' /\ NothingVanishes'
    <3>1. ASSUME NEW f \in before, Rank(f)' < walk.offset PROVE f \in seen
      <4>1. f \in log
        BY DEF AuditInv
      <4>2. Rank(f) < walk.offset
        BY <2>3, <2>4, <3>1, <4>1
      <4> QED
        BY <4>2 DEF AuditInv, Covered
    <3> QED
      BY <1>1, <3>1 DEF AuditInv, Covered, NothingVanishes
  <2> DEFINE last == Ranked(walk.offset - 1, walk.offset - 1)
  <2>6. Pushed' \subseteq Pushed \cup last
    <3> SUFFICES ASSUME NEW f \in seen \cap log', Rank(f)' >= walk.offset
                 PROVE  f \in Pushed \cup last
      BY <1>1 DEF Pushed
    <3>1. f \in log
      BY <1>3, <2>2
    <3>2. Rank(f) >= walk.offset \/ Rank(f) = walk.offset - 1
      BY <2>3, <2>4, <3>1
    <3> QED
      BY <2>3, <2>4, <3>1, <3>2 DEF Pushed, Ranked
  <2>7. IsFiniteSet(last) /\ Cardinality(last) \in Nat /\ Cardinality(last) <= 1
    <3> DEFINE o == walk.offset - 1
    <3>1. o \in Int /\ o <= o + 1 /\ o - o + 1 = 1
      BY <2>4
    <3> HIDE DEF o
    <3>2. /\ IsFiniteSet(Ranked(o, o)) /\ Cardinality(Ranked(o, o)) \in Nat
          /\ Cardinality(Ranked(o, o)) <= o - o + 1
      BY <2>1, <3>1, FewRanked
    <3> QED
      BY <3>1, <3>2 DEF o
  <2>8. Cardinality(Pushed') <= Cardinality(Pushed) + 1 /\ Cardinality(Pushed') \in Nat
    <3> HIDE DEF last
    <3>1. IsFiniteSet(Pushed) /\ Cardinality(Pushed) \in Nat
      BY PushedIsFinite
    <3>2. /\ IsFiniteSet(Pushed \cup last)
          /\ Cardinality(Pushed \cup last)
                 = Cardinality(Pushed) + Cardinality(last) - Cardinality(Pushed \cap last)
      BY <2>7, <3>1, FS_Union
    <3>3. Cardinality(Pushed \cap last) \in Nat
      BY <3>1, FS_Intersection, FS_CardinalityType
    <3>4. Cardinality(Pushed') <= Cardinality(Pushed \cup last) /\ Cardinality(Pushed') \in Nat
      BY <2>6, <3>2, FS_Subset, FS_CardinalityType
    <3> QED
      BY <2>7, <3>1, <3>2, <3>3, <3>4
  <2>9. (repeats + Cardinality(Pushed) <= appended)'
    <3>1. repeats \in Nat /\ appended \in Nat /\ repeats + Cardinality(Pushed) <= appended
      BY DEF AuditInv, AuditTypeOK
    <3>2. Cardinality(Pushed) \in Nat
      BY PushedIsFinite
    <3> QED
      BY <1>1, <1>3, <2>8, <3>1, <3>2
  <2> QED
    BY <1>1, <1>3, <2>1, <2>5, <2>9 DEF AuditInv
<1> QED
  BY <1>2, <1>3 DEF Record

\* A page moves the offset behind what it shows.  What it repeats had been pushed
\* behind the old offset, and is no longer behind the new one.
LEMMA NextPageKeeps ==
  ASSUME AuditInv, NextPage
  PROVE  AuditInv'
<1>0. PICK asked \in 0..(MaxLimit + 1) : \E page \in Pages(walk.offset, Limit(asked)) :
          /\ walk' = IF page = {} THEN [walk EXCEPT !.on = FALSE, !.done = TRUE]
                     ELSE [walk EXCEPT !.offset = @ + Cardinality(page)]
          /\ seen' = seen \cup page
          /\ repeats' = repeats + Cardinality(seen \cap page)
  BY DEF NextPage
<1>1. PICK page \in Pages(walk.offset, Limit(asked)) :
          /\ walk' = IF page = {} THEN [walk EXCEPT !.on = FALSE, !.done = TRUE]
                     ELSE [walk EXCEPT !.offset = @ + Cardinality(page)]
          /\ seen' = seen \cup page
          /\ repeats' = repeats + Cardinality(seen \cap page)
  BY <1>0
<1>2. walk.on /\ UNCHANGED <<clock, createdAt, recording, log, before, appended>>
  BY DEF NextPage
<1>3. /\ walk \in [on : BOOLEAN, done : BOOLEAN, offset : Nat] /\ ~walk.done
      /\ repeats \in Nat /\ appended \in Nat /\ walk.offset \in Nat
  BY <1>2 DEF AuditInv, AuditTypeOK
<1> DEFINE limit == Limit(asked)
<1>4. limit \in Nat \ {0}
  BY AuditLogAssumption DEF Limit
<1>5. page = Ranked(walk.offset, walk.offset + limit - 1)
  BY DEF Pages, Ranked
<1> HIDE DEF limit
<1>6. /\ IsFiniteSet(page) /\ Cardinality(page) \in Nat
      /\ \A e \in log : e \in page <=> Rank(e) \in walk.offset..(walk.offset + Cardinality(page) - 1)
      /\ page = {} => \A e \in log : Rank(e) < walk.offset
  BY <1>3, <1>4, <1>5, PagesAdjoin, AuditLogOK
<1>7. walk'.offset = walk.offset + Cardinality(page) /\ walk'.offset \in Nat
  <2>1. CASE page = {}
    <3>1. Cardinality(page) = 0
      BY <2>1, FS_EmptySet
    <3> QED
      BY <1>1, <1>3, <2>1, <3>1
  <2>2. CASE page # {}
    BY <1>1, <1>3, <1>6, <2>2
  <2> QED
    BY <2>1, <2>2
<1>8. walk' \in [on : BOOLEAN, done : BOOLEAN, offset : Nat] /\ (walk'.on => ~walk'.done)
  <2>1. CASE page = {}
    BY <1>1, <1>3, <2>1
  <2>2. CASE page # {}
    <3> DEFINE next == walk.offset + Cardinality(page)
    <3>1. walk' = [walk EXCEPT !.offset = next] /\ next \in Nat
      BY <1>1, <1>3, <1>6, <2>2
    <3> HIDE DEF next
    <3> QED
      BY <1>3, <3>1
  <2> QED
    BY <2>1, <2>2
<1>9. page \subseteq log
  BY <1>5 DEF Ranked
<1>10. repeats' \in Nat
  <2>1. Cardinality(seen \cap page) \in Nat
    BY <1>6, FS_Intersection, FS_CardinalityType
  <2> QED
    BY <1>1, <1>3, <2>1
<1>11. AuditTypeOK'
  BY <1>1, <1>2, <1>3, <1>8, <1>9, <1>10 DEF AuditInv, AuditTypeOK
<1>12. \A e \in log : Rank(e) \in Nat /\ Rank(e)' = Rank(e)
  BY <1>2, RankIsNatural, AuditLogOK DEF Rank, Newer
<1>13. before \subseteq log
  BY DEF AuditInv
<1>14. Covered'
  <2> SUFFICES ASSUME NEW e \in before, Rank(e) < walk.offset + Cardinality(page)
               PROVE  e \in seen \cup page
    BY <1>1, <1>2, <1>7, <1>12, <1>13 DEF Covered
  <2>1. e \in log
    BY <1>13
  <2>2. Rank(e) < walk.offset \/ Rank(e) \in walk.offset..(walk.offset + Cardinality(page) - 1)
    BY <1>3, <1>6, <1>12, <2>1
  <2> QED
    BY <1>6, <2>1, <2>2 DEF AuditInv, Covered
<1>15. NothingVanishes'
  <2> SUFFICES ASSUME page = {} PROVE before \subseteq seen
    BY <1>1, <1>2, <1>3 DEF NothingVanishes
  <2> QED
    BY <1>6, <1>13 DEF AuditInv, Covered
<1>16. (repeats + Cardinality(Pushed) <= appended)'
  <2> DEFINE again == seen \cap page
             rest == Pushed'
  <2>1. rest \subseteq Pushed /\ rest \cap again = {} /\ again \subseteq Pushed
    <3>1. \A e \in rest : e \in log /\ e \notin page /\ e \in seen /\ Rank(e) >= walk.offset
      <4> SUFFICES ASSUME NEW e \in (seen \cup page) \cap log,
                          Rank(e) >= walk.offset + Cardinality(page)
                   PROVE  e \notin page /\ Rank(e) >= walk.offset
        BY <1>1, <1>2, <1>7, <1>12 DEF Pushed
      <4> QED
        BY <1>3, <1>6, <1>12
    <3>2. \A e \in again : e \in seen \cap log /\ Rank(e) >= walk.offset
      BY <1>3, <1>6, <1>9, <1>12
    <3> HIDE DEF rest
    <3> QED
      BY <3>1, <3>2 DEF Pushed
  <2>2. IsFiniteSet(Pushed) /\ Cardinality(Pushed) \in Nat
    BY PushedIsFinite
  <2> HIDE DEF again, rest
  <2>3. IsFiniteSet(again) /\ IsFiniteSet(rest)
    BY <2>1, <2>2, FS_Subset
  <2>4. Cardinality(again) \in Nat /\ Cardinality(rest) \in Nat
    BY <2>3, FS_CardinalityType
  <2>5. Cardinality(rest \cup again) = Cardinality(rest) + Cardinality(again) - Cardinality({})
    BY <2>1, <2>3, FS_Union
  <2>6. Cardinality({}) = 0
    BY FS_EmptySet
  <2>7. Cardinality(rest \cup again) <= Cardinality(Pushed)
    BY <2>1, <2>2, FS_Subset
  <2>8. repeats + Cardinality(Pushed) <= appended
    BY DEF AuditInv
  <2>9. repeats' = repeats + Cardinality(again)
    BY <1>1 DEF again
  <2>10. repeats' + Cardinality(rest) <= appended
    BY <1>3, <2>2, <2>4, <2>5, <2>6, <2>7, <2>8, <2>9
  <2> QED
    BY <1>2, <2>10 DEF rest
<1>17. (recording \cap seen = {})'
  BY <1>1, <1>2, <1>9 DEF AuditInv, AuditTypeOK
<1> QED
  BY <1>2, <1>11, <1>14, <1>15, <1>16, <1>17 DEF AuditInv

\* A walk that begins has shown and repeated nothing.
LEMMA StartWalkKeeps ==
  ASSUME AuditInv, StartWalk
  PROVE  AuditInv'
<1>1. /\ walk' = [on |-> TRUE, done |-> FALSE, offset |-> 0]
      /\ before' = log /\ seen' = {} /\ repeats' = 0 /\ appended' = 0
      /\ UNCHANGED <<clock, createdAt, recording, log>>
  BY DEF StartWalk
<1>2. AuditTypeOK'
  BY <1>1 DEF AuditInv, AuditTypeOK
<1>3. Pushed' = {} /\ Cardinality({}) = 0
  BY <1>1, FS_EmptySet DEF Pushed
<1>4. Covered'
  <2>1. \A e \in log : Rank(e)' = Rank(e) /\ Rank(e) \in Nat
    BY <1>1, RankIsNatural, AuditLogOK DEF Rank, Newer
  <2> QED
    BY <1>1, <2>1 DEF Covered
<1> QED
  BY <1>1, <1>2, <1>3, <1>4 DEF AuditInv, NothingVanishes

\* A table that is dropped takes all that was there when the walk began with it.
LEMMA ClearKeeps ==
  ASSUME AuditInv, Clear
  PROVE  AuditInv'
<1>1. /\ log' = {} /\ before' = {}
      /\ UNCHANGED <<clock, createdAt, recording, walk, seen, repeats, appended>>
  BY DEF Clear
<1>2. AuditTypeOK'
  BY <1>1 DEF AuditInv, AuditTypeOK
<1>3. Pushed' = {} /\ IsFiniteSet({}) /\ Cardinality({}) = 0
  BY <1>1, FS_EmptySet DEF Pushed
<1>4. repeats <= appended
  BY PushedIsFinite DEF AuditInv, AuditTypeOK
<1>5. (repeats + Cardinality(Pushed) <= appended)'
  BY <1>1, <1>3, <1>4 DEF AuditInv, AuditTypeOK
<1> QED
  BY <1>1, <1>2, <1>3, <1>5 DEF AuditInv, Covered, NothingVanishes

LEMMA GiveUpKeeps ==
  ASSUME AuditInv, GiveUp
  PROVE  AuditInv'
<1>1. /\ walk' = [walk EXCEPT !.on = FALSE]
      /\ UNCHANGED <<clock, createdAt, recording, log, before, seen, repeats, appended>>
  BY DEF GiveUp, observed
<1>2. walk \in [on : BOOLEAN, done : BOOLEAN, offset : Nat]
  BY DEF AuditInv, AuditTypeOK
<1>3. walk'.offset = walk.offset /\ walk'.done = walk.done /\ ~walk'.on
      /\ walk' \in [on : BOOLEAN, done : BOOLEAN, offset : Nat]
  BY <1>1, <1>2
<1>4. AuditTypeOK'
  BY <1>1, <1>3 DEF AuditInv, AuditTypeOK
<1>5. Pushed' = Pushed /\ Covered' /\ NothingVanishes'
  BY <1>1, <1>3 DEF AuditInv, Pushed, Covered, NothingVanishes, Rank, Newer
<1> QED
  BY <1>1, <1>4, <1>5 DEF AuditInv

LEMMA AuditInitIsGood == AuditInit => AuditInv
<1> SUFFICES ASSUME AuditInit PROVE AuditInv
  OBVIOUS
<1>1. AuditTypeOK
  BY AuditLogAssumption DEF AuditInit, AuditTypeOK
<1>2. Pushed = {} /\ IsFiniteSet({}) /\ Cardinality({}) = 0
  BY FS_EmptySet DEF AuditInit, Pushed
<1> QED
  BY <1>1, <1>2 DEF AuditInit, AuditInv, Covered, NothingVanishes

LEMMA AuditNextKeeps == AuditInv /\ [AuditNext]_auditVars => AuditInv'
<1> SUFFICES ASSUME AuditInv, [AuditNext]_auditVars PROVE AuditInv'
  OBVIOUS
<1>1. CASE UNCHANGED auditVars
  <2>1. UNCHANGED <<clock, createdAt, recording, log, walk, before, seen, repeats, appended>>
    BY <1>1 DEF auditVars
  <2> QED
    BY <2>1 DEF AuditInv, AuditTypeOK, Covered, NothingVanishes, Pushed, Rank, Newer
<1>2. CASE Tick
  <2>1. clock < MaxTime /\ clock' = clock + 1
        /\ UNCHANGED <<createdAt, recording, log, walk, before, seen, repeats, appended>>
    BY <1>2 DEF Tick, observed
  <2>2. AuditTypeOK'
    BY <2>1, AuditLogAssumption DEF AuditInv, AuditTypeOK
  <2> QED
    BY <2>1, <2>2, RanksStay DEF AuditInv
<1> QED
  BY <1>1, <1>2, ClearKeeps, StartWalkKeeps, NextPageKeeps, GiveUpKeeps, MakeKeeps, RecordKeeps
     DEF AuditNext

\* Types of the audit log: no entry is shown before it is made, and none is both
\* in the log and still to be inserted.
LEMMA AuditTypeCorrect == AuditSpec => []AuditTypeOK
<1>1. AuditInv => AuditTypeOK
  BY DEF AuditInv
<1> QED
  BY <1>1, AuditInitIsGood, AuditNextKeeps, PTL DEF AuditSpec

\* audit.go:88: whatever is recorded meanwhile, a walk through the pages that has
\* come to its end has shown all that was there when it began.
THEOREM NothingVanishesHolds == AuditSpec => []NothingVanishes
<1>1. AuditInv => NothingVanishes
  BY DEF AuditInv
<1> QED
  BY <1>1, AuditInitIsGood, AuditNextKeeps, PTL DEF AuditSpec

\* audit.go:88: a walk shows an entry again at most once for every entry that was
\* recorded since it began.
THEOREM RepeatsBoundedHolds == AuditSpec => []RepeatsBounded
<1>1. AuditInv => RepeatsBounded
  BY PushedIsFinite DEF AuditInv, AuditTypeOK, RepeatsBounded
<1> QED
  BY <1>1, AuditInitIsGood, AuditNextKeeps, PTL DEF AuditSpec

-----------------------------------------------------------------------------
(* Side by side *)

\* What is proved of each of the four alone holds of it next to the others: no
\* step of one is seen by another.
LEMMA AdminImplementsParts ==
  /\ AdminSpec => Spec
  /\ AdminSpec => OrgSpec
  /\ AdminSpec => AuditSpec
  /\ AdminSpec => SharedSpec
<1>1. AdminInit => Init /\ OrgInit /\ AuditInit /\ SharedInit
  BY DEF AdminInit
<1>2. [AdminNext]_<<side, vars, orgVars, auditVars, sharedVars>> =>
          [Next]_vars /\ [OrgNext]_orgVars /\ [AuditNext]_auditVars /\ [SharedNext]_sharedVars
  BY DEF AdminNext
<1> QED
  BY <1>1, <1>2, PTL DEF AdminSpec, Spec, OrgSpec, AuditSpec, SharedSpec

\* The types of the organization's row, of its audit log and of the requests
\* about either, whatever the administrators do next to them.
THEOREM OrgAndAuditTypeCorrect == AdminSpec => []OrgAndAuditTypeOK
<1>1. OrgTypeOK /\ AuditTypeOK => OrgAndAuditTypeOK
  BY DEF OrgAndAuditTypeOK
<1> QED
  BY <1>1, AdminImplementsParts, OrgTypeCorrect, AuditTypeCorrect, PTL
=============================================================================
