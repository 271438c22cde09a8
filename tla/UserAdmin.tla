------------------------------ MODULE UserAdmin ------------------------------
(***************************************************************************)
(* User management of an instance in organization mode: registration, role *)
(* changes, suspension, removal and self-deletion, served by concurrent    *)
(* goroutines.                                                             *)
(* A handler holds no lock and opens no transaction: it decides on rows it *)
(* has read, then writes.  Each action below is one SQL statement with the *)
(* code up to the next one, so the steps of two requests may interleave    *)
(* anywhere between two statements.                                        *)
(*                                                                         *)
(* Accounts are numbered in the order of user.created_at and a number is   *)
(* never reused (the ids are UUIDs).  Sessions, credentials and the audit  *)
(* log are left out: no decision of these handlers reads them.             *)
(***************************************************************************)
EXTENDS Naturals, FiniteSets

CONSTANTS
    MaxUsers,   \* bound: how many accounts are ever created
    Procs       \* the goroutines that serve requests

ASSUME UserAdminAssumption == MaxUsers \in Nat \ {0}

VARIABLES
    role,       \* role[u]: the role column, or "none" while u has no row
    status,     \* status[u]: the status column
    created,    \* how many accounts have been created so far
    req         \* req[p]: what the handler running in p has read and decided

vars == <<role, status, created, req>>

Users == 1..MaxUsers
Roles == {"owner", "admin", "member"}
Statuses == {"active", "suspended"}
IsAdminRole(r) == r \in {"owner", "admin"}

\* What a request asks for: a new role, a new status, a removal through user
\* management, the deletion of the caller's own account, or an account.
Ops == Roles \cup Statuses \cup {"remove", "delete", "register"}

Accounts == {u \in Users : role[u] # "none"}
Owners == {u \in Users : role[u] = "owner"}

\* The rows countActiveAdmins counts.
ActiveAdmins == {u \in Users : IsAdminRole(role[u]) /\ status[u] = "active"}

\* actorRole and targetRole are the roles as loaded when the request looked
\* (actorRole is the role a registration has chosen); admins is the set of rows
\* its count saw.
Idle == [pc |-> "idle", op |-> "remove", target |-> 1,
         actorRole |-> "member", targetRole |-> "member", admins |-> {}]

Request == [pc : {"idle", "find", "count", "write", "create"}, op : Ops, target : Users,
            actorRole : Roles, targetRole : Roles, admins : SUBSET Users]

Init ==
    /\ role = [u \in Users |-> IF u = 1 THEN "owner" ELSE "none"]
    /\ status = [u \in Users |-> "active"]
    /\ created = 1
    /\ req = [p \in Procs |-> Idle]

-----------------------------------------------------------------------------
\* Faulty variant: the guard without the self-deletion path.
ConsultsGuardWithoutDelete(op, targetRole) ==
    op \in {"member", "suspended", "remove"} /\ IsAdminRole(targetRole)

\* The last-admin guard is consulted only by a request that takes the admin
\* role away from a target it saw holding it.
ConsultsGuard(op, targetRole) ==
    /\ op \in {"member", "suspended", "remove", "delete"}
    /\ IsAdminRole(targetRole)

\* The request has what it needs to write, or has to count the admins first.
Decided(op, targetRole) ==
    IF ConsultsGuard(op, targetRole) THEN "count" ELSE "write"

\* Faulty variant: no guardOwnerTarget.
RefusedWithoutOwnerGuard(op, actorRole, targetRole, targetStatus) ==
    \/ op = "owner" /\ (actorRole # "owner" \/ targetStatus # "active")
    \/ op \in Roles /\ targetRole = op
    \/ op \in Statuses /\ targetStatus = op

\* The early returns between findUser and the guard: only an owner adds or
\* touches an owner, a suspended user cannot become one, and a request for
\* what already holds is answered without a write.
Refused(op, actorRole, targetRole, targetStatus) ==
    \/ op = "owner" /\ (actorRole # "owner" \/ targetStatus # "active")
    \/ targetRole = "owner" /\ actorRole # "owner"
    \/ op \in Roles /\ targetRole = op
    \/ op \in Statuses /\ targetStatus = op

\* middleware.Auth loads the caller's row, RequireAdmin judges that copy, and
\* findUser turns away a request on the caller's own account.
AdmitManager(p) ==
    /\ req[p].pc = "idle"
    /\ \E actor, target \in Users, op \in Ops \ {"delete", "register"} :
        /\ status[actor] = "active"
        /\ IsAdminRole(role[actor])
        /\ target # actor
        /\ req' = [req EXCEPT ![p] = [Idle EXCEPT !.pc = "find", !.op = op,
                            !.target = target, !.actorRole = role[actor]]]
    /\ UNCHANGED <<role, status, created>>

\* DeleteAccount re-authenticates against the copy Auth loaded; the guard
\* looks at the role in that copy.
AdmitSelfDeletion(p) ==
    /\ req[p].pc = "idle"
    /\ \E actor \in Accounts :
        /\ status[actor] = "active"
        /\ req' = [req EXCEPT ![p] = [Idle EXCEPT
                            !.pc = Decided("delete", role[actor]),
                            !.op = "delete", !.target = actor,
                            !.actorRole = role[actor],
                            !.targetRole = role[actor]]]
    /\ UNCHANGED <<role, status, created>>

\* findUser reads the target's row; a missing row or an early return answers
\* the request, otherwise the handler goes on with the copy it has read.
FindUser(p) ==
    LET r == req[p]
    IN /\ r.pc = "find"
       /\ \/ /\ \/ r.target \notin Accounts
                \/ Refused(r.op, r.actorRole, role[r.target], status[r.target])
             /\ req' = [req EXCEPT ![p] = Idle]
          \/ /\ r.target \in Accounts
             /\ ~Refused(r.op, r.actorRole, role[r.target], status[r.target])
             /\ req' = [req EXCEPT ![p].pc = Decided(r.op, role[r.target]),
                                   ![p].targetRole = role[r.target]]
       /\ UNCHANGED <<role, status, created>>

\* The last-admin guard: one COUNT query, and a refusal when it finds one row.
CountActiveAdmins(p) ==
    /\ req[p].pc = "count"
    /\ req' = [req EXCEPT ![p] =
                 IF Cardinality(ActiveAdmins) <= 1 THEN Idle
                 ELSE [@ EXCEPT !.pc = "write", !.admins = ActiveAdmins]]
    /\ UNCHANGED <<role, status, created>>

\* The UPDATE or DELETE by primary key; it matches no row once the target is
\* gone.
Write(p) ==
    LET r == req[p]
    IN /\ r.pc = "write"
       /\ role' = IF r.target \notin Accounts \/ r.op \in Statuses THEN role
                  ELSE [role EXCEPT ![r.target] =
                          IF r.op \in Roles THEN r.op ELSE "none"]
       /\ status' = IF r.target \in Accounts /\ r.op \in Statuses
                    THEN [status EXCEPT ![r.target] = r.op] ELSE status
       /\ req' = [req EXCEPT ![p] = Idle]
       /\ UNCHANGED created

\* Register chooses the role from its own COUNT, before the password is
\* hashed: founder of an empty organization, or member.  The error of the
\* count is dropped, and the count then reads 0.
StartRegistration(p) ==
    /\ req[p].pc = "idle"
    /\ \E n \in {0, Cardinality(Accounts)} :
        req' = [req EXCEPT ![p] = [Idle EXCEPT !.pc = "create", !.op = "register",
                        !.actorRole = IF n = 0 THEN "owner" ELSE "member"]]
    /\ UNCHANGED <<role, status, created>>

CreateAccount(p) ==
    /\ req[p].pc = "create"
    /\ created < MaxUsers
    /\ created' = created + 1
    /\ role' = [role EXCEPT ![created + 1] = req[p].actorRole]
    /\ req' = [req EXCEPT ![p] = Idle]
    /\ UNCHANGED status

\* A statement fails: the handler answers without a write.  A failed last-admin
\* count reads 0, which the guard takes for a refusal.
StatementFails(p) ==
    /\ req[p].pc # "idle"
    /\ req' = [req EXCEPT ![p] = Idle]
    /\ UNCHANGED <<role, status, created>>

\* The account that registered first, if there is any.
Oldest == {u \in Accounts : \A v \in Accounts : u <= v}

\* Faulty variant: EnsureOrgOwner without the check that a user was found.
RestartWithoutLookup ==
    \E owners \in {0, Cardinality(Owners)}, found \in {{}, Oldest} :
        /\ role' = [u \in Users |-> IF owners = 0 /\ (found = {} \/ u \in found)
                                    THEN "owner" ELSE role[u]]
        /\ req' = [p \in Procs |-> Idle]
        /\ UNCHANGED <<status, created>>

\* The process stops, losing every request in flight, and boots again.
\* EnsureOrgOwner promotes the oldest account when it counts no owner.  It
\* drops its errors: a count that fails reads 0, and the lookup or the update
\* may fail too, which leaves the instance as it is.
Restart ==
    \E owners \in {0, Cardinality(Owners)}, found \in {{}, Oldest} :
        /\ role' = [u \in Users |-> IF owners = 0 /\ u \in found
                                    THEN "owner" ELSE role[u]]
        /\ req' = [p \in Procs |-> Idle]
        /\ UNCHANGED <<status, created>>

Next ==
    \/ \E p \in Procs : \/ AdmitManager(p) \/ AdmitSelfDeletion(p)
                        \/ FindUser(p) \/ CountActiveAdmins(p) \/ Write(p)
                        \/ StartRegistration(p) \/ CreateAccount(p)
                        \/ StatementFails(p)
    \/ Restart

Spec == Init /\ [][Next]_vars

-----------------------------------------------------------------------------
\* Types, and what the numbering of accounts means: a number above `created`
\* has no row yet, and the row it will get is an active one.
TypeOK ==
    /\ role \in [Users -> Roles \cup {"none"}]
    /\ status \in [Users -> Statuses]
    /\ created \in Users
    /\ req \in [Procs -> Request]
    /\ \A u \in Users : u > created => role[u] = "none" /\ status[u] = "active"

\* A request about to write acts on outdated data: the admins it counted, or
\* the role it saw its target hold, have changed since.
Outdated(r) ==
    \/ role[r.target] # r.targetRole
    \/ ConsultsGuard(r.op, r.targetRole) /\ r.admins # ActiveAdmins

\* The last-admin guards of demotion, suspension, removal and self-deletion:
\* the organization loses its last active administrator only through a request
\* that decided on data another request has changed in the meantime.
LastAdminStep ==
    (ActiveAdmins # {} /\ ActiveAdmins' = {}) =>
        \E p \in Procs : req[p].pc = "write" /\ Outdated(req[p])
LastAdminGuard == [][LastAdminStep]_vars

\* guardOwnerTarget (orgusers.go:33) lets only owners touch an owner: an owner
\* stops being an active owner only through a request of an owner, its own
\* deletion included, unless the request saw the target before it became one.
OwnerStep ==
    \A u \in Owners :
        (role'[u] # "owner" \/ status'[u] # status[u]) =>
            \E p \in Procs : /\ req[p].pc = "write" /\ req[p].target = u
                             /\ \/ req[p].actorRole = "owner"
                                \/ req[p].targetRole # "owner"
OwnersArePeers == [][OwnerStep]_vars

\* What models/user.go:11 says of the owner, "untouchable through user
\* management": an owner loses its role, its activity or its account by its own
\* deletion only.
UntouchableStep ==
    \A u \in Owners :
        (role'[u] # "owner" \/ status'[u] # status[u]) =>
            \E p \in Procs : /\ req[p].pc = "write" /\ req[p].target = u
                             /\ req[p].op = "delete"
OwnersUntouchable == [][UntouchableStep]_vars

\* What countActiveAdmins (helpers.go:62-63) is for: an organization with
\* accounts always has somebody able to administer it.
Manageable == Accounts # {} => ActiveAdmins # {}

\* What the guard of DeleteAccount (settings.go:202-204) is for: somebody can
\* always revert to personal mode, which only an owner may do.
Revertible == Accounts # {} => \E u \in Owners : status[u] = "active"
=============================================================================
