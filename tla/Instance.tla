------------------------------- MODULE Instance -------------------------------
(***************************************************************************)
(* The deployment mode of an instance and who may join it: switching to an *)
(* organization and back (SwitchMode, appmode.Provider), the personal and  *)
(* the organization's sign-up policy, invites, registration and deletion   *)
(* of one's own account.  The mode and the personal sign-up switch live    *)
(* twice: in app_state, and in the provider's memory, which is what        *)
(* handlers read.                                                          *)
(*                                                                         *)
(* A step is one SQL statement with the code up to the next one, or one    *)
(* access to the provider that no statement follows at once; requests      *)
(* interleave between steps, statements fail and the process may stop      *)
(* anywhere.  Accounts are numbered by age.                                *)
(* User management is the subject of UserAdmin: here every account is      *)
(* active and roles change through the mode switches only.                 *)
(***************************************************************************)
EXTENDS Naturals, FiniteSets

CONSTANTS
    MaxUsers,   \* bound: how many accounts are ever created
    Invites,    \* bound: the invites that are ever minted
    NoInvite,   \* stands for a registration that needs no invite
    Procs       \* the goroutines that serve requests

ASSUME InstanceAssumption == MaxUsers \in Nat \ {0} /\ NoInvite \notin Invites

VARIABLES
    role,       \* role[u]: the role column, "none" while u has no row
    created,    \* how many accounts have been created so far
    db,         \* the app_state row: mode and allow_registration
    mem,        \* the provider: mode and openReg
    tables,     \* the organization tables that exist
    policy,     \* organization.registration, "none" without that row
    invite,     \* invite[i]: the state of its row
    req,        \* req[p]: the handler running in p, and what it has read
    disturbed,  \* history: what may set the provider and app_state apart since boot
    admitted,   \* history: how many accounts came in through each invite
    unburnt     \* history: invites whose burning was lost

vars == <<role, created, db, mem, tables, policy, invite, req,
          disturbed, admitted, unburnt>>
accounts == <<role, created>>
settings == <<db, mem>>
organization == <<tables, policy, invite>>
history == <<disturbed, admitted, unburnt>>

Users == 1..MaxUsers
Roles == {"owner", "admin", "member"}
Modes == {"personal", "organization"}
IsAdminRole(r) == r \in {"owner", "admin"}
Accounts == {u \in Users : role[u] # "none"}

\* firstAccount: the oldest account.
IsFirst(u) == u \in Accounts /\ \A v \in Accounts : u <= v

\* The tables EnableOrganization creates and RevertToPersonal drops; the four
\* that hold the shared vault and the audit log are one here.
OrgTables == {"shared", "invite", "organization"}

\* How far AutoMigrate may get, in the order it makes them.
Prefixes == {{}, {"organization"}, {"organization", "invite"}, OrgTables}

AtRest == [pc |-> "idle", actor |-> 1, empty |-> FALSE, role |-> "member",
           inv |-> NoInvite, val |-> FALSE]

Registering == {"gate", "policy", "lookup", "create", "burn"}
Enabling == {"find", "migrate", "promote", "demote", "seed", "enable", "flip_org"}
Dropping == {"drop_shared", "drop_invite", "drop_organization"}
Reverting == {"purge", "step_down", "revert", "close", "close_mem",
              "flip_personal"} \cup Dropping
Opening == {"open", "open_mem"}
Managing == {"set_policy", "mint", "delete_invites"}
Leaving == {"guard", "leave"}
Switching == Enabling \cup Reverting \cup Opening

\* Two settings requests overlapped, which says it all; a revert failed after
\* its persist; the boot did not get to read app_state.
Disturbances == {{"overlap"}} \cup SUBSET {"half_way", "misread"}

Request == [pc : {"idle"} \cup Registering \cup Switching \cup Managing \cup Leaving,
            actor : Users, empty : BOOLEAN, role : Roles,
            inv : Invites \cup {NoInvite}, val : BOOLEAN]

Init ==
    /\ role = [u \in Users |-> "none"]
    /\ created = 0
    /\ db = [mode |-> "personal", open |-> FALSE]
    /\ mem = db
    /\ tables = {}
    /\ policy = "none"
    /\ invite = [i \in Invites |-> "unborn"]
    /\ req = [p \in Procs |-> AtRest]
    /\ disturbed = {}
    /\ admitted = [i \in Invites |-> 0]
    /\ unburnt = {}

At(p, pc) == req[p].pc = pc
Goto(p, pc) == req' = [req EXCEPT ![p].pc = pc]
Answer(p) == req' = [req EXCEPT ![p] = AtRest]
Become(p, pc, r) == req' = [req EXCEPT ![p] = [AtRest EXCEPT !.pc = pc, !.role = r]]
Begin(p, r) == At(p, "idle") /\ req' = [req EXCEPT ![p] = r]

\* A settings request begins: two of them at a time disturb each other.
BeginSwitch(p, r) ==
    /\ Begin(p, r)
    /\ disturbed' = IF \E q \in Procs : req[q].pc \in Switching THEN {"overlap"} ELSE disturbed
    /\ UNCHANGED <<accounts, settings, organization, admitted, unburnt>>

-----------------------------------------------------------------------------
(* Register *)

\* The account count comes first; its error is dropped and it then reads 0.
CountUsers(p) ==
    /\ \E empty \in {TRUE, Accounts = {}} :
        Begin(p, [AtRest EXCEPT !.pc = "gate", !.empty = empty])
    /\ UNCHANGED <<accounts, settings, organization, history>>

\* What the mode in memory makes of the request: a founder, somebody the
\* organization's policy decides about, or a personal sign-up.
Gate(p) ==
    /\ At(p, "gate")
    /\ IF mem.mode = "organization"
       THEN IF req[p].empty THEN Become(p, "create", "owner")
                            ELSE Become(p, "policy", "member")
       ELSE IF req[p].empty \/ mem.open THEN Become(p, "create", "member")
                                        ELSE Answer(p)
    /\ UNCHANGED <<accounts, settings, organization, history>>

\* registrationPolicy: a missing row, a missing table or an error means invite.
ReadPolicy(p) ==
    /\ At(p, "policy")
    /\ Goto(p, "lookup") \/ (policy = "open" /\ Goto(p, "create"))
    /\ UNCHANGED <<accounts, settings, organization, history>>

\* Faulty variant: the outcome of the query and IsValid are not looked at.
LookUpUnchecked(p) ==
    /\ At(p, "lookup")
    /\ \E i \in Invites : req' = [req EXCEPT ![p].pc = "create", ![p].inv = i]
    /\ UNCHANGED <<accounts, settings, organization, history>>

\* findValidInvite
LookUp(p) ==
    /\ At(p, "lookup")
    /\ \/ \E i \in Invites :
            /\ invite[i] = "pending"
            /\ req' = [req EXCEPT ![p].pc = "create", ![p].inv = i]
       \/ Answer(p)
    /\ UNCHANGED <<accounts, settings, organization, history>>

CreateAccount(p) ==
    LET i == req[p].inv
    IN /\ At(p, "create")
       /\ created < MaxUsers
       /\ created' = created + 1
       /\ role' = [role EXCEPT ![created + 1] = req[p].role]
       /\ IF i = NoInvite THEN Answer(p) ELSE Goto(p, "burn")
       /\ admitted' = [j \in Invites |-> IF j = i THEN admitted[j] + 1 ELSE admitted[j]]
       /\ UNCHANGED <<settings, organization, disturbed, unburnt>>

\* Faulty variant: an invite is burnt only while the instance asks for one.
BurnInviteByPolicy(p) ==
    /\ At(p, "burn")
    /\ invite' = IF invite[req[p].inv] # "gone" /\ policy = "invite"
                 THEN [invite EXCEPT ![req[p].inv] = "used"] ELSE invite
    /\ Answer(p)
    /\ UNCHANGED <<accounts, settings, tables, policy, history>>

\* The UPDATE of used_at; a deleted invite stays deleted.
BurnInvite(p) ==
    /\ At(p, "burn")
    /\ invite' = IF invite[req[p].inv] = "gone" THEN invite
                 ELSE [invite EXCEPT ![req[p].inv] = "used"]
    /\ Answer(p)
    /\ UNCHANGED <<accounts, settings, tables, policy, history>>

-----------------------------------------------------------------------------
(* The organization's policy and its invites, for admins *)

\* Auth and RequireAdmin let an administrator in.
BeginManaging(p) ==
    /\ mem.mode = "organization"
    /\ \E u \in Accounts : IsAdminRole(role[u])
    /\ \E pc \in Managing : Begin(p, [AtRest EXCEPT !.pc = pc])
    /\ UNCHANGED <<accounts, settings, organization, history>>

\* UpdateRegistration of the organization; getOrCreate makes a missing row.
SetPolicy(p) ==
    /\ At(p, "set_policy")
    /\ \E asked \in {"open", "invite"} :
        policy' = IF "organization" \in tables THEN asked ELSE policy
    /\ Answer(p)
    /\ UNCHANGED <<accounts, settings, tables, invite, history>>

\* CreateInvite
Mint(p) ==
    /\ At(p, "mint")
    /\ \E i \in Invites :
        /\ invite[i] = "unborn"
        /\ invite' = IF "invite" \in tables THEN [invite EXCEPT ![i] = "pending"]
                     ELSE invite
    /\ Answer(p)
    /\ UNCHANGED <<accounts, settings, tables, policy, history>>

Deleted(doomed) ==
    invite' = [i \in Invites |-> IF i \in doomed THEN "gone" ELSE invite[i]]

Born == {i \in Invites : invite[i] # "unborn"}

\* RevokeInvite deletes one invite, PruneInvites the spent ones or all.
DeleteInvites(p) ==
    /\ At(p, "delete_invites")
    /\ \/ \E i \in Born : Deleted({i})
       \/ Deleted({i \in Born : invite[i] \in {"used", "expired"}})
       \/ Deleted(Born)
    /\ Answer(p)
    /\ UNCHANGED <<accounts, settings, tables, policy, history>>

\* The expiry time of an invite passes.
Expire ==
    /\ \E i \in Invites : /\ invite[i] = "pending"
                          /\ invite' = [invite EXCEPT ![i] = "expired"]
    /\ UNCHANGED <<accounts, settings, tables, policy, req, history>>

-----------------------------------------------------------------------------
(* SwitchMode to organization: EnableOrganization *)

\* SwitchMode reads the mode and lets the oldest account through.
BeginEnable(p) ==
    /\ mem.mode = "personal"
    /\ \E u \in Accounts :
        /\ IsFirst(u)
        /\ BeginSwitch(p, [AtRest EXCEPT !.pc = "find", !.actor = u])

\* The mode is read again, and the actor's row must exist.
FindActor(p) ==
    /\ At(p, "find")
    /\ IF mem.mode = "organization" \/ req[p].actor \notin Accounts
       THEN Answer(p) ELSE Goto(p, "migrate")
    /\ UNCHANGED <<accounts, settings, organization, history>>

\* Faulty variant: the list of tables no longer mirrors db.MigrateOrg.
MigrateOrgIncomplete(p) ==
    /\ At(p, "migrate")
    /\ tables' = tables \cup (OrgTables \ {"shared"})
    /\ Goto(p, "promote")
    /\ UNCHANGED <<accounts, settings, policy, invite, history>>

MigrateOrg(p) ==
    /\ At(p, "migrate")
    /\ tables' = OrgTables
    /\ Goto(p, "promote")
    /\ UNCHANGED <<accounts, settings, policy, invite, history>>

\* The promotion must find the row, or the switch gives up.
PromoteActor(p) ==
    /\ At(p, "promote")
    /\ IF req[p].actor \in Accounts
       THEN role' = [role EXCEPT ![req[p].actor] = "owner"] /\ Goto(p, "demote")
       ELSE Answer(p) /\ UNCHANGED role
    /\ UNCHANGED <<created, settings, organization, history>>

DemoteOthers(p) ==
    /\ At(p, "demote")
    /\ role' = [u \in Users |-> IF role[u] = "owner" /\ u # req[p].actor
                               THEN "admin" ELSE role[u]]
    /\ Become(p, "seed", "member")
    /\ UNCHANGED <<created, settings, organization, history>>

\* The organization row is made when it is missing; an error is dropped.
SeedOrganization(p) ==
    /\ At(p, "seed")
    /\ \/ policy' = IF policy = "none" /\ "organization" \in tables
                    THEN "invite" ELSE policy
       \/ UNCHANGED policy
    /\ Goto(p, "enable")
    /\ UNCHANGED <<accounts, settings, tables, invite, history>>

PersistOrganization(p) ==
    /\ At(p, "enable")
    /\ db' = [db EXCEPT !.mode = "organization"]
    /\ Goto(p, "flip_org")
    /\ UNCHANGED <<accounts, mem, organization, history>>

FlipToOrganization(p) ==
    /\ At(p, "flip_org")
    /\ mem' = [mem EXCEPT !.mode = "organization"]
    /\ Answer(p)
    /\ UNCHANGED <<accounts, db, organization, history>>

-----------------------------------------------------------------------------
(* SwitchMode to personal: revertToPersonal and RevertToPersonal *)

\* The role is judged on the copy Auth has loaded.
BeginRevert(p) ==
    /\ mem.mode = "organization"
    /\ \E u \in Accounts :
        /\ role[u] = "owner"
        /\ BeginSwitch(p, [AtRest EXCEPT !.pc = "purge", !.actor = u])

PurgeOthers(p) ==
    /\ At(p, "purge")
    /\ role' = [u \in Users |-> IF u = req[p].actor THEN role[u] ELSE "none"]
    /\ Goto(p, "step_down")
    /\ UNCHANGED <<created, settings, organization, history>>

\* The owner becomes a member; an error is dropped.
StepDown(p) ==
    /\ At(p, "step_down")
    /\ \/ role' = [u \in Users |-> IF u = req[p].actor /\ u \in Accounts
                                  THEN "member" ELSE role[u]]
       \/ UNCHANGED role
    /\ Become(p, "revert", "member")
    /\ UNCHANGED <<created, settings, organization, history>>

PersistPersonal(p) ==
    /\ At(p, "revert")
    /\ IF mem.mode = "organization"
       THEN db' = [db EXCEPT !.mode = "personal"] /\ Goto(p, "close")
       ELSE UNCHANGED db /\ Answer(p)
    /\ UNCHANGED <<accounts, mem, organization, history>>

\* Dropping a table loses its rows.
DropTable(p) ==
    /\ \/ /\ At(p, "drop_shared") /\ Goto(p, "drop_invite")
          /\ tables' = tables \ {"shared"}
          /\ UNCHANGED <<invite, policy>>
       \/ /\ At(p, "drop_invite") /\ Goto(p, "drop_organization")
          /\ tables' = tables \ {"invite"}
          /\ Deleted(Born)
          /\ UNCHANGED policy
       \/ /\ At(p, "drop_organization") /\ Goto(p, "flip_personal")
          /\ tables' = tables \ {"organization"}
          /\ policy' = "none"
          /\ UNCHANGED invite
    /\ UNCHANGED <<accounts, settings, history>>

FlipToPersonal(p) ==
    /\ At(p, "flip_personal")
    /\ mem' = [mem EXCEPT !.mode = "personal"]
    /\ Answer(p)
    /\ UNCHANGED <<accounts, db, organization, history>>

-----------------------------------------------------------------------------
(* SetRegistrationOpen, for a revert and for the oldest personal account *)

BeginOpening(p) ==
    /\ mem.mode = "personal"
    /\ \E u \in Accounts, val \in BOOLEAN :
        /\ IsFirst(u)
        /\ BeginSwitch(p, [AtRest EXCEPT !.pc = "open", !.val = val])

StoreOpen(p) ==
    /\ \/ At(p, "open") /\ Goto(p, "open_mem")
       \/ At(p, "close") /\ Goto(p, "close_mem")
    /\ db' = [db EXCEPT !.open = req[p].val]
    /\ UNCHANGED <<accounts, mem, organization, history>>

RememberOpen(p) ==
    /\ \/ At(p, "open_mem") /\ Answer(p)
       \/ At(p, "close_mem") /\ Goto(p, "drop_shared")
    /\ mem' = [mem EXCEPT !.open = req[p].val]
    /\ UNCHANGED <<accounts, db, organization, history>>

-----------------------------------------------------------------------------
(* DeleteAccount, failing statements and restarts *)

BeginLeaving(p) ==
    /\ \E u \in Accounts :
        Begin(p, [AtRest EXCEPT !.pc = "guard", !.actor = u, !.role = role[u]])
    /\ UNCHANGED <<accounts, settings, organization, history>>

\* The last-admin guard, which holds in organization mode only.
LeavingGuard(p) ==
    /\ At(p, "guard")
    /\ IF /\ mem.mode = "organization" /\ IsAdminRole(req[p].role)
          /\ Cardinality({u \in Accounts : IsAdminRole(role[u])}) <= 1
       THEN Answer(p)
       ELSE req' = [req EXCEPT ![p].pc = "leave", ![p].role = "member"]
    /\ UNCHANGED <<accounts, settings, organization, history>>

Leave(p) ==
    /\ At(p, "leave")
    /\ role' = [role EXCEPT ![req[p].actor] = "none"]
    /\ Answer(p)
    /\ UNCHANGED <<created, settings, organization, history>>

\* A statement fails and the handler returns the error.  The steps that drop
\* an error have it as an alternative of their own; what touches only memory
\* cannot fail.  A failing migration may have made the first of the tables.
StatementFails(p) ==
    /\ req[p].pc \notin {"idle", "gate", "policy", "seed", "step_down", "flip_org",
                         "flip_personal", "open_mem", "close_mem"}
    /\ Answer(p)
    /\ IF At(p, "migrate") THEN \E made \in Prefixes : tables' = tables \cup made
                            ELSE UNCHANGED tables
    /\ disturbed' = IF req[p].pc \in {"close"} \cup Dropping /\ "overlap" \notin disturbed
                    THEN disturbed \cup {"half_way"} ELSE disturbed
    /\ unburnt' = unburnt \cup (IF At(p, "burn") THEN {req[p].inv} ELSE {})
    /\ UNCHANGED <<accounts, settings, policy, invite, admitted>>

\* EnsureOrgOwner drops its errors.  The oldest account is promoted when no
\* owner is counted, and a count that fails reads 0; the roles stay as they are
\* when one is counted, and when the lookup or the update fails.
EnsureOrgOwner ==
    \/ UNCHANGED role
    \/ role' = [u \in Users |-> IF IsFirst(u) THEN "owner" ELSE role[u]]

\* What appmode.New makes of app_state, and of a row it cannot read: a database
\* with the organization's table is adopted as an organization, or else, or
\* when the look for the table fails too, the instance is a personal one.
Adopted == [mode |-> "organization", open |-> FALSE]
Defaults == [mode |-> "personal", open |-> FALSE]
Readings == {db, Defaults} \cup {r \in {Adopted} : "organization" \in tables}

\* Faulty variant: the sign-up switch of a new instance is an open one.
RestartOpen ==
    /\ mem' = [db EXCEPT !.open = TRUE]
    /\ req' = [p \in Procs |-> AtRest]
    /\ disturbed' = {}
    /\ UNCHANGED <<accounts, db, organization, admitted, unburnt>>

\* The process stops, wherever its requests are, and boots: appmode.New takes
\* the settings from app_state, if it can read them, and stores the mode it
\* adopts instead, if it can; an organization gets its missing tables and,
\* when it has none, an owner.
Restart ==
    /\ \E r \in Readings :
        /\ mem' = r
        /\ db' \in {db} \cup {[db EXCEPT !.mode = "organization"] : a \in {r} \cap {Adopted}}
        /\ disturbed' = {d \in {"misread"} : r # db}
        /\ IF r.mode = "organization" THEN tables' = OrgTables /\ EnsureOrgOwner
                                      ELSE UNCHANGED <<tables, role>>
    /\ req' = [p \in Procs |-> AtRest]
    /\ unburnt' = unburnt \cup {req[p].inv : p \in {q \in Procs : At(q, "burn")}}
    /\ UNCHANGED <<created, policy, invite, admitted>>

Next ==
    \/ \E p \in Procs :
        \/ CountUsers(p) \/ Gate(p) \/ ReadPolicy(p) \/ LookUp(p)
        \/ CreateAccount(p) \/ BurnInvite(p)
        \/ BeginManaging(p) \/ SetPolicy(p) \/ Mint(p) \/ DeleteInvites(p)
        \/ BeginEnable(p) \/ FindActor(p) \/ MigrateOrg(p) \/ PromoteActor(p)
        \/ DemoteOthers(p) \/ SeedOrganization(p) \/ PersistOrganization(p)
        \/ FlipToOrganization(p)
        \/ BeginRevert(p) \/ PurgeOthers(p) \/ StepDown(p) \/ PersistPersonal(p)
        \/ DropTable(p) \/ FlipToPersonal(p)
        \/ BeginOpening(p) \/ StoreOpen(p) \/ RememberOpen(p)
        \/ BeginLeaving(p) \/ LeavingGuard(p) \/ Leave(p)
        \/ StatementFails(p)
    \/ Expire
    \/ Restart

Spec == Init /\ [][Next]_vars

-----------------------------------------------------------------------------
\* Types; a number above `created` has no row, rows need their table, and a
\* registration holds only an invite that has been minted.
TypeOK ==
    /\ role \in [Users -> Roles \cup {"none"}]
    /\ created \in 0..MaxUsers
    /\ \A u \in Users : u > created => role[u] = "none"
    /\ db \in [mode : Modes, open : BOOLEAN]
    /\ mem \in [mode : Modes, open : BOOLEAN]
    /\ tables \subseteq OrgTables
    /\ policy \in {"none", "invite", "open"}
    /\ "organization" \notin tables => policy = "none"
    /\ invite \in [Invites -> {"unborn", "pending", "used", "expired", "gone"}]
    /\ "invite" \notin tables => \A i \in Invites : invite[i] \in {"unborn", "gone"}
    /\ req \in [Procs -> Request]
    /\ \A p \in Procs : req[p].inv # NoInvite => invite[req[p].inv] # "unborn"
    /\ disturbed \in Disturbances
    /\ admitted \in [Invites -> 0..MaxUsers]
    /\ unburnt \subseteq Invites

Quiet(pcs) == \A p \in Procs : req[p].pc \notin pcs

\* appmode.go:1, the live mode is the persisted one.  Whatever statements fail
\* and wherever the process stops, as long as no two settings requests overlap
\* and whenever none is under way:
\*   - sign-up is never open in memory while it is stored as closed;
\*   - an organization is served as a personal instance only after a boot that
\*     could not read app_state;
\*   - a personal instance is served as an organization only after such a boot,
\*     or after a revert that failed between its persist and its end;
\*   - otherwise memory and app_state are the same.
SettingsAgree ==
    Quiet(Switching) /\ "overlap" \notin disturbed =>
        /\ mem.open => db.open
        /\ mem.mode = "personal" /\ db.mode = "organization" => "misread" \in disturbed
        /\ mem # db => disturbed # {}

\* Handlers behind an organization gate find their tables: while the mode in
\* memory says organization a table is missing only once app_state says
\* personal, so that no boot makes an organization of what is left, and only
\* while a revert is dropping them or after one has failed there.
OrgTablesExist ==
    mem.mode = "organization" /\ tables # OrgTables /\ "overlap" \notin disturbed =>
        /\ db.mode = "personal"
        /\ "half_way" \in disturbed \/ ~Quiet(Dropping \cup {"flip_personal"})

\* An invite that has let an account in lets in another one only when the two
\* registrations overlap or the write that burns it was lost.
InviteStep ==
    \A p \in Procs :
        LET i == req'[p].inv
        IN (At(p, "lookup") /\ req'[p].pc = "create" /\ admitted[i] > 0) =>
              i \in unburnt \/ \E q \in Procs : At(q, "burn") /\ req[q].inv = i
InviteSpentOnce == [][InviteStep]_vars

\* models/invite.go:10: an invite is a single-use registration token.
InviteSingleUse == \A i \in Invites : admitted[i] <= 1

\* appmode.go:79-81: an organization with no owner can neither be administered
\* nor reverted, so a switch that cannot produce one leaves no trace: whenever
\* a request flips the mode to organization, one of the accounts is an owner.
SwitchStep ==
    (\E p \in Procs : At(p, "flip_org")) /\ mem.mode # mem'.mode /\ Accounts # {} =>
        \E u \in Users : role'[u] = "owner"
SwitchProducesOwner == [][SwitchStep]_vars
=============================================================================
