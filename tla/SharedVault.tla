------------------------------ MODULE SharedVault ------------------------------
(***************************************************************************)
(* The shared vault of an organization: entries, shared categories, who    *)
(* holds the shared key, and the two switches that decide what a plain     *)
(* member may do, served by concurrent goroutines without locks.           *)
(*                                                                         *)
(* A step is one SQL statement with the code up to the next one.  An entry *)
(* has its category and its contents, which are encrypted and opaque: one  *)
(* bit tells new contents from those they replace.  The instance is in     *)
(* organization mode (see Instance), and every account is active, has its  *)
(* keypair, and is there from the start; who may change roles and remove   *)
(* accounts is the subject of UserAdmin.                                   *)
(***************************************************************************)
EXTENDS Naturals

CONSTANTS
    People,     \* the accounts
    Entries,    \* bound: the shared entries that are ever stored
    Categories, \* bound: the shared categories that are ever stored
    Null,       \* no category, nothing
    Threads     \* the goroutines that serve requests

ASSUME SharedVaultAssumption ==
    Null \notin Categories /\ {"unborn", "gone"} \cap (Categories \cup {Null}) = {}

VARIABLES
    rank,       \* rank[u]: the role column, "none" once u is removed
    member,     \* the accounts with a row in org_vault_membership
    switches,   \* the permissions of plain members, on the organization row
    category,   \* category[c]: "unborn", "row" or "gone"
    entry,      \* entry[e]: "unborn", "gone", or the category of its row
    contents,   \* contents[e]: the encrypted blob of its row
    call,       \* call[p]: the handler running in p, and what it has read
    allowed     \* history: the sets of permissions that members had together at
                \* any time since the request of a plain member in p began; {} for
                \* all other requests

sharedVars == <<rank, member, switches, category, entry, contents, call, allowed>>
accounts == <<rank, member>>
entries == <<entry, contents>>
tables == <<category, entries>>

Switches == {"manage", "edit"}
Ranks == {"owner", "admin", "member"}
IsAdminRank(r) == r \in {"owner", "admin"}
EntryOps == {"store", "edit", "move", "delete"}
CategoryOps == {"store_category", "rename_category", "delete_category"}
AdminSteps == {"set_switches", "load_branding", "load_grantee", "load_member"}
Steps == AdminSteps \cup CategoryOps \cup
         {"permit", "load", "check_category", "save", "insert", "delete",
          "load_category", "save_branding", "grant", "revoke"}

Filing == Categories \cup {Null}
Rows == {e \in Entries : entry[e] \in Filing}
Stored == {c \in Categories : category[c] = "row"}
Present == {u \in People : rank[u] # "none"}

NoCall == [pc |-> "idle", op |-> "store", admin |-> FALSE, target |-> Null,
           filing |-> Null, switches |-> {}, owner |-> FALSE]
Call == [pc : Steps \cup {"idle"}, op : EntryOps \cup CategoryOps,
         admin : BOOLEAN, target : Entries \cup Categories \cup People \cup {Null},
         filing : Filing, switches : SUBSET Switches, owner : BOOLEAN]

SharedInit ==
    /\ \E founder \in People :
           rank = [u \in People |-> IF u = founder THEN "owner" ELSE "member"]
    /\ member = {}
    /\ switches = {}
    /\ category = [c \in Categories |-> "unborn"]
    /\ entry = [e \in Entries |-> "unborn"]
    /\ contents = [e \in Entries |-> 0]
    /\ call = [p \in Threads |-> NoCall]
    /\ allowed = [p \in Threads |-> {}]

Reached(p, pc) == call[p].pc = pc
Become(p, r) == call' = [call EXCEPT ![p] = r] /\ UNCHANGED allowed
Goto(p, pc) == Become(p, [call[p] EXCEPT !.pc = pc])
Reply(p) == call' = [call EXCEPT ![p] = NoCall] /\ allowed' = [allowed EXCEPT ![p] = {}]

\* The organization row gets new switches, which ends the request.
Turn(p, new) ==
    /\ switches' = new
    /\ call' = [call EXCEPT ![p] = NoCall]
    /\ allowed' = [q \in Threads |-> IF q = p \/ allowed[q] = {} THEN {}
                                      ELSE allowed[q] \cup SUBSET new]

-----------------------------------------------------------------------------
(* The guards of the routes *)

\* Auth loads the caller, RequireMembership looks for its copy of the key.
AdmitMember(p) ==
    /\ Reached(p, "idle")
    /\ \E u \in member, op \in EntryOps \cup CategoryOps :
        /\ call' = [call EXCEPT ![p] = [NoCall EXCEPT !.pc = "permit", !.op = op,
                                                   !.admin = IsAdminRank(rank[u])]]
        /\ allowed' = IF IsAdminRank(rank[u]) THEN allowed
                      ELSE [allowed EXCEPT ![p] = SUBSET switches]
    /\ UNCHANGED <<accounts, switches, tables>>

\* Auth loads the caller, RequireAdmin looks at its role.
AdmitAdmin(p) ==
    /\ Reached(p, "idle")
    /\ \E u \in People : IsAdminRank(rank[u])
    /\ \E pc \in AdminSteps : Goto(p, pc)
    /\ UNCHANGED <<accounts, switches, tables>>

\* Faulty variant: whoever may manage the shared entries may also edit them.
NeedsManageToEdit(op) == IF op \in CategoryOps THEN {"manage", "edit"} ELSE {"manage"}

\* Which of canManageShared, canEditShared and canCurateShared a handler asks.
Needs(op) ==
    IF op \in CategoryOps THEN {"manage", "edit"}
    ELSE IF op \in {"edit", "move"} THEN {"edit"} ELSE {"manage"}

\* What comes after permitsShared: a new entry may be filed in a category.
AfterPermit(r) ==
    CASE r.op = "store" ->
           {[r EXCEPT !.pc = "insert"]}
             \cup {[r EXCEPT !.pc = "check_category", !.filing = c] : c \in Categories}
      [] r.op \in {"edit", "move", "delete"} -> {[r EXCEPT !.pc = "load"]}
      [] r.op = "store_category" -> {[r EXCEPT !.pc = "store_category"]}
      [] OTHER -> {[r EXCEPT !.pc = "load_category"]}

\* permitsShared: admins pass, by the role in the copy Auth loaded; for others
\* the organization row decides.
Permit(p) ==
    /\ Reached(p, "permit")
    /\ IF call[p].admin \/ Needs(call[p].op) \subseteq switches
       THEN \E r \in AfterPermit(call[p]) : Become(p, r) ELSE Reply(p)
    /\ UNCHANGED <<accounts, switches, tables>>

-----------------------------------------------------------------------------
(* OrgVaultHandler *)

\* What comes after an entry is loaded: a plain edit keeps the category of the
\* copy, a move names another one or NULL in its body.
AfterLoad(r, e) ==
    CASE r.op = "delete" -> {[r EXCEPT !.pc = "delete", !.target = e]}
      [] r.op = "edit" -> {[r EXCEPT !.pc = "save", !.target = e, !.filing = entry[e]]}
      [] OTHER ->
           {[r EXCEPT !.pc = "save", !.target = e]}
             \cup {[r EXCEPT !.pc = "check_category", !.target = e, !.filing = c]
                    : c \in Categories}

LoadEntry(p) ==
    /\ Reached(p, "load")
    /\ (\E e \in Rows : \E r \in AfterLoad(call[p], e) : Become(p, r)) \/ Reply(p)
    /\ UNCHANGED <<accounts, switches, tables>>

\* orgCategoryExists
CheckCategory(p) ==
    /\ Reached(p, "check_category")
    /\ IF call[p].filing \in Stored
       THEN Goto(p, IF call[p].op = "store" THEN "insert" ELSE "save") ELSE Reply(p)
    /\ UNCHANGED <<accounts, switches, tables>>

\* The foreign key on category_id.
ForeignKeyHolds(c) == c \in Stored \cup {Null}

InsertEntry(p) ==
    /\ Reached(p, "insert")
    /\ ForeignKeyHolds(call[p].filing)
    /\ \E e \in Entries : /\ entry[e] = "unborn"
                          /\ entry' = [entry EXCEPT ![e] = call[p].filing]
    /\ Reply(p)
    /\ UNCHANGED <<accounts, switches, category, contents>>

\* Faulty variant: orgCategoryExists decides alone, without a foreign key.
SaveEntryUnchecked(p) ==
    /\ Reached(p, "save")
    /\ entry' = [entry EXCEPT ![call[p].target] = call[p].filing]
    /\ contents' = [contents EXCEPT ![call[p].target] = 1 - @]
    /\ Reply(p)
    /\ UNCHANGED <<accounts, switches, category>>

\* Save writes the whole row with the contents that were sent: an UPDATE or, when
\* there is no row to update any more, an INSERT.
SaveEntry(p) ==
    /\ Reached(p, "save")
    /\ ForeignKeyHolds(call[p].filing)
    /\ entry' = [entry EXCEPT ![call[p].target] = call[p].filing]
    /\ contents' = [contents EXCEPT ![call[p].target] = 1 - @]
    /\ Reply(p)
    /\ UNCHANGED <<accounts, switches, category>>

DeleteEntry(p) ==
    /\ Reached(p, "delete")
    /\ entry' = [entry EXCEPT ![call[p].target] = "gone"]
    /\ contents' = [contents EXCEPT ![call[p].target] = 0]
    /\ Reply(p)
    /\ UNCHANGED <<accounts, switches, category>>

-----------------------------------------------------------------------------
(* OrgCategoryHandler *)

LoadCategory(p) ==
    /\ Reached(p, "load_category")
    /\ \/ \E c \in Stored : Become(p, [call[p] EXCEPT !.pc = call[p].op, !.target = c])
       \/ Reply(p)
    /\ UNCHANGED <<accounts, switches, tables>>

StoreCategory(p) ==
    /\ Reached(p, "store_category")
    /\ \E c \in Categories : /\ category[c] = "unborn"
                             /\ category' = [category EXCEPT ![c] = "row"]
    /\ Reply(p)
    /\ UNCHANGED <<accounts, switches, entries>>

\* Save again, which brings a category back that was deleted since its loading.
RenameCategory(p) ==
    /\ Reached(p, "rename_category")
    /\ category' = [category EXCEPT ![call[p].target] = "row"]
    /\ Reply(p)
    /\ UNCHANGED <<accounts, switches, entries>>

\* The foreign key takes its entries out of the category (SET NULL).
DeleteCategory(p) ==
    LET c == call[p].target
    IN /\ Reached(p, "delete_category")
       /\ category' = [category EXCEPT ![c] = "gone"]
       /\ entry' = [e \in Entries |-> IF entry[e] = c THEN Null ELSE entry[e]]
       /\ Reply(p)
       /\ UNCHANGED <<accounts, switches, contents>>

-----------------------------------------------------------------------------
(* OrganizationHandler: the row of the organization *)

\* UpdateSharedSettings writes the columns that were sent, one or both.
SetSwitches(p) ==
    /\ Reached(p, "set_switches")
    /\ \E sent \in (SUBSET Switches) \ {{}} : \E on \in SUBSET sent :
           Turn(p, (switches \ sent) \cup on)
    /\ UNCHANGED <<accounts, tables>>

\* Update and UploadLogo: getOrCreate loads the row.
LoadBranding(p) ==
    /\ Reached(p, "load_branding")
    /\ Become(p, [call[p] EXCEPT !.pc = "save_branding", !.switches = switches])
    /\ UNCHANGED <<accounts, switches, tables>>

\* They save the whole row, with the switches they have loaded.
SaveBranding(p) ==
    /\ Reached(p, "save_branding")
    /\ Turn(p, call[p].switches)
    /\ UNCHANGED <<accounts, tables>>

-----------------------------------------------------------------------------
(* Memberships *)

LoadGrantee(p) ==
    /\ Reached(p, "load_grantee")
    /\ \E u \in Present : Become(p, [call[p] EXCEPT !.pc = "grant", !.target = u])
    /\ UNCHANGED <<accounts, switches, tables>>

\* The upsert of GrantMembership; the foreign key wants the account.
GrantMembership(p) ==
    /\ Reached(p, "grant")
    /\ call[p].target \in Present
    /\ member' = member \cup {call[p].target}
    /\ Reply(p)
    /\ UNCHANGED <<rank, switches, tables>>

\* Faulty variant: owners are not looked at.
LoadAnyMember(p) ==
    /\ Reached(p, "load_member")
    /\ \E u \in Present : Become(p, [call[p] EXCEPT !.pc = "revoke", !.target = u,
                                                    !.owner = rank[u] = "owner"])
    /\ UNCHANGED <<accounts, switches, tables>>

\* RevokeMembership loads the account; owners keep their access.
LoadMember(p) ==
    /\ Reached(p, "load_member")
    /\ \E u \in Present :
        IF rank[u] = "owner" THEN Reply(p)
        ELSE Become(p, [call[p] EXCEPT !.pc = "revoke", !.target = u,
                                       !.owner = rank[u] = "owner"])
    /\ UNCHANGED <<accounts, switches, tables>>

RevokeMembership(p) ==
    /\ Reached(p, "revoke")
    /\ member' = member \ {call[p].target}
    /\ Reply(p)
    /\ UNCHANGED <<rank, switches, tables>>

\* UpdateUserRole and RemoveUser; a membership goes with its account.
ChangeRole ==
    /\ \E u \in Present, r \in Ranks : r # rank[u] /\ rank' = [rank EXCEPT ![u] = r]
    /\ UNCHANGED <<member, switches, tables, call, allowed>>
RemoveUser ==
    /\ \E u \in Present : rank' = [rank EXCEPT ![u] = "none"] /\ member' = member \ {u}
    /\ UNCHANGED <<switches, tables, call, allowed>>

-----------------------------------------------------------------------------
\* A statement fails or a foreign key refuses it; nothing is written, also
\* where the handler drops the error.
CallFails(p) ==
    /\ ~Reached(p, "idle")
    /\ Reply(p)
    /\ UNCHANGED <<accounts, switches, tables>>

\* The process stops and boots; its requests are lost.
SharedRestart ==
    /\ call' = [p \in Threads |-> NoCall]
    /\ allowed' = [p \in Threads |-> {}]
    /\ UNCHANGED <<accounts, switches, tables>>

SharedNext ==
    \/ \E p \in Threads :
        \/ AdmitMember(p) \/ AdmitAdmin(p) \/ Permit(p)
        \/ LoadEntry(p) \/ CheckCategory(p) \/ InsertEntry(p) \/ SaveEntry(p) \/ DeleteEntry(p)
        \/ LoadCategory(p) \/ StoreCategory(p) \/ RenameCategory(p) \/ DeleteCategory(p)
        \/ SetSwitches(p) \/ LoadBranding(p) \/ SaveBranding(p)
        \/ LoadGrantee(p) \/ GrantMembership(p) \/ LoadMember(p) \/ RevokeMembership(p)
        \/ CallFails(p)
    \/ ChangeRole \/ RemoveUser \/ SharedRestart

SharedSpec == SharedInit /\ [][SharedNext]_sharedVars

-----------------------------------------------------------------------------
\* Types; an entry's category has a row and a key holder has its account, even
\* after requests that checked them and wrote later.
SharedTypeOK ==
    /\ rank \in [People -> Ranks \cup {"none"}]
    /\ member \in SUBSET Present
    /\ switches \in SUBSET Switches
    /\ category \in [Categories -> {"unborn", "row", "gone"}]
    /\ entry \in [Entries -> {"unborn", "gone", Null} \cup Stored]
    /\ contents \in [Entries -> 0..1]
    /\ call \in [Threads -> Call]
    /\ allowed \in [Threads -> SUBSET SUBSET Switches]

\* At some moment since the request in p began, its plain member was allowed.
WasPermitted(p, needed) == needed \in allowed[p]

\* The request of a plain member in p takes this step.
MemberStep(p) == allowed[p] # {} /\ call'[p] # call[p]

Gained(e) == e \notin Rows /\ entry'[e] \in Filing
Lost(e) == e \in Rows /\ entry'[e] = "gone"

\* An entry that was stored before gets other contents or another category.
Edited(e) ==
    /\ entry[e] # "unborn" /\ entry'[e] \in Filing
    /\ entry'[e] # entry[e] \/ contents'[e] # contents[e]

\* models/organization.go:29 and helpers.go:39: whatever a request of a plain
\* member does to the tables, at some moment of that request the switches
\* allowed that very change, however they are turned back and forth meanwhile:
\* a new entry or a deletion takes the permission to manage, new contents or
\* another category the permission to edit, a category both.  An edit that
\* stores a deleted entry again counts as an edit here; that it adds an entry
\* without the permission to manage is the subject of MembersAddPermitted.
MemberWrite(p) ==
    MemberStep(p) =>
        /\ (\E e \in Entries : Lost(e) \/ (Gained(e) /\ entry[e] = "unborn"))
             => WasPermitted(p, {"manage"})
        /\ (\E e \in Entries : Edited(e)) => WasPermitted(p, {"edit"})
        /\ category' # category => WasPermitted(p, {"manage", "edit"})
MemberWritesPermitted == [][\A p \in Threads : MemberWrite(p)]_sharedVars

\* models/organization.go:30: without the permission to manage, a member adds
\* no entry to the shared vault.
MemberAddition(p) ==
    MemberStep(p) /\ (\E e \in Entries : Gained(e)) => WasPermitted(p, {"manage"})
MembersAddPermitted == [][\A p \in Threads : MemberAddition(p)]_sharedVars

\* orgmembership.go:111: an owner does not lose shared access, except with its
\* account or by a request that saw it before it became an owner.
OwnerLosesAccess(u) ==
    /\ rank[u] = "owner" /\ u \in member \ member'
    /\ rank'[u] # "none"
RevokedAsNonOwner(u) ==
    \E p \in Threads : Reached(p, "revoke") /\ call[p].target = u /\ ~call[p].owner
OwnersKeepAccess ==
    [][\A u \in People : OwnerLosesAccess(u) => RevokedAsNonOwner(u)]_sharedVars
=============================================================================
