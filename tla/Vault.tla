-------------------------------- MODULE Vault --------------------------------
(***************************************************************************)
(* The personal vault: entries and categories of several accounts          *)
(* (handlers/vault.go, handlers/category.go), while accounts are removed.  *)
(*                                                                         *)
(* A step is one SQL statement with the code up to the next one; requests  *)
(* interleave between steps.  Blobs, names and versions are opaque.  An id *)
(* is created once (UUIDs).  A column that may be NULL, or a row that may  *)
(* be missing, is a set of at most one value.                              *)
(***************************************************************************)
EXTENDS Naturals

CONSTANTS
    Users,       \* the accounts
    Entries,     \* bound: the vault entries ever created
    Categories,  \* bound: the categories ever created
    VaultProcs   \* the goroutines that serve requests

ASSUME VaultAssumption == Entries \cap Categories = {}  \* ids are UUIDs

VARIABLES
    accounts,  \* the accounts that exist
    owner,     \* owner[v]: user_id of an entry's row, {} while there is none
    filed,     \* filed[v]: category_id of an entry
    catOwner,  \* catOwner[c]: user_id of a category's row
    maker,     \* history: who created an entry or a category, {} before
    vaultReq,  \* vaultReq[p]: the handler in p, its user, and the row it will write
    settled    \* history: what was deleted while no update of it was under way

vaultVars == <<accounts, owner, filed, catOwner, maker, vaultReq, settled>>
rows == <<owner, filed, catOwner>>

Maybe(S) == {{}} \cup {{x} : x \in S}
Items == Entries \cup Categories

\* item: the entry or category of the request, {} for one it is to create;
\* filing: the category_id it is about to store.
VaultRequest == [pc : {"idle", "check", "create", "save", "delete", "rename", "delete_category"},
                 user : Maybe(Users), item : Maybe(Items), filing : Maybe(Categories)]
NoRequest == [pc |-> "idle", user |-> {}, item |-> {}, filing |-> {}]

VaultInit ==
    /\ accounts = Users
    /\ owner = [v \in Entries |-> {}]
    /\ filed = [v \in Entries |-> {}]
    /\ catOwner = [c \in Categories |-> {}]
    /\ maker = [i \in Items |-> {}]
    /\ vaultReq = [p \in VaultProcs |-> NoRequest]
    /\ settled = {}

Serving(p, pc) == vaultReq[p].pc = pc
Answer(p) == vaultReq' = [vaultReq EXCEPT ![p] = NoRequest]
Begin(p, pc, u, item, filing) ==
    /\ Serving(p, "idle")
    /\ vaultReq' = [vaultReq EXCEPT ![p] =
                       [pc |-> pc, user |-> {u}, item |-> item, filing |-> filing]]
    /\ UNCHANGED <<accounts, rows, maker, settled>>

\* An update that has loaded item i, and will write the whole row.
Updating(p, i) == vaultReq[p].item = {i} /\ vaultReq[p].pc \in {"check", "save", "rename"}
Settles(gone) == settled' = settled \cup {i \in gone : \A p \in VaultProcs : ~Updating(p, i)}

\* Foreign keys: a stored row refers to rows that exist.
Refers(u, cats) == u \subseteq accounts /\ \A c \in cats : catOwner[c] # {}

-----------------------------------------------------------------------------
(* Entries *)

\* Store, with or without a category; clients may name any category there is.
BeginStore(p) ==
    \E u \in accounts :
        \/ Begin(p, "create", u, {}, {})
        \/ \E c \in Categories : maker[c] # {} /\ Begin(p, "check", u, {}, {c})

\* Faulty variant: the entry is loaded by its id only, and the error ignored.
BeginUpdateUnchecked(p) ==
    \E u \in accounts, v \in Entries :
        /\ maker[v] = {u}
        /\ Begin(p, "save", u, {v}, filed[v])

\* Update loads one of the user's own entries; a body without category_id keeps
\* the category of that copy, null clears it.
BeginUpdate(p) ==
    \E u \in accounts, v \in Entries :
        /\ owner[v] = {u}
        /\ \/ Begin(p, "save", u, {v}, filed[v])
           \/ Begin(p, "save", u, {v}, {})
           \/ \E c \in Categories : maker[c] # {} /\ Begin(p, "check", u, {v}, {c})

\* Faulty variant: any existing category will do.
OwnsCategoryOfAnyone(p) ==
    /\ Serving(p, "check")
    /\ \A c \in vaultReq[p].filing : catOwner[c] # {}
    /\ vaultReq' = [vaultReq EXCEPT ![p].pc = IF vaultReq[p].item = {} THEN "create" ELSE "save"]
    /\ UNCHANGED <<accounts, rows, maker, settled>>

\* ownsCategory; a category of somebody else, or an error, ends the request.
OwnsCategory(p) ==
    /\ Serving(p, "check")
    /\ \A c \in vaultReq[p].filing : catOwner[c] = vaultReq[p].user
    /\ vaultReq' = [vaultReq EXCEPT ![p].pc = IF vaultReq[p].item = {} THEN "create" ELSE "save"]
    /\ UNCHANGED <<accounts, rows, maker, settled>>

Create(p) ==
    /\ Serving(p, "create")
    /\ Refers(vaultReq[p].user, vaultReq[p].filing)
    /\ \E v \in Entries :
        /\ maker[v] = {}
        /\ maker' = [maker EXCEPT ![v] = vaultReq[p].user]
        /\ owner' = [owner EXCEPT ![v] = vaultReq[p].user]
        /\ filed' = [filed EXCEPT ![v] = vaultReq[p].filing]
    /\ Answer(p)
    /\ UNCHANGED <<accounts, catOwner, settled>>

\* gorm's Save: every column of the row, which is inserted when it is gone.
Save(p) ==
    /\ Serving(p, "save")
    /\ Refers(vaultReq[p].user, vaultReq[p].filing)
    /\ \E v \in vaultReq[p].item :
        /\ owner' = [owner EXCEPT ![v] = vaultReq[p].user]
        /\ filed' = [filed EXCEPT ![v] = vaultReq[p].filing]
    /\ Answer(p)
    /\ UNCHANGED <<accounts, catOwner, maker, settled>>

\* Destroy loads the entry, then deletes it.
BeginDestroy(p) ==
    \E u \in accounts, v \in Entries :
        owner[v] = {u} /\ Begin(p, "delete", u, {v}, {})

Delete(p) ==
    /\ Serving(p, "delete")
    /\ owner' = [v \in Entries |-> IF v \in vaultReq[p].item THEN {} ELSE owner[v]]
    /\ filed' = [v \in Entries |-> IF v \in vaultReq[p].item THEN {} ELSE filed[v]]
    /\ Settles(vaultReq[p].item)
    /\ Answer(p)
    /\ UNCHANGED <<accounts, catOwner, maker>>

-----------------------------------------------------------------------------
(* Categories *)

\* CategoryHandler.Store, and the starter categories of a registration.
CreateCategory ==
    /\ \E u \in accounts, c \in Categories :
        /\ maker[c] = {}
        /\ maker' = [maker EXCEPT ![c] = {u}]
        /\ catOwner' = [catOwner EXCEPT ![c] = {u}]
    /\ UNCHANGED <<accounts, owner, filed, vaultReq, settled>>

BeginRename(p) ==
    \E u \in accounts, c \in Categories :
        catOwner[c] = {u} /\ Begin(p, "rename", u, {c}, {})

\* Save again: a category deleted meanwhile is inserted.
Rename(p) ==
    /\ Serving(p, "rename")
    /\ Refers(vaultReq[p].user, {})
    /\ \E c \in vaultReq[p].item : catOwner' = [catOwner EXCEPT ![c] = vaultReq[p].user]
    /\ Answer(p)
    /\ UNCHANGED <<accounts, owner, filed, maker, settled>>

BeginDestroyCategory(p) ==
    \E u \in accounts, c \in Categories :
        catOwner[c] = {u} /\ Begin(p, "delete_category", u, {c}, {})

\* Entries of a deleted category lose it (ON DELETE SET NULL).
DeleteCategory(p) ==
    /\ Serving(p, "delete_category")
    /\ catOwner' = [c \in Categories |-> IF c \in vaultReq[p].item THEN {} ELSE catOwner[c]]
    /\ filed' = [v \in Entries |-> filed[v] \ vaultReq[p].item]
    /\ Settles(vaultReq[p].item)
    /\ Answer(p)
    /\ UNCHANGED <<accounts, owner, maker>>

-----------------------------------------------------------------------------
\* The account goes, by its own request or an administrator's; its entries and
\* categories go with it (ON DELETE CASCADE).
RemoveAccount(u) ==
    /\ u \in accounts
    /\ accounts # {u}  \* bound: one account stays, so that requests go on
    /\ accounts' = accounts \ {u}
    /\ owner' = [v \in Entries |-> owner[v] \ {u}]
    /\ filed' = [v \in Entries |-> IF owner[v] = {u} THEN {} ELSE
                                   {c \in filed[v] : catOwner[c] # {u}}]
    /\ catOwner' = [c \in Categories |-> catOwner[c] \ {u}]
    /\ Settles({v \in Entries : owner[v] = {u}} \cup {c \in Categories : catOwner[c] = {u}})
    /\ UNCHANGED <<maker, vaultReq>>

\* A statement fails, a row it refers to being gone among the reasons; what
\* Rename and the deletions answer does not tell.
StatementFails(p) ==
    /\ ~Serving(p, "idle")
    /\ Answer(p)
    /\ UNCHANGED <<accounts, rows, maker, settled>>

VaultNext ==
    \/ \E p \in VaultProcs :
        \/ BeginStore(p) \/ BeginUpdate(p) \/ OwnsCategory(p) \/ Create(p) \/ Save(p)
        \/ BeginDestroy(p) \/ Delete(p)
        \/ BeginRename(p) \/ Rename(p) \/ BeginDestroyCategory(p) \/ DeleteCategory(p)
        \/ StatementFails(p)
    \/ CreateCategory
    \/ \E u \in Users : RemoveAccount(u)

VaultSpec == VaultInit /\ [][VaultNext]_vaultVars

-----------------------------------------------------------------------------
\* Types; a missing row has no category, and only what was created has a row.
VaultTypeOK ==
    /\ accounts \subseteq Users
    /\ owner \in [Entries -> Maybe(Users)]
    /\ filed \in [Entries -> Maybe(Categories)]
    /\ catOwner \in [Categories -> Maybe(Users)]
    /\ maker \in [Items -> Maybe(Users)]
    /\ vaultReq \in [VaultProcs -> VaultRequest]
    /\ settled \subseteq Items
    /\ \A v \in Entries : owner[v] = {} => filed[v] = {}

\* vault.go:135, :150: however requests, deletions and the removal of accounts
\* cross, a row belongs to the account that created it, which exists, and an
\* entry is filed under a category of its own account that is there.
RowsBelong ==
    /\ \A v \in Entries : owner[v] \subseteq accounts \cap maker[v]
    /\ \A c \in Categories : catOwner[c] \subseteq accounts \cap maker[c]
    /\ \A v \in Entries : \A c \in filed[v] : catOwner[c] = owner[v]

\* What is deleted, with its account or alone, while no update of it is under
\* way stays deleted; only an update that has loaded it before brings it back.
DeletedForGood ==
    \A i \in settled : (i \in Entries => owner[i] = {}) /\ (i \in Categories => catOwner[i] = {})
=============================================================================
