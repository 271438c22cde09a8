----------------------------- MODULE VaultProofs -----------------------------
(***************************************************************************)
(* Proofs about Vault, for any number of accounts, entries, categories and *)
(* concurrent requests.  What a request has loaded may be gone or changed  *)
(* when it writes; the invariant says what stays true of it: who made the  *)
(* row it works on, and who made the category it has been allowed to use.  *)
(***************************************************************************)
EXTENDS Vault, TLAPS

\* Who created an item never changes: the rows of a request were made by its user.
InFlight ==
    \A p \in VaultProcs :
        /\ vaultReq[p].pc # "idle" => vaultReq[p].user # {}
        /\ \A i \in vaultReq[p].item : maker[i] = vaultReq[p].user /\ maker[i] # {}
        /\ vaultReq[p].pc \in {"create", "save"} =>
               \A c \in vaultReq[p].filing : maker[c] = vaultReq[p].user
        /\ vaultReq[p].pc \in {"check", "save", "delete"} => vaultReq[p].item \subseteq Entries
        /\ vaultReq[p].pc \in {"rename", "delete_category"} => vaultReq[p].item \subseteq Categories

Inv == VaultTypeOK /\ RowsBelong /\ InFlight

\* What is settled has been made, has no row and is in nobody's hands.
Settled ==
    \A i \in settled :
        /\ maker[i] # {}
        /\ \A p \in VaultProcs : ~Updating(p, i)

-----------------------------------------------------------------------------
(* Sets of at most one value *)

\* A part of such a set is such a set.
LEMMA PartOfMaybe ==
    ASSUME NEW S, NEW A \in Maybe(S), NEW B, B \subseteq A
    PROVE B \in Maybe(S)
  <1>1. CASE A = {}
    BY <1>1 DEF Maybe
  <1>2. CASE A # {}
    <2>1. PICK x \in S : A = {x}
      BY <1>2 DEF Maybe
    <2>2. B = {} \/ B = {x}
      BY <2>1
    <2> QED
      BY <2>2 DEF Maybe
  <1> QED
    BY <1>1, <1>2

\* A part that is not empty is the whole.
LEMMA WholeOfMaybe ==
    ASSUME NEW S, NEW A \in Maybe(S), NEW B, B \subseteq A, B # {}
    PROVE B = A
  <1>1. PICK x \in S : A = {x}
    BY DEF Maybe
  <1> QED
    BY <1>1

\* One value is such a set, and so is none.
LEMMA OneOrNone ==
    ASSUME NEW S
    PROVE {} \in Maybe(S) /\ \A x \in S : {x} \in Maybe(S)
  BY DEF Maybe

-----------------------------------------------------------------------------
(* The requests *)

\* A request may begin with rows that its user has made.
LEMMA BeginKeeps ==
    ASSUME Inv, NEW p \in VaultProcs, NEW pc, NEW u \in accounts, NEW item, NEW filing,
           Begin(p, pc, u, item, filing),
           [pc |-> pc, user |-> {u}, item |-> item, filing |-> filing] \in VaultRequest,
           \A i \in item : maker[i] = {u},
           pc \in {"create", "save"} => \A c \in filing : maker[c] = {u},
           pc \in {"check", "save", "delete"} => item \subseteq Entries,
           pc \in {"rename", "delete_category"} => item \subseteq Categories
    PROVE Inv'
  <1> DEFINE r == [pc |-> pc, user |-> {u}, item |-> item, filing |-> filing]
  <1>1. /\ vaultReq' = [vaultReq EXCEPT ![p] = r]
        /\ UNCHANGED <<accounts, owner, filed, catOwner, maker, settled>>
    BY DEF Begin, rows
  <1>2. VaultTypeOK'
    BY <1>1 DEF Inv, VaultTypeOK
  <1>3. RowsBelong'
    BY <1>1 DEF Inv, RowsBelong
  <1>4. InFlight'
    <2> SUFFICES ASSUME NEW q \in VaultProcs
                 PROVE /\ vaultReq'[q].pc # "idle" => vaultReq'[q].user # {}
                       /\ \A i \in vaultReq'[q].item : maker[i] = vaultReq'[q].user /\ maker[i] # {}
                       /\ vaultReq'[q].pc \in {"create", "save"} =>
                              \A c \in vaultReq'[q].filing : maker[c] = vaultReq'[q].user
                       /\ vaultReq'[q].pc \in {"check", "save", "delete"} =>
                              vaultReq'[q].item \subseteq Entries
                       /\ vaultReq'[q].pc \in {"rename", "delete_category"} =>
                              vaultReq'[q].item \subseteq Categories
      BY <1>1 DEF InFlight
    <2>1. vaultReq \in [VaultProcs -> VaultRequest]
      BY DEF Inv, VaultTypeOK
    <2>2. CASE q = p
      BY <2>1, <2>2, <1>1
    <2>3. CASE q # p
      BY <2>1, <2>3, <1>1 DEF Inv, InFlight
    <2> QED
      BY <2>2, <2>3
  <1> QED
    BY <1>2, <1>3, <1>4 DEF Inv

\* An answer keeps what is known of the other requests, as long as makers stay.
LEMMA AnswerKeeps ==
    ASSUME Inv, NEW p \in VaultProcs, Answer(p) \/ UNCHANGED vaultReq,
           \A i \in Items : maker[i] # {} => maker'[i] = maker[i]
    PROVE vaultReq' \in [VaultProcs -> VaultRequest] /\ InFlight'
  <1>1. NoRequest \in VaultRequest
    BY OneOrNone DEF NoRequest, VaultRequest
  <1>2. vaultReq \in [VaultProcs -> VaultRequest]
    BY DEF Inv, VaultTypeOK
  <1>3. vaultReq' \in [VaultProcs -> VaultRequest] /\ \A q \in VaultProcs : vaultReq'[q] \in {vaultReq[q], NoRequest}
    BY <1>1, <1>2 DEF Answer
  <1>4. ASSUME NEW q \in VaultProcs, NEW i
        PROVE (i \in vaultReq[q].item => i \in Items) /\ (i \in vaultReq[q].filing => i \in Items)
    <2>1. vaultReq[q].item \in Maybe(Items) /\ vaultReq[q].filing \in Maybe(Categories)
      BY <1>2 DEF VaultRequest
    <2>2. vaultReq[q].item \subseteq Items /\ vaultReq[q].filing \subseteq Categories
      BY <2>1 DEF Maybe
    <2> QED
      BY <2>2 DEF Items
  <1>5. InFlight'
    <2> SUFFICES ASSUME NEW q \in VaultProcs
                 PROVE /\ vaultReq'[q].pc # "idle" => vaultReq'[q].user # {}
                       /\ \A i \in vaultReq'[q].item : maker'[i] = vaultReq'[q].user /\ maker'[i] # {}
                       /\ vaultReq'[q].pc \in {"create", "save"} =>
                              \A c \in vaultReq'[q].filing : maker'[c] = vaultReq'[q].user
                       /\ vaultReq'[q].pc \in {"check", "save", "delete"} =>
                              vaultReq'[q].item \subseteq Entries
                       /\ vaultReq'[q].pc \in {"rename", "delete_category"} =>
                              vaultReq'[q].item \subseteq Categories
      BY DEF InFlight
    <2>1. CASE vaultReq'[q] = NoRequest
      BY <2>1 DEF NoRequest
    <2>2. CASE vaultReq'[q] = vaultReq[q]
      BY <2>2, <1>4 DEF Inv, InFlight
    <2> QED
      BY <2>1, <2>2, <1>3
  <1> QED
    BY <1>3, <1>5

\* The row of a request, its user and the category it files under.
LEMMA RequestTypes ==
    ASSUME Inv, NEW p \in VaultProcs
    PROVE /\ vaultReq[p] \in VaultRequest
          /\ vaultReq[p].user \in Maybe(Users)
          /\ vaultReq[p].item \in Maybe(Items)
          /\ vaultReq[p].filing \in Maybe(Categories)
          /\ vaultReq[p].filing \subseteq Categories
          /\ vaultReq[p].item \subseteq Items
  <1>1. vaultReq[p] \in VaultRequest
    BY DEF Inv, VaultTypeOK
  <1> QED
    BY <1>1 DEF VaultRequest, Maybe

-----------------------------------------------------------------------------
(* The steps *)

\* An entry is created for the user of the request, in a category of that user.
LEMMA CreateKeeps ==
    ASSUME Inv, NEW p \in VaultProcs, Create(p)
    PROVE Inv'
  <1> USE RequestTypes
  <1>1. PICK v \in Entries :
            /\ maker[v] = {}
            /\ maker' = [maker EXCEPT ![v] = vaultReq[p].user]
            /\ owner' = [owner EXCEPT ![v] = vaultReq[p].user]
            /\ filed' = [filed EXCEPT ![v] = vaultReq[p].filing]
    BY DEF Create
  <1>2. /\ vaultReq[p].pc = "create" /\ Refers(vaultReq[p].user, vaultReq[p].filing)
        /\ UNCHANGED <<accounts, catOwner, settled>>
        /\ Answer(p)
    BY DEF Create, Serving
  <1>3. v \in Items
    BY DEF Items
  <1>4. VaultTypeOK /\ vaultReq[p].user # {} /\ \A c \in vaultReq[p].filing : maker[c] = vaultReq[p].user
    BY <1>2 DEF Inv, InFlight
  <1>5. \A c \in Categories : c \in Items /\ catOwner[c] \in Maybe(Users)
                              /\ maker[c] \in Maybe(Users)
    BY <1>4 DEF VaultTypeOK, Items
  <1>6. \A i \in Items : maker[i] # {} => maker'[i] = maker[i]
    BY <1>1, <1>3, <1>4 DEF VaultTypeOK
  <1>7. \A c \in vaultReq[p].filing : catOwner[c] = vaultReq[p].user
    <2> SUFFICES ASSUME NEW c \in vaultReq[p].filing PROVE catOwner[c] = vaultReq[p].user
      OBVIOUS
    <2>1. c \in Categories /\ maker[c] = vaultReq[p].user /\ catOwner[c] # {}
      BY <1>2, <1>4 DEF Refers
    <2>2. catOwner[c] \subseteq maker[c]
      BY <2>1 DEF Inv, RowsBelong
    <2> QED
      BY <2>1, <2>2, <1>5, WholeOfMaybe
  <1>8. vaultReq' \in [VaultProcs -> VaultRequest] /\ InFlight'
    BY <1>2, <1>6, AnswerKeeps
  <1>9. VaultTypeOK'
    BY <1>1, <1>2, <1>3, <1>4, <1>8 DEF VaultTypeOK
  <1>10. RowsBelong'
    <2>1. \A w \in Entries : owner'[w] \subseteq accounts' \cap maker'[w]
      BY <1>1, <1>2, <1>3, <1>4 DEF Inv, RowsBelong, VaultTypeOK, Refers, Items
    <2>2. \A c \in Categories : catOwner'[c] \subseteq accounts' \cap maker'[c]
      <3> SUFFICES ASSUME NEW c \in Categories
                   PROVE catOwner'[c] \subseteq accounts' \cap maker'[c]
        OBVIOUS
      <3>1. catOwner[c] \subseteq accounts \cap maker[c]
        BY DEF Inv, RowsBelong
      <3>2. CASE maker[c] = {}
        BY <3>1, <3>2, <1>2
      <3>3. CASE maker[c] # {}
        BY <3>1, <3>3, <1>2, <1>5, <1>6
      <3> QED
        BY <3>2, <3>3
    <2>3. \A w \in Entries : \A c \in filed'[w] : catOwner'[c] = owner'[w]
      BY <1>1, <1>2, <1>4, <1>7 DEF Inv, RowsBelong, VaultTypeOK
    <2> QED
      BY <2>1, <2>2, <2>3 DEF RowsBelong
  <1> QED
    BY <1>8, <1>9, <1>10 DEF Inv

\* A saved row, a row saved again among them, goes back to who has made it.
LEMMA SaveKeeps ==
    ASSUME Inv, NEW p \in VaultProcs, Save(p)
    PROVE Inv'
  <1> USE RequestTypes
  <1>1. PICK v \in vaultReq[p].item :
            /\ owner' = [owner EXCEPT ![v] = vaultReq[p].user]
            /\ filed' = [filed EXCEPT ![v] = vaultReq[p].filing]
    BY DEF Save
  <1>2. /\ vaultReq[p].pc = "save" /\ Refers(vaultReq[p].user, vaultReq[p].filing)
        /\ UNCHANGED <<accounts, catOwner, maker, settled>>
        /\ Answer(p)
    BY DEF Save, Serving
  <1>3. VaultTypeOK /\ vaultReq[p].user # {} /\ \A c \in vaultReq[p].filing : maker[c] = vaultReq[p].user
    BY <1>2 DEF Inv, InFlight
  <1>4. v \in Entries /\ maker[v] = vaultReq[p].user
    BY <1>2 DEF Inv, InFlight
  <1>5. \A c \in Categories : catOwner[c] \in Maybe(Users) /\ maker[c] \in Maybe(Users)
    BY <1>3 DEF VaultTypeOK, Items
  <1>6. \A c \in vaultReq[p].filing : catOwner[c] = vaultReq[p].user
    <2> SUFFICES ASSUME NEW c \in vaultReq[p].filing PROVE catOwner[c] = vaultReq[p].user
      OBVIOUS
    <2>1. c \in Categories /\ maker[c] = vaultReq[p].user /\ catOwner[c] # {}
      BY <1>2, <1>3 DEF Refers
    <2>2. catOwner[c] \subseteq maker[c]
      BY <2>1 DEF Inv, RowsBelong
    <2> QED
      BY <2>1, <2>2, <1>5, WholeOfMaybe
  <1>7. vaultReq' \in [VaultProcs -> VaultRequest] /\ InFlight'
    BY <1>2, AnswerKeeps
  <1>8. VaultTypeOK'
    BY <1>1, <1>2, <1>3, <1>4, <1>7 DEF VaultTypeOK
  <1>9. RowsBelong'
    <2>1. \A w \in Entries : owner'[w] \subseteq accounts' \cap maker'[w]
      BY <1>1, <1>2, <1>3, <1>4 DEF Inv, RowsBelong, VaultTypeOK, Refers
    <2>2. \A c \in Categories : catOwner'[c] \subseteq accounts' \cap maker'[c]
      BY <1>2 DEF Inv, RowsBelong
    <2>3. \A w \in Entries : \A c \in filed'[w] : catOwner'[c] = owner'[w]
      BY <1>1, <1>2, <1>3, <1>4, <1>6 DEF Inv, RowsBelong, VaultTypeOK
    <2> QED
      BY <2>1, <2>2, <2>3 DEF RowsBelong
  <1> QED
    BY <1>7, <1>8, <1>9 DEF Inv

\* A deleted entry takes nothing with it.
LEMMA DeleteKeeps ==
    ASSUME Inv, NEW p \in VaultProcs, Delete(p)
    PROVE Inv'
  <1>1. /\ owner' = [v \in Entries |-> IF v \in vaultReq[p].item THEN {} ELSE owner[v]]
        /\ filed' = [v \in Entries |-> IF v \in vaultReq[p].item THEN {} ELSE filed[v]]
        /\ settled' \subseteq settled \cup vaultReq[p].item
        /\ UNCHANGED <<accounts, catOwner, maker>>
        /\ Answer(p)
    BY DEF Delete, Settles
  <1>2. vaultReq' \in [VaultProcs -> VaultRequest] /\ InFlight'
    BY <1>1, AnswerKeeps
  <1>3. VaultTypeOK'
    BY <1>1, <1>2, RequestTypes, OneOrNone DEF Inv, VaultTypeOK
  <1>4. RowsBelong'
    BY <1>1 DEF Inv, RowsBelong
  <1> QED
    BY <1>2, <1>3, <1>4 DEF Inv

\* A new category belongs to who makes it.
LEMMA CreateCategoryKeeps ==
    ASSUME Inv, CreateCategory
    PROVE Inv'
  <1>1. PICK u \in accounts, c \in Categories :
            /\ maker[c] = {}
            /\ maker' = [maker EXCEPT ![c] = {u}]
            /\ catOwner' = [catOwner EXCEPT ![c] = {u}]
    BY DEF CreateCategory
  <1>2. UNCHANGED <<accounts, owner, filed, vaultReq, settled>>
    BY DEF CreateCategory
  <1>3. c \in Items /\ u \in Users /\ {u} \in Maybe(Users)
    BY OneOrNone DEF Items, Inv, VaultTypeOK
  <1>4. maker \in [Items -> Maybe(Users)] /\ catOwner \in [Categories -> Maybe(Users)]
        /\ owner \in [Entries -> Maybe(Users)] /\ filed \in [Entries -> Maybe(Categories)]
    BY DEF Inv, VaultTypeOK
  <1>5. \A i \in Items : maker[i] # {} => maker'[i] = maker[i]
    BY <1>1, <1>3, <1>4
  <1>6. InFlight'
    <2>1. CASE VaultProcs = {}
      BY <2>1 DEF InFlight
    <2>2. CASE VaultProcs # {}
      BY <2>2, <1>2, <1>5, AnswerKeeps
    <2> QED
      BY <2>1, <2>2
  <1>7. VaultTypeOK'
    BY <1>1, <1>2, <1>3, <1>4 DEF Inv, VaultTypeOK
  <1>8. RowsBelong'
    <2>1. \A v \in Entries : owner'[v] \subseteq accounts' \cap maker'[v]
      <3> SUFFICES ASSUME NEW v \in Entries PROVE owner'[v] \subseteq accounts' \cap maker'[v]
        OBVIOUS
      <3>1. v \in Items /\ owner[v] \subseteq accounts \cap maker[v]
        BY DEF Inv, RowsBelong, Items
      <3> QED
        BY <3>1, <1>1, <1>2, <1>3, <1>4, <1>5
    <2>2. \A d \in Categories : catOwner'[d] \subseteq accounts' \cap maker'[d]
      <3> SUFFICES ASSUME NEW d \in Categories
                   PROVE catOwner'[d] \subseteq accounts' \cap maker'[d]
        OBVIOUS
      <3>1. d \in Items /\ catOwner[d] \subseteq accounts \cap maker[d]
        BY DEF Inv, RowsBelong, Items
      <3> QED
        BY <3>1, <1>1, <1>2, <1>3, <1>4
    <2>3. \A v \in Entries : \A d \in filed'[v] : catOwner'[d] = owner'[v]
      <3> SUFFICES ASSUME NEW v \in Entries, NEW d \in filed[v]
                   PROVE catOwner'[d] = owner'[v]
        BY <1>2
      <3>1. d \in Categories
        BY <1>4 DEF Maybe
      <3>2. catOwner[d] = owner[v] /\ owner[v] # {}
        BY DEF Inv, RowsBelong, VaultTypeOK
      <3>3. catOwner[c] = {}
        BY <1>1 DEF Inv, RowsBelong
      <3> QED
        BY <3>1, <3>2, <3>3, <1>1, <1>2, <1>4
    <2> QED
      BY <2>1, <2>2, <2>3 DEF RowsBelong
  <1> QED
    BY <1>6, <1>7, <1>8 DEF Inv

\* A category renamed, or inserted again, belongs to who has made it; entries
\* are not filed under one that was gone.
LEMMA RenameKeeps ==
    ASSUME Inv, NEW p \in VaultProcs, Rename(p)
    PROVE Inv'
  <1> USE RequestTypes
  <1>1. PICK c \in vaultReq[p].item : catOwner' = [catOwner EXCEPT ![c] = vaultReq[p].user]
    BY DEF Rename
  <1>2. /\ vaultReq[p].pc = "rename" /\ vaultReq[p].user \subseteq accounts
        /\ UNCHANGED <<accounts, owner, filed, maker, settled>>
        /\ Answer(p)
    BY DEF Rename, Refers, Serving
  <1>3. /\ c \in Categories /\ maker[c] = vaultReq[p].user /\ maker[c] # {}
        /\ maker[c] \in Maybe(Users)
    BY <1>2 DEF Inv, InFlight, VaultTypeOK
  <1>4. vaultReq' \in [VaultProcs -> VaultRequest] /\ InFlight'
    BY <1>2, AnswerKeeps
  <1>5. VaultTypeOK'
    BY <1>1, <1>2, <1>3, <1>4 DEF Inv, VaultTypeOK
  <1>6. RowsBelong'
    <2>1. \A v \in Entries : owner'[v] \subseteq accounts' \cap maker'[v]
      BY <1>2 DEF Inv, RowsBelong
    <2>2. \A d \in Categories : catOwner'[d] \subseteq accounts' \cap maker'[d]
      BY <1>1, <1>2, <1>3 DEF Inv, RowsBelong, VaultTypeOK
    <2>3. \A v \in Entries : \A d \in filed'[v] : catOwner'[d] = owner'[v]
      <3> SUFFICES ASSUME NEW v \in Entries, NEW d \in filed[v]
                   PROVE catOwner'[d] = owner'[v]
        BY <1>2
      <3>1. d \in Categories /\ catOwner[d] = owner[v] /\ owner[v] # {}
        BY DEF Inv, RowsBelong, VaultTypeOK, Maybe
      <3>2. catOwner[d] \subseteq maker[d]
        BY <3>1 DEF Inv, RowsBelong
      <3>3. CASE d = c
        BY <3>1, <3>2, <3>3, <1>1, <1>2, <1>3, WholeOfMaybe DEF Inv, VaultTypeOK
      <3>4. CASE d # c
        BY <3>1, <3>4, <1>1, <1>2 DEF Inv, VaultTypeOK
      <3> QED
        BY <3>3, <3>4
    <2> QED
      BY <2>1, <2>2, <2>3 DEF RowsBelong
  <1> QED
    BY <1>4, <1>5, <1>6 DEF Inv

\* Entries of a deleted category lose it.
LEMMA DeleteCategoryKeeps ==
    ASSUME Inv, NEW p \in VaultProcs, DeleteCategory(p)
    PROVE Inv'
  <1>1. /\ catOwner' = [c \in Categories |-> IF c \in vaultReq[p].item THEN {} ELSE catOwner[c]]
        /\ filed' = [v \in Entries |-> filed[v] \ vaultReq[p].item]
        /\ settled' \subseteq settled \cup vaultReq[p].item
        /\ UNCHANGED <<accounts, owner, maker>>
        /\ Answer(p)
    BY DEF DeleteCategory, Settles
  <1>2. vaultReq' \in [VaultProcs -> VaultRequest] /\ InFlight'
    BY <1>1, AnswerKeeps
  <1>3. VaultTypeOK'
    <2>1. \A v \in Entries : filed'[v] \in Maybe(Categories)
      BY <1>1, PartOfMaybe DEF Inv, VaultTypeOK
    <2> QED
      BY <2>1, <1>1, <1>2, RequestTypes, OneOrNone DEF Inv, VaultTypeOK
  <1>4. RowsBelong'
    <2>1. \A v \in Entries : \A c \in filed'[v] : catOwner'[c] = owner'[v]
      <3> SUFFICES ASSUME NEW v \in Entries, NEW c \in filed[v] \ vaultReq[p].item
                   PROVE catOwner'[c] = owner'[v]
        BY <1>1
      <3>1. c \in Categories /\ catOwner[c] = owner[v]
        BY DEF Inv, RowsBelong, VaultTypeOK, Maybe
      <3> QED
        BY <3>1, <1>1
    <2> QED
      BY <2>1, <1>1 DEF Inv, RowsBelong
  <1> QED
    BY <1>2, <1>3, <1>4 DEF Inv

\* The rows of a removed account go with it, and nobody else's.
LEMMA RemoveAccountKeeps ==
    ASSUME Inv, NEW u \in Users, RemoveAccount(u)
    PROVE Inv'
  <1>1. /\ accounts' = accounts \ {u}
        /\ owner' = [v \in Entries |-> owner[v] \ {u}]
        /\ filed' = [v \in Entries |-> IF owner[v] = {u} THEN {} ELSE
                                       {c \in filed[v] : catOwner[c] # {u}}]
        /\ catOwner' = [c \in Categories |-> catOwner[c] \ {u}]
        /\ settled' \subseteq settled \cup Items
        /\ UNCHANGED <<maker, vaultReq>>
    BY DEF RemoveAccount, Settles, Items
  <1>2. /\ owner \in [Entries -> Maybe(Users)]
        /\ filed \in [Entries -> Maybe(Categories)]
        /\ catOwner \in [Categories -> Maybe(Users)]
    BY DEF Inv, VaultTypeOK
  <1>3. ASSUME NEW A \in Maybe(Users), A # {u}
        PROVE A \ {u} = A
    BY <1>3 DEF Maybe
  <1>4. InFlight'
    <2>1. CASE VaultProcs = {}
      BY <2>1 DEF InFlight
    <2>2. CASE VaultProcs # {}
      BY <2>2, <1>1, AnswerKeeps
    <2> QED
      BY <2>1, <2>2
  <1>5. VaultTypeOK'
    <2>1. \A v \in Entries : owner'[v] \in Maybe(Users) /\ filed'[v] \in Maybe(Categories)
      <3> SUFFICES ASSUME NEW v \in Entries
                   PROVE owner'[v] \in Maybe(Users) /\ filed'[v] \in Maybe(Categories)
        OBVIOUS
      <3>1. owner'[v] \subseteq owner[v] /\ filed'[v] \subseteq filed[v]
        BY <1>1
      <3>2. owner[v] \in Maybe(Users) /\ filed[v] \in Maybe(Categories)
        BY <1>2
      <3> QED
        BY <3>1, <3>2, PartOfMaybe
    <2>2. \A c \in Categories : catOwner'[c] \in Maybe(Users)
      BY <1>1, <1>2, PartOfMaybe
    <2>3. \A v \in Entries : owner'[v] = {} => filed'[v] = {}
      BY <1>1, <1>2, <1>3 DEF Inv, VaultTypeOK
    <2> QED
      BY <2>1, <2>2, <2>3, <1>1 DEF Inv, VaultTypeOK
  <1>6. RowsBelong'
    <2>1. \A v \in Entries : \A c \in filed'[v] : catOwner'[c] = owner'[v]
      <3> SUFFICES ASSUME NEW v \in Entries, NEW c \in filed'[v]
                   PROVE catOwner'[c] = owner'[v]
        OBVIOUS
      <3>1. c \in filed[v] /\ catOwner[c] # {u} /\ owner[v] # {u}
        BY <1>1
      <3>2. c \in Categories
        BY <3>1, <1>2 DEF Maybe
      <3>3. catOwner[c] = owner[v]
        BY <3>1 DEF Inv, RowsBelong
      <3> QED
        BY <3>1, <3>2, <3>3, <1>1, <1>2
    <2> QED
      BY <2>1, <1>1 DEF Inv, RowsBelong
  <1> QED
    BY <1>4, <1>5, <1>6 DEF Inv

-----------------------------------------------------------------------------
(* The invariant *)

\* The strengthened invariant holds before anything is stored.
LEMMA InitKeeps == VaultInit => Inv
  <1> SUFFICES ASSUME VaultInit PROVE Inv
    OBVIOUS
  <1>1. NoRequest \in VaultRequest
    BY OneOrNone DEF NoRequest, VaultRequest
  <1>2. VaultTypeOK
    BY <1>1, OneOrNone DEF VaultInit, VaultTypeOK
  <1>3. RowsBelong
    BY DEF VaultInit, RowsBelong
  <1>4. InFlight
    BY DEF VaultInit, InFlight, NoRequest
  <1> QED
    BY <1>2, <1>3, <1>4 DEF Inv

\* Requests that begin, or look for their category, keep it.
LEMMA BeginningsKeep ==
    ASSUME Inv, NEW p \in VaultProcs,
           BeginStore(p) \/ BeginUpdate(p) \/ OwnsCategory(p) \/ BeginDestroy(p)
             \/ BeginRename(p) \/ BeginDestroyCategory(p)
    PROVE Inv'
  <1>1. /\ owner \in [Entries -> Maybe(Users)] /\ catOwner \in [Categories -> Maybe(Users)]
        /\ filed \in [Entries -> Maybe(Categories)] /\ maker \in [Items -> Maybe(Users)]
        /\ accounts \subseteq Users
    BY DEF Inv, VaultTypeOK
  <1>2. ASSUME NEW u \in accounts, NEW i \in Maybe(Items), NEW f \in Maybe(Categories),
               NEW pc \in {"check", "create", "save", "delete", "rename", "delete_category"}
        PROVE [pc |-> pc, user |-> {u}, item |-> i, filing |-> f] \in VaultRequest
    BY <1>1, <1>2, OneOrNone DEF VaultRequest
  <1>3. ASSUME NEW v \in Entries, NEW u, owner[v] = {u}
        PROVE maker[v] = {u} /\ {v} \in Maybe(Items) /\ filed[v] \in Maybe(Categories)
    <2>1. v \in Items /\ {u} \subseteq maker[v]
      BY <1>3 DEF Items, Inv, RowsBelong
    <2>2. maker[v] \in Maybe(Users) /\ filed[v] \in Maybe(Categories)
      BY <2>1, <1>1
    <2>3. maker[v] = {u}
      BY <2>1, <2>2 DEF Maybe
    <2> QED
      BY <2>1, <2>2, <2>3, OneOrNone
  <1>4. ASSUME NEW c \in Categories, NEW u, catOwner[c] = {u}
        PROVE maker[c] = {u} /\ {c} \in Maybe(Items)
    <2>1. c \in Items /\ {u} \subseteq maker[c]
      BY <1>4 DEF Items, Inv, RowsBelong
    <2>2. maker[c] \in Maybe(Users)
      BY <2>1, <1>1
    <2>3. maker[c] = {u}
      BY <2>1, <2>2 DEF Maybe
    <2> QED
      BY <2>1, <2>3, OneOrNone
  <1>5. CASE BeginStore(p)
    <2>1. PICK u \in accounts :
              \/ Begin(p, "create", u, {}, {})
              \/ \E c \in Categories : Begin(p, "check", u, {}, {c})
      BY <1>5 DEF BeginStore
    <2>2. {} \in Maybe(Items) /\ {} \in Maybe(Categories)
          /\ \A c \in Categories : {c} \in Maybe(Categories)
      BY OneOrNone
    <2>3. CASE Begin(p, "create", u, {}, {})
      <3>1. [pc |-> "create", user |-> {u}, item |-> {}, filing |-> {}] \in VaultRequest
        BY <2>2, <1>2
      <3> QED
        BY <3>1, <2>3, BeginKeeps
    <2>4. ASSUME NEW c \in Categories, Begin(p, "check", u, {}, {c}) PROVE Inv'
      <3>1. [pc |-> "check", user |-> {u}, item |-> {}, filing |-> {c}] \in VaultRequest
        BY <2>2, <1>2
      <3> QED
        BY <3>1, <2>4, BeginKeeps
    <2> QED
      BY <2>1, <2>3, <2>4
  <1>6. CASE BeginUpdate(p)
    <2>1. PICK u \in accounts, v \in Entries :
              /\ owner[v] = {u}
              /\ \/ Begin(p, "save", u, {v}, filed[v])
                 \/ Begin(p, "save", u, {v}, {})
                 \/ \E c \in Categories : Begin(p, "check", u, {v}, {c})
      BY <1>6 DEF BeginUpdate
    <2>2. maker[v] = {u} /\ {v} \in Maybe(Items) /\ filed[v] \in Maybe(Categories)
      BY <2>1, <1>3
    <2>3. \A c \in filed[v] : maker[c] = {u}
      <3> SUFFICES ASSUME NEW c \in filed[v] PROVE maker[c] = {u}
        OBVIOUS
      <3>1. c \in Categories /\ catOwner[c] = {u}
        BY <2>1, <2>2 DEF Inv, RowsBelong, Maybe
      <3> QED
        BY <3>1, <1>4
    <2>4. CASE Begin(p, "save", u, {v}, filed[v])
      <3>1. [pc |-> "save", user |-> {u}, item |-> {v}, filing |-> filed[v]] \in VaultRequest
        BY <2>2, <1>2
      <3> QED
        BY <3>1, <2>2, <2>3, <2>4, BeginKeeps
    <2>5. CASE Begin(p, "save", u, {v}, {})
      <3>1. {} \in Maybe(Categories)
        BY OneOrNone
      <3>2. [pc |-> "save", user |-> {u}, item |-> {v}, filing |-> {}] \in VaultRequest
        BY <3>1, <2>2, <1>2
      <3> QED
        BY <3>2, <2>2, <2>5, BeginKeeps
    <2>6. ASSUME NEW c \in Categories, Begin(p, "check", u, {v}, {c}) PROVE Inv'
      <3>1. {c} \in Maybe(Categories)
        BY OneOrNone
      <3>2. [pc |-> "check", user |-> {u}, item |-> {v}, filing |-> {c}] \in VaultRequest
        BY <3>1, <2>2, <1>2
      <3> QED
        BY <3>2, <2>2, <2>6, BeginKeeps
    <2> QED
      BY <2>1, <2>4, <2>5, <2>6
  <1>7. CASE OwnsCategory(p)
    <2>1. /\ vaultReq[p].pc = "check"
          /\ \A c \in vaultReq[p].filing : catOwner[c] = vaultReq[p].user
          /\ vaultReq' = [vaultReq EXCEPT ![p].pc = IF vaultReq[p].item = {} THEN "create" ELSE "save"]
          /\ UNCHANGED <<accounts, owner, filed, catOwner, maker, settled>>
      BY <1>7 DEF OwnsCategory, Serving, rows
    <2>2. PICK next \in {"create", "save"} : vaultReq' = [vaultReq EXCEPT ![p].pc = next]
      BY <2>1
    <2>3. vaultReq \in [VaultProcs -> VaultRequest] /\ vaultReq[p] \in VaultRequest
      BY DEF Inv, VaultTypeOK
    <2>4. vaultReq' \in [VaultProcs -> VaultRequest]
      BY <2>2, <2>3 DEF VaultRequest
    <2>5. \A c \in vaultReq[p].filing : maker[c] = vaultReq[p].user
      <3> SUFFICES ASSUME NEW c \in vaultReq[p].filing PROVE maker[c] = vaultReq[p].user
        OBVIOUS
      <3>1. c \in Categories /\ catOwner[c] = vaultReq[p].user /\ vaultReq[p].user # {}
        BY <2>1, RequestTypes DEF Inv, InFlight
      <3>2. PICK u : vaultReq[p].user = {u}
        BY <3>1, RequestTypes DEF Maybe
      <3> QED
        BY <3>1, <3>2, <1>4
    <2>6. InFlight'
      <3> SUFFICES ASSUME NEW q \in VaultProcs
                   PROVE /\ vaultReq'[q].pc # "idle" => vaultReq'[q].user # {}
                         /\ \A i \in vaultReq'[q].item : maker[i] = vaultReq'[q].user /\ maker[i] # {}
                         /\ vaultReq'[q].pc \in {"create", "save"} =>
                                \A c \in vaultReq'[q].filing : maker[c] = vaultReq'[q].user
                         /\ vaultReq'[q].pc \in {"check", "save", "delete"} =>
                                vaultReq'[q].item \subseteq Entries
                         /\ vaultReq'[q].pc \in {"rename", "delete_category"} =>
                                vaultReq'[q].item \subseteq Categories
        BY <2>1 DEF InFlight
      <3>1. CASE q # p
        BY <3>1, <2>2, <2>3 DEF Inv, InFlight
      <3>2. CASE q = p
        <4>1. vaultReq'[p] = [vaultReq[p] EXCEPT !.pc = next]
          BY <2>2, <2>3
        <4>2. /\ vaultReq'[p].pc = next /\ vaultReq'[p].user = vaultReq[p].user
              /\ vaultReq'[p].item = vaultReq[p].item /\ vaultReq'[p].filing = vaultReq[p].filing
          BY <4>1, <2>3 DEF VaultRequest
        <4> QED
          BY <3>2, <4>2, <2>1, <2>5 DEF Inv, InFlight
      <3> QED
        BY <3>1, <3>2
    <2> QED
      BY <2>1, <2>4, <2>6 DEF Inv, VaultTypeOK, RowsBelong
  <1>8. CASE BeginDestroy(p)
    <2>1. PICK u \in accounts, v \in Entries : owner[v] = {u} /\ Begin(p, "delete", u, {v}, {})
      BY <1>8 DEF BeginDestroy
    <2>2. maker[v] = {u} /\ {v} \in Maybe(Items) /\ {} \in Maybe(Categories)
      BY <2>1, <1>3, OneOrNone
    <2>3. [pc |-> "delete", user |-> {u}, item |-> {v}, filing |-> {}] \in VaultRequest
      BY <2>2, <1>2
    <2> QED
      BY <2>1, <2>2, <2>3, BeginKeeps
  <1>9. CASE BeginRename(p)
    <2>1. PICK u \in accounts, c \in Categories :
              catOwner[c] = {u} /\ Begin(p, "rename", u, {c}, {})
      BY <1>9 DEF BeginRename
    <2>2. maker[c] = {u} /\ {c} \in Maybe(Items) /\ {} \in Maybe(Categories)
      BY <2>1, <1>4, OneOrNone
    <2>3. [pc |-> "rename", user |-> {u}, item |-> {c}, filing |-> {}] \in VaultRequest
      BY <2>2, <1>2
    <2> QED
      BY <2>1, <2>2, <2>3, BeginKeeps
  <1>10. CASE BeginDestroyCategory(p)
    <2>1. PICK u \in accounts, c \in Categories :
              catOwner[c] = {u} /\ Begin(p, "delete_category", u, {c}, {})
      BY <1>10 DEF BeginDestroyCategory
    <2>2. maker[c] = {u} /\ {c} \in Maybe(Items) /\ {} \in Maybe(Categories)
      BY <2>1, <1>4, OneOrNone
    <2>3. [pc |-> "delete_category", user |-> {u}, item |-> {c}, filing |-> {}] \in VaultRequest
      BY <2>2, <1>2
    <2> QED
      BY <2>1, <2>2, <2>3, BeginKeeps
  <1> QED
    BY <1>5, <1>6, <1>7, <1>8, <1>9, <1>10

\* Every step keeps the invariant.
LEMMA NextKeeps == Inv /\ [VaultNext]_vaultVars => Inv'
  <1> SUFFICES ASSUME Inv, [VaultNext]_vaultVars PROVE Inv'
    OBVIOUS
  <1>1. ASSUME NEW p \in VaultProcs, StatementFails(p) PROVE Inv'
    <2>1. Answer(p) /\ UNCHANGED <<accounts, owner, filed, catOwner, maker, settled>>
      BY <1>1 DEF StatementFails, rows
    <2>2. vaultReq' \in [VaultProcs -> VaultRequest] /\ InFlight'
      BY <2>1, AnswerKeeps
    <2> QED
      BY <2>1, <2>2 DEF Inv, VaultTypeOK, RowsBelong
  <1>2. CASE UNCHANGED vaultVars
    BY <1>2 DEF vaultVars, Inv, VaultTypeOK, RowsBelong, InFlight
  <1> QED
    BY <1>1, <1>2, BeginningsKeep, CreateKeeps, SaveKeeps, DeleteKeeps, CreateCategoryKeeps,
       RenameKeeps, DeleteCategoryKeeps, RemoveAccountKeeps DEF VaultNext

\* Types, for any number of accounts, entries, categories and requests.
THEOREM VaultTypeCorrect == VaultSpec => []VaultTypeOK
  <1>1. Inv => VaultTypeOK
    BY DEF Inv
  <1> QED
    BY InitKeeps, NextKeeps, <1>1, PTL DEF VaultSpec

\* A row belongs to the account that has created it, and an entry is filed under
\* a category of its own account, however requests cross.
THEOREM RowsBelongHolds == VaultSpec => []RowsBelong
  <1>1. Inv => RowsBelong
    BY DEF Inv
  <1> QED
    BY InitKeeps, NextKeeps, <1>1, PTL DEF VaultSpec

-----------------------------------------------------------------------------
(* What is deleted for good *)

SInv == Inv /\ Settled /\ DeletedForGood

\* An answer ends an update and begins none; so nothing settled comes into
\* anybody's hands.
LEMMA AnswerSettles ==
    ASSUME Inv, Settled, NEW p \in VaultProcs, Answer(p), settled' = settled,
           \A i \in Items : maker[i] # {} => maker'[i] = maker[i]
    PROVE Settled'
  <1>1. \A q \in VaultProcs : vaultReq'[q] = vaultReq[q] \/ vaultReq'[q] = NoRequest
    BY DEF Answer, Inv, VaultTypeOK
  <1>2. \A q \in VaultProcs : \A i : Updating(q, i)' => Updating(q, i)
    BY <1>1 DEF Updating, NoRequest
  <1>3. settled \subseteq Items
    BY DEF Inv, VaultTypeOK
  <1> QED
    BY <1>2, <1>3 DEF Settled

\* A request begins with a row that is there, so not with a settled one.
LEMMA BeginSettles ==
    ASSUME SInv, NEW p \in VaultProcs, NEW pc, NEW u \in accounts, NEW item, NEW filing,
           Begin(p, pc, u, item, filing),
           pc \in {"check", "save", "rename"} => \A i \in item : i \notin settled
    PROVE (Settled /\ DeletedForGood)'
  <1>1. /\ vaultReq' = [vaultReq EXCEPT ![p] = [pc |-> pc, user |-> {u}, item |-> item,
                                      filing |-> filing]]
        /\ UNCHANGED <<accounts, owner, filed, catOwner, maker, settled>>
    BY DEF Begin, rows
  <1>2. vaultReq \in [VaultProcs -> VaultRequest]
    BY DEF SInv, Inv, VaultTypeOK
  <1>3. ASSUME NEW i \in settled, NEW q \in VaultProcs PROVE ~Updating(q, i)'
    <2>1. CASE q # p
      BY <2>1, <1>1, <1>2 DEF SInv, Settled, Updating
    <2>2. CASE q = p
      BY <2>2, <1>1, <1>2 DEF Updating
    <2> QED
      BY <2>1, <2>2
  <1> QED
    BY <1>1, <1>3 DEF SInv, Settled, DeletedForGood

\* The beginnings of all requests.
LEMMA BeginningsSettle ==
    ASSUME SInv, NEW p \in VaultProcs,
           BeginStore(p) \/ BeginUpdate(p) \/ OwnsCategory(p) \/ BeginDestroy(p)
             \/ BeginRename(p) \/ BeginDestroyCategory(p)
    PROVE (Settled /\ DeletedForGood)'
  <1>1. \A v \in Entries : owner[v] # {} => v \notin settled
    BY DEF SInv, DeletedForGood
  <1>2. \A c \in Categories : catOwner[c] # {} => c \notin settled
    BY DEF SInv, DeletedForGood
  <1>3. CASE BeginStore(p)
    <2>1. PICK u \in accounts :
              \/ Begin(p, "create", u, {}, {})
              \/ \E c \in Categories : Begin(p, "check", u, {}, {c})
      BY <1>3 DEF BeginStore
    <2>2. CASE Begin(p, "create", u, {}, {})
      BY <2>2, BeginSettles
    <2>3. ASSUME NEW c \in Categories, Begin(p, "check", u, {}, {c})
          PROVE (Settled /\ DeletedForGood)'
      BY <2>3, BeginSettles
    <2> QED
      BY <2>1, <2>2, <2>3
  <1>4. CASE BeginUpdate(p)
    <2>1. PICK u \in accounts, v \in Entries :
              /\ owner[v] = {u}
              /\ \/ Begin(p, "save", u, {v}, filed[v])
                 \/ Begin(p, "save", u, {v}, {})
                 \/ \E c \in Categories : Begin(p, "check", u, {v}, {c})
      BY <1>4 DEF BeginUpdate
    <2>2. \A i \in {v} : i \notin settled
      BY <2>1, <1>1
    <2>3. CASE Begin(p, "save", u, {v}, filed[v])
      BY <2>2, <2>3, BeginSettles
    <2>4. CASE Begin(p, "save", u, {v}, {})
      BY <2>2, <2>4, BeginSettles
    <2>5. ASSUME NEW c \in Categories, Begin(p, "check", u, {v}, {c})
          PROVE (Settled /\ DeletedForGood)'
      BY <2>2, <2>5, BeginSettles
    <2> QED
      BY <2>1, <2>3, <2>4, <2>5
  <1>5. CASE OwnsCategory(p)
    <2>1. /\ vaultReq[p].pc = "check"
          /\ vaultReq' = [vaultReq EXCEPT ![p].pc = IF vaultReq[p].item = {} THEN "create" ELSE "save"]
          /\ UNCHANGED <<accounts, owner, filed, catOwner, maker, settled>>
      BY <1>5 DEF OwnsCategory, Serving, rows
    <2>2. vaultReq \in [VaultProcs -> VaultRequest] /\ vaultReq[p] \in VaultRequest
      BY DEF SInv, Inv, VaultTypeOK
    <2>3. ASSUME NEW q \in VaultProcs, NEW i, Updating(q, i)' PROVE Updating(q, i)
      <3>1. CASE q # p
        BY <3>1, <2>1, <2>2, <2>3 DEF Updating
      <3>2. CASE q = p
        <4>1. vaultReq'[p].item = vaultReq[p].item
          BY <2>1, <2>2 DEF VaultRequest
        <4> QED
          BY <3>2, <4>1, <2>1, <2>3 DEF Updating
      <3> QED
        BY <3>1, <3>2
    <2> QED
      BY <2>1, <2>3 DEF SInv, Settled, DeletedForGood
  <1>6. CASE BeginDestroy(p)
    <2>1. PICK u \in accounts, v \in Entries : Begin(p, "delete", u, {v}, {})
      BY <1>6 DEF BeginDestroy
    <2> QED
      BY <2>1, BeginSettles
  <1>7. CASE BeginRename(p)
    <2>1. PICK u \in accounts, c \in Categories :
              catOwner[c] = {u} /\ Begin(p, "rename", u, {c}, {})
      BY <1>7 DEF BeginRename
    <2>2. \A i \in {c} : i \notin settled
      BY <2>1, <1>2
    <2> QED
      BY <2>1, <2>2, BeginSettles
  <1>8. CASE BeginDestroyCategory(p)
    <2>1. PICK u \in accounts, c \in Categories : Begin(p, "delete_category", u, {c}, {})
      BY <1>8 DEF BeginDestroyCategory
    <2> QED
      BY <2>1, BeginSettles
  <1> QED
    BY <1>3, <1>4, <1>5, <1>6, <1>7, <1>8

\* The statements that write a row: it was not settled.
LEMMA WritesSettle ==
    ASSUME SInv, NEW p \in VaultProcs, Create(p) \/ Save(p) \/ Rename(p) \/ StatementFails(p)
    PROVE (Settled /\ DeletedForGood)'
  <1> USE RequestTypes
  <1>1. VaultTypeOK /\ Inv
    BY DEF SInv, Inv
  <1>2. ASSUME NEW i \in vaultReq[p].item, vaultReq[p].pc \in {"save", "rename"}
        PROVE i \notin settled
    <2>1. vaultReq[p].item = {i}
      BY <1>1 DEF Maybe
    <2> QED
      BY <2>1, <1>2 DEF SInv, Settled, Updating
  <1>3. CASE Create(p)
    <2>1. PICK v \in Entries :
              /\ maker[v] = {}
              /\ maker' = [maker EXCEPT ![v] = vaultReq[p].user]
              /\ owner' = [owner EXCEPT ![v] = vaultReq[p].user]
      BY <1>3 DEF Create
    <2>2. UNCHANGED <<catOwner, settled>> /\ Answer(p)
      BY <1>3 DEF Create
    <2>3. \A i \in Items : maker[i] # {} => maker'[i] = maker[i]
      BY <2>1, <1>1 DEF VaultTypeOK
    <2>4. v \notin settled
      BY <2>1 DEF SInv, Settled
    <2>5. Settled'
      BY <2>2, <2>3, AnswerSettles DEF SInv
    <2>6. DeletedForGood'
      BY <2>1, <2>2, <2>4, <1>1 DEF SInv, DeletedForGood, VaultTypeOK
    <2> QED
      BY <2>5, <2>6
  <1>4. CASE Save(p)
    <2>1. PICK v \in vaultReq[p].item : owner' = [owner EXCEPT ![v] = vaultReq[p].user]
      BY <1>4 DEF Save
    <2>2. UNCHANGED <<catOwner, maker, settled>> /\ Answer(p) /\ vaultReq[p].pc = "save"
      BY <1>4 DEF Save, Serving
    <2>3. v \notin settled
      BY <2>1, <2>2, <1>2
    <2>4. Settled'
      BY <2>2, AnswerSettles DEF SInv
    <2>5. DeletedForGood'
      BY <2>1, <2>2, <2>3, <1>1 DEF SInv, DeletedForGood, VaultTypeOK
    <2> QED
      BY <2>4, <2>5
  <1>5. CASE Rename(p)
    <2>1. PICK c \in vaultReq[p].item : catOwner' = [catOwner EXCEPT ![c] = vaultReq[p].user]
      BY <1>5 DEF Rename
    <2>2. UNCHANGED <<owner, maker, settled>> /\ Answer(p) /\ vaultReq[p].pc = "rename"
      BY <1>5 DEF Rename, Serving
    <2>3. c \notin settled
      BY <2>1, <2>2, <1>2
    <2>4. Settled'
      BY <2>2, AnswerSettles DEF SInv
    <2>5. DeletedForGood'
      BY <2>1, <2>2, <2>3, <1>1 DEF SInv, DeletedForGood, VaultTypeOK
    <2> QED
      BY <2>4, <2>5
  <1>6. CASE StatementFails(p)
    <2>1. Answer(p) /\ UNCHANGED <<owner, catOwner, maker, settled>>
      BY <1>6 DEF StatementFails, rows
    <2>2. Settled'
      BY <2>1, AnswerSettles DEF SInv
    <2> QED
      BY <2>1, <2>2 DEF SInv, DeletedForGood
  <1> QED
    BY <1>3, <1>4, <1>5, <1>6

\* A deletion settles what nobody updates, and no entry is a category.
LEMMA DeletionsSettle ==
    ASSUME SInv, NEW p \in VaultProcs, Delete(p) \/ DeleteCategory(p)
    PROVE (Settled /\ DeletedForGood)'
  <1> USE RequestTypes
  <1>1. /\ settled' = settled \cup {i \in vaultReq[p].item : \A q \in VaultProcs : ~Updating(q, i)}
        /\ UNCHANGED maker
        /\ Answer(p)
    BY DEF Delete, DeleteCategory, Settles
  <1>2. vaultReq \in [VaultProcs -> VaultRequest] /\ Inv
    BY DEF SInv, Inv, VaultTypeOK
  <1>3. \A i \in vaultReq[p].item : maker[i] # {}
    BY <1>2 DEF Inv, InFlight
  <1>4. \A q \in VaultProcs : \A i : Updating(q, i)' => Updating(q, i)
    BY <1>1, <1>2 DEF Answer, Updating, NoRequest
  <1>5. Settled'
    BY <1>1, <1>3, <1>4 DEF SInv, Settled
  <1>6. CASE Delete(p)
    <2>1. vaultReq[p].item \subseteq Entries
      BY <1>2, <1>6 DEF Delete, Serving, Inv, InFlight
    <2>2. /\ owner' = [v \in Entries |-> IF v \in vaultReq[p].item THEN {} ELSE owner[v]]
          /\ UNCHANGED catOwner
      BY <1>6 DEF Delete
    <2> QED
      BY <1>1, <1>5, <2>1, <2>2, VaultAssumption DEF SInv, DeletedForGood
  <1>7. CASE DeleteCategory(p)
    <2>1. vaultReq[p].item \subseteq Categories
      BY <1>2, <1>7 DEF DeleteCategory, Serving, Inv, InFlight
    <2>2. /\ catOwner' = [c \in Categories |-> IF c \in vaultReq[p].item THEN {} ELSE catOwner[c]]
          /\ UNCHANGED owner
      BY <1>7 DEF DeleteCategory
    <2> QED
      BY <1>1, <1>5, <2>1, <2>2, VaultAssumption DEF SInv, DeletedForGood
  <1> QED
    BY <1>6, <1>7

\* So does the removal of an account, with all of its rows.
LEMMA RemovalSettles ==
    ASSUME SInv, NEW u \in Users, RemoveAccount(u)
    PROVE (Settled /\ DeletedForGood)'
  <1> DEFINE gone == {v \in Entries : owner[v] = {u}} \cup {c \in Categories : catOwner[c] = {u}}
  <1>1. /\ settled' = settled \cup {i \in gone : \A q \in VaultProcs : ~Updating(q, i)}
        /\ owner' = [v \in Entries |-> owner[v] \ {u}]
        /\ catOwner' = [c \in Categories |-> catOwner[c] \ {u}]
        /\ UNCHANGED <<maker, vaultReq>>
    BY DEF RemoveAccount, Settles
  <1>2. \A i \in gone : maker[i] # {}
    BY DEF SInv, Inv, RowsBelong
  <1>3. Settled'
    BY <1>1, <1>2 DEF SInv, Settled, Updating
  <1>4. \A i \in gone : /\ i \in Entries => owner'[i] = {}
                        /\ i \in Categories => catOwner'[i] = {}
    BY <1>1, VaultAssumption
  <1>5. \A i \in settled : /\ i \in Entries => owner'[i] = {}
                           /\ i \in Categories => catOwner'[i] = {}
    BY <1>1 DEF SInv, DeletedForGood
  <1> QED
    BY <1>1, <1>3, <1>4, <1>5 DEF DeletedForGood

\* A new category was never deleted.
LEMMA CreationSettles ==
    ASSUME SInv, CreateCategory
    PROVE (Settled /\ DeletedForGood)'
  <1>1. PICK u \in accounts, c \in Categories :
            /\ maker[c] = {}
            /\ maker' = [maker EXCEPT ![c] = {u}]
            /\ catOwner' = [catOwner EXCEPT ![c] = {u}]
    BY DEF CreateCategory
  <1>2. UNCHANGED <<owner, vaultReq, settled>>
    BY DEF CreateCategory
  <1>3. c \notin settled /\ settled \subseteq Items
    BY <1>1 DEF SInv, Settled, Inv, VaultTypeOK
  <1>4. Settled'
    BY <1>1, <1>2, <1>3 DEF SInv, Settled, Updating, Inv, VaultTypeOK
  <1> QED
    BY <1>1, <1>2, <1>3, <1>4 DEF SInv, DeletedForGood, Inv, VaultTypeOK

\* Entries and categories have ids of their own (UUIDs): what was deleted while no
\* update of it was under way stays deleted.
THEOREM DeletedForGoodHolds == VaultSpec => []DeletedForGood
  <1>1. VaultInit => SInv
    BY InitKeeps DEF VaultInit, SInv, Settled, DeletedForGood
  <1>2. SInv /\ [VaultNext]_vaultVars => SInv'
    <2> SUFFICES ASSUME SInv, [VaultNext]_vaultVars PROVE SInv'
      OBVIOUS
    <2>1. Inv'
      BY NextKeeps DEF SInv
    <2>2. CASE UNCHANGED vaultVars
      BY <2>2 DEF vaultVars, SInv, Settled, DeletedForGood, Updating, Inv, VaultTypeOK, RowsBelong,
                  InFlight
    <2>3. CASE VaultNext
      <3>1. (Settled /\ DeletedForGood)'
        BY <2>3, BeginningsSettle, WritesSettle, DeletionsSettle, RemovalSettles, CreationSettles
           DEF VaultNext
      <3> QED
        BY <2>1, <3>1 DEF SInv
    <2> QED
      BY <2>2, <2>3
  <1>3. SInv => DeletedForGood
    BY DEF SInv
  <1> QED
    BY <1>1, <1>2, <1>3, PTL DEF VaultSpec
=============================================================================
