-------------------------- MODULE SharedVaultProofs --------------------------
(***************************************************************************)
(* Proofs about SharedVault, for every number of accounts, entries,        *)
(* categories and goroutines.  The inductive invariant adds to             *)
(* SharedTypeOK what a request has behind it at each of its statements:    *)
(* that permitsShared has let it pass, and for which operation.            *)
(***************************************************************************)
EXTENDS SharedVault, TLAPS

\* The statements that come after permitsShared.
Permitted == {"load", "check_category", "save", "insert", "delete", "load_category"}
               \cup CategoryOps

\* The statement fits the operation.
OnTrack(r) ==
    /\ r.pc = "load" => r.op \in {"edit", "move", "delete"}
    /\ r.pc = "check_category" => r.op \in {"store", "move"}
    /\ r.pc = "save" => r.op \in {"edit", "move"}
    /\ r.pc = "insert" => r.op = "store"
    /\ r.pc = "delete" => r.op = "delete"
    /\ r.pc = "load_category" => r.op \in {"rename_category", "delete_category"}
    /\ r.pc \in CategoryOps => r.op = r.pc
    /\ r.pc \in {"rename_category", "delete_category"} => r.target \in Categories
    /\ r.pc = "revoke" => ~r.owner

\* A request r of a plain member that was allowed the sets in a, with the
\* switches at s now, is past permitsShared only if a has what it needs; a has
\* what the switches allow now, and is closed under giving up permissions.
Judged(r, a, s) ==
    /\ r.pc = "idle" => a = {}
    /\ a # {} => ~r.admin /\ SUBSET s \subseteq a
    /\ \A allowance \in a : SUBSET allowance \subseteq a
    /\ a # {} /\ r.pc \in Permitted => Needs(r.op) \in a

RequestsOK ==
    /\ call \in [Threads -> Call]
    /\ allowed \in [Threads -> SUBSET SUBSET Switches]
    /\ \A p \in Threads : OnTrack(call[p]) /\ Judged(call[p], allowed[p], switches)

RowsOK ==
    /\ rank \in [People -> Ranks \cup {"none"}]
    /\ member \in SUBSET Present
    /\ switches \in SUBSET Switches
    /\ category \in [Categories -> {"unborn", "row", "gone"}]
    /\ entry \in [Entries -> {"unborn", "gone", Null} \cup Stored]
    /\ contents \in [Entries -> 0..1]

IInv == RowsOK /\ RequestsOK

-----------------------------------------------------------------------------
(* How requests move *)

\* An idle goroutine has nothing behind it.
LEMMA IdleIsGood ==
  NoCall \in Call /\ OnTrack(NoCall) /\ NoCall.pc = "idle" /\ ~NoCall.admin
BY DEF NoCall, Call, Steps, AdminSteps, EntryOps, CategoryOps, Filing, OnTrack

\* A request goes on to a next statement that it has earned.
LEMMA BecomePreserves ==
  ASSUME RequestsOK, NEW p \in Threads, NEW r \in Call, Become(p, r),
         switches' = switches, OnTrack(r), Judged(r, allowed[p], switches)
  PROVE  RequestsOK'
BY DEF RequestsOK, Become

\* An answered request leaves its goroutine idle.
LEMMA AnswerPreserves ==
  ASSUME RequestsOK, NEW p \in Threads, Reply(p), switches' = switches
  PROVE  RequestsOK'
<1>1. call' \in [Threads -> Call] /\ allowed' \in [Threads -> SUBSET SUBSET Switches]
  BY IdleIsGood DEF RequestsOK, Reply
<1>2. ASSUME NEW q \in Threads
      PROVE  OnTrack(call'[q]) /\ Judged(call'[q], allowed'[q], switches')
  <2>1. CASE q = p
    BY <2>1, IdleIsGood DEF RequestsOK, Reply, Judged
  <2>2. CASE q # p
    BY <2>2 DEF RequestsOK, Reply
  <2> QED
    BY <2>1, <2>2
<1> QED
  BY <1>1, <1>2 DEF RequestsOK

\* New switches add to what every request in flight was allowed.
LEMMA TurnPreserves ==
  ASSUME RequestsOK, NEW p \in Threads, NEW new \in SUBSET Switches, Turn(p, new)
  PROVE  RequestsOK'
<1>1. call' \in [Threads -> Call] /\ allowed' \in [Threads -> SUBSET SUBSET Switches]
  BY IdleIsGood DEF RequestsOK, Turn
<1>2. ASSUME NEW q \in Threads
      PROVE  OnTrack(call'[q]) /\ Judged(call'[q], allowed'[q], switches')
  <2>1. CASE q = p
    BY <2>1, IdleIsGood DEF RequestsOK, Turn, Judged
  <2>2. CASE q # p
    <3>1. /\ call'[q] = call[q] /\ switches' = new
          /\ allowed'[q] = IF allowed[q] = {} THEN {} ELSE allowed[q] \cup SUBSET new
      BY <2>2 DEF RequestsOK, Turn
    <3>2. OnTrack(call[q]) /\ Judged(call[q], allowed[q], switches)
      BY DEF RequestsOK
    <3> QED
      BY <3>1, <3>2 DEF Judged
  <2> QED
    BY <2>1, <2>2
<1> QED
  BY <1>1, <1>2 DEF RequestsOK

\* permitsShared leads to a statement that fits the operation.
LEMMA AfterPermitIsGood ==
  ASSUME NEW q \in Call, q.pc = "permit", NEW r \in AfterPermit(q)
  PROVE  /\ r \in Call /\ r.op = q.op /\ r.admin = q.admin /\ OnTrack(r)
         /\ r.pc \notin {"idle", "save"} /\ (r.pc = "check_category" => r.op = "store")
<1>1. PICK pc \in {"insert", "check_category", "load", "store_category", "load_category"},
           c \in Filing :
        /\ r = [q EXCEPT !.pc = pc, !.filing = c]
        /\ OnTrack(r) /\ (pc = "check_category" => q.op = "store")
  <2>1. CASE q.op = "store"
    <3>1. r = [q EXCEPT !.pc = "insert", !.filing = q.filing]
          \/ \E c \in Categories : r = [q EXCEPT !.pc = "check_category", !.filing = c]
      BY <2>1 DEF AfterPermit, Call
    <3> QED
      BY <2>1, <3>1 DEF Call, Filing, OnTrack, CategoryOps
  <2>2. CASE q.op \in {"edit", "move", "delete"}
    <3>1. r = [q EXCEPT !.pc = "load", !.filing = q.filing]
      BY <2>2 DEF AfterPermit, Call
    <3> QED
      BY <2>2, <3>1 DEF Call, OnTrack, CategoryOps
  <2>3. CASE q.op = "store_category"
    <3>1. r = [q EXCEPT !.pc = "store_category", !.filing = q.filing]
      BY <2>3 DEF AfterPermit, Call
    <3> QED
      BY <2>3, <3>1 DEF Call, OnTrack, CategoryOps
  <2>4. CASE q.op \in {"rename_category", "delete_category"}
    <3>1. r = [q EXCEPT !.pc = "load_category", !.filing = q.filing]
      BY <2>4 DEF AfterPermit, Call
    <3> QED
      BY <2>4, <3>1 DEF Call, OnTrack, CategoryOps
  <2> QED
    BY <2>1, <2>2, <2>3, <2>4 DEF Call, EntryOps, CategoryOps
<1> QED
  BY <1>1 DEF Call, Steps, CategoryOps

\* So does the loading of an entry, which is the target from then on.
LEMMA AfterLoadIsGood ==
  ASSUME NEW q \in Call, q.pc = "load", OnTrack(q), NEW e \in Rows,
         NEW r \in AfterLoad(q, e)
  PROVE  /\ r \in Call /\ r.op = q.op /\ r.admin = q.admin /\ OnTrack(r)
         /\ r.pc # "idle" /\ r.target = e
<1>1. q.op \in {"edit", "move", "delete"} /\ e \in Entries /\ entry[e] \in Filing
  BY DEF OnTrack, Rows
<1>2. PICK pc \in {"delete", "save", "check_category"}, c \in Filing :
        /\ r = [q EXCEPT !.pc = pc, !.target = e, !.filing = c]
        /\ OnTrack(r)
  <2>1. CASE q.op = "delete"
    <3>1. r = [q EXCEPT !.pc = "delete", !.target = e, !.filing = q.filing]
      BY <2>1 DEF AfterLoad, Call
    <3> QED
      BY <2>1, <3>1 DEF Call, OnTrack, CategoryOps
  <2>2. CASE q.op = "edit"
    <3>1. r = [q EXCEPT !.pc = "save", !.target = e, !.filing = entry[e]]
      BY <2>2 DEF AfterLoad, Call
    <3> QED
      BY <1>1, <2>2, <3>1 DEF Call, OnTrack, CategoryOps
  <2>3. CASE q.op = "move"
    <3>1. r = [q EXCEPT !.pc = "save", !.target = e, !.filing = q.filing]
          \/ \E c \in Categories :
               r = [q EXCEPT !.pc = "check_category", !.target = e, !.filing = c]
      BY <2>3 DEF AfterLoad, Call
    <3> QED
      BY <2>3, <3>1 DEF Call, Filing, OnTrack, CategoryOps
  <2> QED
    BY <1>1, <2>1, <2>2, <2>3
<1> QED
  BY <1>1, <1>2 DEF Call, Steps, CategoryOps

-----------------------------------------------------------------------------
(* The invariant is inductive *)

LEMMA InitIsGood == SharedInit => IInv
<1> SUFFICES ASSUME SharedInit PROVE IInv
  OBVIOUS
<1>1. RowsOK
  BY DEF SharedInit, RowsOK, Ranks, Present, Stored
<1>2. RequestsOK
  BY IdleIsGood DEF SharedInit, RequestsOK, Judged
<1> QED
  BY <1>1, <1>2 DEF IInv

\* Statements of the guards and reading statements leave the rows alone and
\* move one request on.
LEMMA ReadersPreserve ==
  ASSUME IInv, NEW p \in Threads,
         \/ AdmitMember(p) \/ AdmitAdmin(p) \/ Permit(p) \/ LoadEntry(p) \/ CheckCategory(p)
         \/ LoadCategory(p) \/ LoadBranding(p) \/ LoadGrantee(p) \/ LoadMember(p)
         \/ CallFails(p)
  PROVE  IInv'
<1> DEFINE Same == UNCHANGED <<accounts, switches, tables>>
<1>1. /\ RowsOK /\ RequestsOK /\ call[p] \in Call /\ OnTrack(call[p])
      /\ Judged(call[p], allowed[p], switches) /\ switches \in SUBSET Switches
      /\ allowed[p] \in SUBSET SUBSET Switches
  BY DEF IInv, RequestsOK, RowsOK
<1>2. Same => RowsOK'
  BY <1>1 DEF RowsOK, Present, Stored, accounts, tables, entries
<1>3. SUFFICES ASSUME Same PROVE RequestsOK'
  BY <1>2 DEF IInv, AdmitMember, AdmitAdmin, Permit, LoadEntry, CheckCategory, LoadCategory,
       LoadBranding, LoadGrantee, LoadMember, CallFails
<1>4. ASSUME Reply(p) PROVE RequestsOK'
  BY <1>1, <1>3, <1>4, AnswerPreserves
<1>5. CASE AdmitMember(p)
  <2>1. PICK u \in member, op \in EntryOps \cup CategoryOps :
          /\ call' = [call EXCEPT ![p] = [NoCall EXCEPT !.pc = "permit", !.op = op,
                                                    !.admin = IsAdminRank(rank[u])]]
          /\ allowed' = IF IsAdminRank(rank[u]) THEN allowed
                        ELSE [allowed EXCEPT ![p] = SUBSET switches]
    BY <1>5 DEF AdmitMember
  <2>2. PICK b \in BOOLEAN : b = IsAdminRank(rank[u])
    <3>1. IsAdminRank(rank[u]) = TRUE \/ IsAdminRank(rank[u]) = FALSE
      BY DEF IsAdminRank
    <3> QED
      BY <3>1
  <2> DEFINE r == [NoCall EXCEPT !.pc = "permit", !.op = op, !.admin = b]
             a == IF b THEN {} ELSE SUBSET switches
  <2>3. r \in Call /\ r.pc = "permit" /\ r.admin = b
    BY IdleIsGood DEF Call, NoCall, Steps
  <2>4. OnTrack(r) /\ Judged(r, a, switches)
    BY <2>3 DEF OnTrack, Judged, Permitted, CategoryOps
  <2>5. allowed[p] = {}
    BY <1>1, <1>5 DEF AdmitMember, Reached, Judged
  <2>6. call' = [call EXCEPT ![p] = r] /\ allowed' = [allowed EXCEPT ![p] = a]
    BY <1>1, <2>1, <2>2, <2>5 DEF RequestsOK
  <2>7. a \in SUBSET SUBSET Switches
    BY <1>1
  <2> HIDE DEF r, a
  <2> QED
    BY <1>1, <1>3, <2>3, <2>4, <2>6, <2>7 DEF RequestsOK
<1>6. CASE AdmitAdmin(p)
  <2>1. PICK pc \in AdminSteps : Become(p, [call[p] EXCEPT !.pc = pc])
    BY <1>6 DEF AdmitAdmin, Goto
  <2> DEFINE r == [call[p] EXCEPT !.pc = pc]
  <2>2. r \in Call /\ r.pc \in AdminSteps
    BY <1>1 DEF Call, Steps
  <2>3. allowed[p] = {}
    BY <1>1, <1>6 DEF AdmitAdmin, Reached, Judged
  <2>4. OnTrack(r) /\ Judged(r, allowed[p], switches)
    BY <2>2, <2>3 DEF OnTrack, Judged, AdminSteps, CategoryOps
  <2> QED
    BY <1>1, <1>3, <2>1, <2>2, <2>4, BecomePreserves
<1>7. CASE Permit(p)
  <2>1. CASE ~(call[p].admin \/ Needs(call[p].op) \subseteq switches)
    BY <1>4, <1>7, <2>1 DEF Permit
  <2>2. CASE call[p].admin \/ Needs(call[p].op) \subseteq switches
    <3>1. PICK r \in AfterPermit(call[p]) : Become(p, r)
      BY <1>7, <2>2 DEF Permit
    <3>2. call[p].pc = "permit" /\ call[p].op \in EntryOps \cup CategoryOps
      BY <1>1, <1>7 DEF Permit, Reached, Call
    <3>4. r \in Call /\ r.op = call[p].op /\ r.admin = call[p].admin
          /\ r.pc # "idle" /\ OnTrack(r)
      BY <1>1, <3>1, <3>2, AfterPermitIsGood
    <3>5. Judged(r, allowed[p], switches)
      BY <1>1, <2>2, <3>4 DEF Judged
    <3> QED
      BY <1>1, <1>3, <3>1, <3>4, <3>5, BecomePreserves
  <2> QED
    BY <2>1, <2>2
<1>8. CASE LoadEntry(p)
  <2>1. SUFFICES ASSUME NEW e \in Rows, NEW r \in AfterLoad(call[p], e), Become(p, r)
                 PROVE  RequestsOK'
    BY <1>4, <1>8 DEF LoadEntry
  <2>2. call[p].pc = "load" /\ call[p].op \in {"edit", "move", "delete"}
    BY <1>1, <1>8 DEF LoadEntry, Reached, OnTrack
  <2>5. r \in Call /\ r.op = call[p].op /\ r.admin = call[p].admin
        /\ r.pc # "idle" /\ OnTrack(r)
    BY <1>1, <2>2, AfterLoadIsGood
  <2>6. call[p].pc \in Permitted
    BY <2>2 DEF Permitted
  <2>7. Judged(r, allowed[p], switches)
    BY <1>1, <2>5, <2>6 DEF Judged
  <2> QED
    BY <1>1, <1>3, <2>1, <2>5, <2>7, BecomePreserves
<1>9. CASE CheckCategory(p)
  <2>1. CASE call[p].filing \notin Stored
    BY <1>4, <1>9, <2>1 DEF CheckCategory
  <2>2. CASE call[p].filing \in Stored
    <3> DEFINE r == [call[p] EXCEPT !.pc = IF call[p].op = "store" THEN "insert" ELSE "save"]
    <3>1. Become(p, r)
      BY <1>9, <2>2 DEF CheckCategory, Goto
    <3>2. call[p].pc = "check_category" /\ call[p].op \in {"store", "move"}
      BY <1>1, <1>9 DEF CheckCategory, Reached, OnTrack
    <3>3. r \in Call /\ r.op = call[p].op /\ r.admin = call[p].admin
          /\ r.pc # "idle" /\ OnTrack(r)
      BY <1>1, <3>2 DEF Call, Steps, CategoryOps, OnTrack
    <3>4. call[p].pc \in Permitted
      BY <3>2 DEF Permitted
    <3>5. Judged(r, allowed[p], switches)
      BY <1>1, <3>3, <3>4 DEF Judged
    <3> QED
      BY <1>1, <1>3, <3>1, <3>3, <3>5, BecomePreserves
  <2> QED
    BY <2>1, <2>2
<1>10. CASE LoadCategory(p)
  <2>1. SUFFICES ASSUME NEW c \in Stored,
                        Become(p, [call[p] EXCEPT !.pc = call[p].op, !.target = c])
                 PROVE  RequestsOK'
    BY <1>4, <1>10 DEF LoadCategory
  <2> DEFINE r == [call[p] EXCEPT !.pc = call[p].op, !.target = c]
  <2>2. call[p].pc = "load_category" /\ call[p].op \in {"rename_category", "delete_category"}
    BY <1>1, <1>10 DEF LoadCategory, Reached, OnTrack
  <2>3. r \in Call /\ r.op = call[p].op /\ r.admin = call[p].admin
        /\ r.pc # "idle" /\ OnTrack(r)
    BY <1>1, <2>2 DEF Call, Steps, CategoryOps, OnTrack, Stored
  <2>4. call[p].pc \in Permitted
    BY <2>2 DEF Permitted
  <2>5. Judged(r, allowed[p], switches)
    BY <1>1, <2>3, <2>4 DEF Judged
  <2> QED
    BY <1>1, <1>3, <2>1, <2>3, <2>5, BecomePreserves
<1>11. CASE LoadBranding(p)
  <2> DEFINE r == [call[p] EXCEPT !.pc = "save_branding", !.switches = switches]
  <2>1. r \in Call /\ OnTrack(r) /\ Judged(r, allowed[p], switches)
    BY <1>1, <1>11 DEF LoadBranding, Reached, Call, Steps, CategoryOps, OnTrack, Judged, Permitted
  <2> QED
    BY <1>1, <1>3, <1>11, <2>1, BecomePreserves DEF LoadBranding
<1>12. CASE LoadGrantee(p)
  <2>1. PICK u \in Present : Become(p, [call[p] EXCEPT !.pc = "grant", !.target = u])
    BY <1>12 DEF LoadGrantee
  <2> DEFINE r == [call[p] EXCEPT !.pc = "grant", !.target = u]
  <2>2. r \in Call /\ OnTrack(r) /\ Judged(r, allowed[p], switches)
    BY <1>1, <1>12 DEF LoadGrantee, Reached, Call, Steps, CategoryOps, OnTrack, Judged,
       Permitted, Present
  <2> QED
    BY <1>1, <1>3, <2>1, <2>2, BecomePreserves
<1>13. CASE LoadMember(p)
  <2>1. SUFFICES ASSUME NEW u \in Present, rank[u] # "owner",
                        Become(p, [call[p] EXCEPT !.pc = "revoke", !.target = u,
                                                 !.owner = rank[u] = "owner"])
                 PROVE  RequestsOK'
    BY <1>4, <1>13 DEF LoadMember
  <2> DEFINE r == [call[p] EXCEPT !.pc = "revoke", !.target = u, !.owner = FALSE]
  <2>2. Become(p, r)
    BY <2>1
  <2>3. r \in Call /\ OnTrack(r) /\ Judged(r, allowed[p], switches)
    BY <1>1, <1>13 DEF LoadMember, Reached, Call, Steps, CategoryOps, OnTrack, Judged,
       Permitted, Present
  <2> QED
    BY <1>1, <1>3, <2>2, <2>3, BecomePreserves
<1>14. CASE CallFails(p)
  BY <1>4, <1>14 DEF CallFails
<1> QED
  BY <1>5, <1>6, <1>7, <1>8, <1>9, <1>10, <1>11, <1>12, <1>13, <1>14

\* Statements that write rows of entries, categories or memberships answer the
\* request; the rows stay well formed because foreign keys are enforced.
LEMMA WritersPreserve ==
  ASSUME IInv, NEW p \in Threads,
         \/ InsertEntry(p) \/ SaveEntry(p) \/ DeleteEntry(p)
         \/ StoreCategory(p) \/ RenameCategory(p) \/ DeleteCategory(p)
         \/ GrantMembership(p) \/ RevokeMembership(p)
  PROVE  IInv'
<1>1. RowsOK /\ RequestsOK /\ call[p] \in Call
  BY DEF IInv, RequestsOK
<1>2. RequestsOK'
  BY <1>1, AnswerPreserves DEF InsertEntry, SaveEntry, DeleteEntry, StoreCategory, RenameCategory,
     DeleteCategory, GrantMembership, RevokeMembership
<1>3. CASE InsertEntry(p) \/ SaveEntry(p)
  <2>1. /\ entry' \in [Entries -> {"unborn", "gone", Null} \cup Stored]
        /\ contents' \in [Entries -> 0..1]
    BY <1>1, <1>3 DEF RowsOK, InsertEntry, SaveEntry, ForeignKeyHolds
  <2> QED
    BY <1>1, <1>2, <1>3, <2>1 DEF IInv, RowsOK, InsertEntry, SaveEntry, Present, Stored, accounts
<1>4. CASE DeleteEntry(p)
  <2>1. entry' \in [Entries -> {"unborn", "gone", Null} \cup Stored]
    BY <1>1, <1>4 DEF RowsOK, DeleteEntry
  <2>2. contents \in [Entries -> 0..1] /\ 0 \in 0..1
    BY <1>1 DEF RowsOK
  <2>3. contents' \in [Entries -> 0..1]
    BY <1>4, <2>2 DEF DeleteEntry
  <2> QED
    BY <1>1, <1>2, <1>4, <2>1, <2>3 DEF IInv, RowsOK, DeleteEntry, Present, Stored, accounts
<1>5. CASE StoreCategory(p)
  <2>1. Stored \subseteq Stored' /\ category' \in [Categories -> {"unborn", "row", "gone"}]
    BY <1>1, <1>5 DEF RowsOK, StoreCategory, Stored
  <2> QED
    BY <1>1, <1>2, <1>5, <2>1 DEF IInv, RowsOK, StoreCategory, Present, accounts,
       entries
<1>6. CASE RenameCategory(p)
  <2>1. Stored \subseteq Stored' /\ category' \in [Categories -> {"unborn", "row", "gone"}]
    BY <1>1, <1>6 DEF RowsOK, RenameCategory, Stored
  <2> QED
    BY <1>1, <1>2, <1>6, <2>1 DEF IInv, RowsOK, RenameCategory, Present, accounts,
       entries
<1>7. CASE DeleteCategory(p)
  <2> DEFINE c == call[p].target
  <2>1. /\ category' = [category EXCEPT ![c] = "gone"]
        /\ entry' = [e \in Entries |-> IF entry[e] = c THEN Null ELSE entry[e]]
    BY <1>7 DEF DeleteCategory
  <2>2. Stored \ {c} \subseteq Stored' /\ category' \in [Categories -> {"unborn", "row", "gone"}]
    BY <1>1, <2>1 DEF RowsOK, Stored
  <2>3. entry' \in [Entries -> {"unborn", "gone", Null} \cup Stored']
    BY <1>1, <2>1, <2>2 DEF RowsOK
  <2> QED
    BY <1>1, <1>2, <1>7, <2>2, <2>3 DEF IInv, RowsOK, DeleteCategory, Present, accounts
<1>8. CASE GrantMembership(p)
  BY <1>1, <1>2, <1>8 DEF IInv, RowsOK, GrantMembership, Present, Stored, tables, entries
<1>9. CASE RevokeMembership(p)
  BY <1>1, <1>2, <1>9 DEF IInv, RowsOK, RevokeMembership, Present, Stored, tables, entries
<1> QED
  BY <1>3, <1>4, <1>5, <1>6, <1>7, <1>8, <1>9

\* Writes of the organization row answer the request as well.
LEMMA TurnersPreserve ==
  ASSUME IInv, NEW p \in Threads, SetSwitches(p) \/ SaveBranding(p)
  PROVE  IInv'
<1>1. RowsOK /\ RequestsOK /\ call[p] \in Call /\ UNCHANGED <<accounts, tables>>
  BY DEF IInv, RequestsOK, SetSwitches, SaveBranding
<1>2. PICK new \in SUBSET Switches : Turn(p, new)
  <2>1. CASE SetSwitches(p)
    BY <1>1, <2>1 DEF SetSwitches, RowsOK
  <2>2. CASE SaveBranding(p)
    BY <1>1, <2>2 DEF SaveBranding, Call
  <2> QED
    BY <2>1, <2>2
<1>3. RequestsOK'
  BY <1>1, <1>2, TurnPreserves
<1> QED
  BY <1>1, <1>2, <1>3 DEF IInv, RowsOK, Turn, Present, Stored, accounts, tables, entries

LEMMA NextPreserves == IInv /\ [SharedNext]_sharedVars => IInv'
<1> SUFFICES ASSUME IInv, [SharedNext]_sharedVars PROVE IInv'
  OBVIOUS
<1>1. CASE ChangeRole
  BY <1>1 DEF ChangeRole, IInv, RowsOK, RequestsOK, Present, Ranks, Stored, tables, entries
<1>2. CASE RemoveUser
  BY <1>2 DEF RemoveUser, IInv, RowsOK, RequestsOK, Present, Stored, tables, entries
<1>3. CASE SharedRestart
  <2>1. RequestsOK'
    BY <1>3, IdleIsGood DEF SharedRestart, RequestsOK, Judged
  <2> QED
    BY <1>3, <2>1 DEF SharedRestart, IInv, RowsOK, Present, Stored, accounts, tables, entries
<1>4. CASE UNCHANGED sharedVars
  BY <1>4 DEF sharedVars, IInv, RowsOK, RequestsOK, Present, Stored
<1> QED
  BY <1>1, <1>2, <1>3, <1>4, ReadersPreserve, WritersPreserve, TurnersPreserve DEF SharedNext

-----------------------------------------------------------------------------
(* Entries that are saved have been stored before *)

Saving(r) == r.pc = "save" \/ (r.pc = "check_category" /\ r.op = "move")
Born(r) == r.target \in Entries /\ entry[r.target] # "unborn"
SavedWereBorn == \A p \in Threads : Saving(call[p]) => Born(call[p])

\* What no step brings back is an entry that has never been stored.
LEMMA BornForGood ==
  ASSUME IInv, [SharedNext]_sharedVars, NEW e \in Entries, entry[e] # "unborn"
  PROVE  entry'[e] # "unborn"
<1>1. /\ entry \in [Entries -> {"unborn", "gone", Null} \cup Stored]
      /\ "unborn" \notin {"gone", Null} \cup Stored
      /\ \A p \in Threads : call[p].filing \in Filing /\ "unborn" \notin Filing
  BY SharedVaultAssumption DEF IInv, RowsOK, RequestsOK, Call, Filing, Stored
<1>2. CASE UNCHANGED entry
  BY <1>2
<1>3. CASE ~UNCHANGED entry
  <2>1. PICK p \in Threads : InsertEntry(p) \/ SaveEntry(p) \/ DeleteEntry(p) \/ DeleteCategory(p)
    BY <1>3 DEF SharedNext, sharedVars, tables, entries, AdmitMember, AdmitAdmin, Permit, LoadEntry, CheckCategory,
       LoadCategory, StoreCategory, RenameCategory, SetSwitches, LoadBranding, SaveBranding,
       LoadGrantee, GrantMembership, LoadMember, RevokeMembership, CallFails,
       ChangeRole, RemoveUser, SharedRestart
  <2> QED
    BY <1>1, <2>1 DEF InsertEntry, SaveEntry, DeleteEntry, DeleteCategory
<1> QED
  BY <1>2, <1>3

\* A request comes to save an entry only by loading it.
LEMMA SavedWereBornPreserved == IInv /\ SavedWereBorn /\ [SharedNext]_sharedVars => SavedWereBorn'
<1> SUFFICES ASSUME IInv, SavedWereBorn, [SharedNext]_sharedVars, NEW p \in Threads, Saving(call[p])'
             PROVE  Born(call[p])'
  BY DEF SavedWereBorn
<1>1. \A e \in Entries : entry[e] # "unborn" => entry'[e] # "unborn"
  BY BornForGood
<1>2. CASE call'[p] = call[p]
  BY <1>1, <1>2 DEF SavedWereBorn, Saving, Born
<1>3. CASE call'[p] # call[p]
  <2>1. RequestsOK /\ \A q \in Threads : call[q] \in Call /\ OnTrack(call[q])
    BY DEF IInv, RequestsOK
  <2>2. ~Saving(NoCall)
    BY DEF NoCall, Saving
  <2>3. \A q \in Threads : ~Reply(q)
    BY <1>3, <2>1, <2>2 DEF Reply, RequestsOK
  <2>4. ASSUME NEW q \in Threads, NEW r, Become(q, r) PROVE q = p /\ call'[p] = r
    BY <1>3, <2>1, <2>4 DEF Become, RequestsOK
  <2>5. ~SharedRestart /\ \A q \in Threads : ~AdmitMember(q) /\ ~SetSwitches(q) /\ ~SaveBranding(q)
    BY <1>3, <2>1, <2>2 DEF SharedRestart, AdmitMember, SetSwitches, SaveBranding, Turn,
       RequestsOK, Saving, NoCall
  <2>6. ASSUME NEW q \in Threads, AdmitAdmin(q) PROVE FALSE
    <3>1. PICK pc \in AdminSteps : Become(q, [call[q] EXCEPT !.pc = pc])
      BY <2>6 DEF AdmitAdmin, Goto
    <3>2. call'[p] = [call[q] EXCEPT !.pc = pc]
      BY <2>4, <3>1
    <3> QED
      BY <2>1, <3>2 DEF Call, Saving, AdminSteps
  <2>7. ASSUME NEW q \in Threads, Permit(q) PROVE FALSE
    <3>1. PICK r \in AfterPermit(call[q]) : Become(q, r)
      BY <2>3, <2>7 DEF Permit
    <3>2. call'[p] = r
      BY <2>4, <3>1
    <3> QED
      BY <2>1, <2>7, <3>2, AfterPermitIsGood DEF Permit, Reached, Saving
  <2>8. ASSUME NEW q \in Threads, LoadEntry(q) PROVE Born(call[p])'
    <3>0. PICK e \in Rows : \E r \in AfterLoad(call[q], e) : Become(q, r)
      BY <2>3, <2>8 DEF LoadEntry
    <3>1. PICK r \in AfterLoad(call[q], e) : Become(q, r)
      BY <3>0
    <3>2. call'[p] = r
      BY <2>4, <3>1
    <3>3. e \in Entries /\ entry[e] # "unborn"
      BY SharedVaultAssumption DEF Rows, Filing
    <3> QED
      BY <1>1, <2>1, <2>8, <3>2, <3>3, AfterLoadIsGood DEF LoadEntry, Reached, Born
  <2>9. ASSUME NEW q \in Threads, CheckCategory(q) PROVE Born(call[p])'
    <3>1. PICK pc \in {"insert", "save"} :
            /\ Become(q, [call[q] EXCEPT !.pc = pc])
            /\ call[q].op = "store" => pc = "insert"
      BY <2>3, <2>9 DEF CheckCategory, Goto
    <3>2. q = p /\ call'[p] = [call[q] EXCEPT !.pc = pc]
      BY <2>4, <3>1
    <3>3. Saving(call[p]) /\ call'[p].target = call[p].target
      BY <2>1, <2>9, <3>1, <3>2 DEF CheckCategory, Reached, Saving, OnTrack, Call
    <3> QED
      BY <1>1, <3>3 DEF SavedWereBorn, Born
  <2>10. ASSUME NEW q \in Threads, LoadCategory(q) PROVE FALSE
    <3>1. PICK c \in Stored : Become(q, [call[q] EXCEPT !.pc = call[q].op, !.target = c])
      BY <2>3, <2>10 DEF LoadCategory
    <3>2. call'[p] = [call[q] EXCEPT !.pc = call[q].op, !.target = c]
      BY <2>4, <3>1
    <3> QED
      BY <2>1, <2>10, <3>2 DEF LoadCategory, Reached, Call, Saving, OnTrack
  <2>11. ASSUME NEW q \in Threads, LoadBranding(q) PROVE FALSE
    <3>1. call'[p] = [call[q] EXCEPT !.pc = "save_branding", !.switches = switches]
      BY <2>4, <2>11 DEF LoadBranding
    <3> QED
      BY <2>1, <3>1 DEF Call, Saving
  <2>12. ASSUME NEW q \in Threads, LoadGrantee(q) PROVE FALSE
    <3>1. PICK u \in Present : Become(q, [call[q] EXCEPT !.pc = "grant", !.target = u])
      BY <2>12 DEF LoadGrantee
    <3>2. call'[p] = [call[q] EXCEPT !.pc = "grant", !.target = u]
      BY <2>4, <3>1
    <3> QED
      BY <2>1, <3>2 DEF Call, Saving
  <2>13. ASSUME NEW q \in Threads, LoadMember(q) PROVE FALSE
    <3>1. PICK u \in Present : Become(q, [call[q] EXCEPT !.pc = "revoke", !.target = u,
                                                          !.owner = rank[u] = "owner"])
      BY <2>3, <2>13 DEF LoadMember
    <3>2. call'[p] = [call[q] EXCEPT !.pc = "revoke", !.target = u, !.owner = rank[u] = "owner"]
      BY <2>4, <3>1
    <3> QED
      BY <2>1, <3>2 DEF Call, Saving
  <2>14. ~ChangeRole /\ ~RemoveUser /\ ~UNCHANGED sharedVars
    BY <1>3 DEF ChangeRole, RemoveUser, sharedVars
  <2>15. \A q \in Threads :
           ~(\/ InsertEntry(q) \/ SaveEntry(q) \/ DeleteEntry(q) \/ StoreCategory(q) \/ RenameCategory(q)
             \/ DeleteCategory(q) \/ GrantMembership(q) \/ RevokeMembership(q)
             \/ CallFails(q))
    BY <2>3 DEF InsertEntry, SaveEntry, DeleteEntry, StoreCategory, RenameCategory, DeleteCategory,
       GrantMembership, RevokeMembership, CallFails
  <2> QED
    BY <2>5, <2>6, <2>7, <2>8, <2>9, <2>10, <2>11, <2>12, <2>13, <2>14, <2>15 DEF SharedNext
<1> QED
  BY <1>2, <1>3

LEMMA Invariance == SharedSpec => [](IInv /\ SavedWereBorn)
<1>1. SharedInit => SavedWereBorn
  BY DEF SharedInit, SavedWereBorn, Saving, NoCall
<1> QED
  BY <1>1, InitIsGood, NextPreserves, SavedWereBornPreserved, PTL DEF SharedSpec

-----------------------------------------------------------------------------
(* The theorems *)

\* Whatever was checked before and written later, entries refer to categories
\* that exist and key copies belong to accounts that exist.
THEOREM TypeCorrect == SharedSpec => []SharedTypeOK
<1>1. IInv => SharedTypeOK
  BY DEF IInv, RowsOK, RequestsOK, SharedTypeOK
<1> QED
  BY <1>1, Invariance, PTL

\* What the request of a plain member writes was permitted at some moment of
\* that request, for any number of requests and however the switches move.
THEOREM MemberWritesPermittedHolds == SharedSpec => MemberWritesPermitted
<1>1. ASSUME IInv, SavedWereBorn, [SharedNext]_sharedVars, NEW p \in Threads PROVE MemberWrite(p)
  <2>1. SUFFICES ASSUME allowed[p] # {}, call'[p] # call[p]
                 PROVE  /\ (\E e \in Entries : Lost(e) \/ (Gained(e) /\ entry[e] = "unborn"))
                             => WasPermitted(p, {"manage"})
                        /\ (\E e \in Entries : Edited(e)) => WasPermitted(p, {"edit"})
                        /\ category' # category => WasPermitted(p, {"manage", "edit"})
    BY DEF MemberWrite, MemberStep
  <2>2. /\ OnTrack(call[p]) /\ Judged(call[p], allowed[p], switches)
        /\ entry \in [Entries -> {"unborn", "gone", Null} \cup Stored]
        /\ Null \in Filing /\ "gone" \notin Filing /\ "unborn" \notin Filing
        /\ Stored \subseteq Filing
    BY <1>1, SharedVaultAssumption DEF IInv, RequestsOK, RowsOK, Filing, Stored
  <2>3. CASE UNCHANGED tables
    BY <2>2, <2>3 DEF tables, entries, Lost, Gained, Edited, Rows
  <2>4. ASSUME ~UNCHANGED tables
        PROVE  \/ InsertEntry(p) \/ SaveEntry(p) \/ DeleteEntry(p)
               \/ StoreCategory(p) \/ RenameCategory(p) \/ DeleteCategory(p)
    <3>1. PICK q \in Threads : \/ InsertEntry(q) \/ SaveEntry(q) \/ DeleteEntry(q)
                             \/ StoreCategory(q) \/ RenameCategory(q) \/ DeleteCategory(q)
      BY <1>1, <2>4 DEF SharedNext, sharedVars, tables, entries, AdmitMember, AdmitAdmin, Permit, LoadEntry,
         CheckCategory, LoadCategory, SetSwitches, LoadBranding, SaveBranding, LoadGrantee,
         GrantMembership, LoadMember, RevokeMembership, CallFails, ChangeRole,
         RemoveUser, SharedRestart
    <3>2. q = p
      BY <1>1, <2>1, <3>1 DEF IInv, RequestsOK, InsertEntry, SaveEntry, DeleteEntry, StoreCategory,
         RenameCategory, DeleteCategory, Reply
    <3> QED
      BY <3>1, <3>2
  <2>5. CASE InsertEntry(p)
    <3>1. WasPermitted(p, {"manage"}) /\ category' = category
      BY <2>1, <2>2, <2>5 DEF InsertEntry, Reached, OnTrack, Judged, Permitted, Needs, CategoryOps,
         WasPermitted
    <3>2. \A e \in Entries : ~Edited(e)
      BY <2>2, <2>5 DEF InsertEntry, Edited
    <3> QED
      BY <3>1, <3>2
  <2>6. CASE SaveEntry(p)
    <3>1. WasPermitted(p, {"edit"}) /\ category' = category
      BY <2>1, <2>2, <2>6 DEF SaveEntry, Reached, OnTrack, Judged, Permitted, Needs, CategoryOps,
         WasPermitted
    <3>2. \A e \in Entries : ~Lost(e) /\ ~(Gained(e) /\ entry[e] = "unborn")
      BY <1>1, <2>2, <2>6 DEF SaveEntry, ForeignKeyHolds, Lost, Gained, Rows, SavedWereBorn,
         Saving, Born, Reached
    <3> QED
      BY <3>1, <3>2
  <2>7. CASE DeleteEntry(p)
    <3>1. WasPermitted(p, {"manage"}) /\ category' = category
      BY <2>1, <2>2, <2>7 DEF DeleteEntry, Reached, OnTrack, Judged, Permitted, Needs, CategoryOps,
         WasPermitted
    <3>2. \A e \in Entries : ~Edited(e)
      BY <2>2, <2>7 DEF DeleteEntry, Edited
    <3> QED
      BY <3>1, <3>2
  <2>8. CASE StoreCategory(p) \/ RenameCategory(p) \/ DeleteCategory(p)
    <3>1. WasPermitted(p, {"manage", "edit"})
      BY <2>1, <2>2, <2>8 DEF StoreCategory, RenameCategory, DeleteCategory, Reached, OnTrack,
         Judged, Permitted, Needs, CategoryOps, WasPermitted
    <3>2. CASE UNCHANGED entries
      BY <2>2, <3>1, <3>2 DEF entries, Lost, Gained, Edited, Rows
    <3>3. CASE DeleteCategory(p)
      <4>1. call[p].target \in Categories
        BY <2>2, <3>3 DEF DeleteCategory, Reached, OnTrack
      <4>2. \A e \in Entries : ~Lost(e) /\ ~Gained(e)
        BY <2>2, <3>3, <4>1 DEF DeleteCategory, Lost, Gained, Rows, Filing
      <4>3. WasPermitted(p, {"edit"})
        BY <2>1, <2>2, <3>1 DEF Judged, WasPermitted
      <4> QED
        BY <3>1, <4>2, <4>3
    <3> QED
      BY <2>8, <3>2, <3>3 DEF StoreCategory, RenameCategory
  <2> QED
    BY <2>3, <2>4, <2>5, <2>6, <2>7, <2>8
<1>2. IInv /\ SavedWereBorn /\ [SharedNext]_sharedVars => [\A p \in Threads : MemberWrite(p)]_sharedVars
  BY <1>1
<1> QED
  BY <1>2, Invariance, PTL DEF SharedSpec, MemberWritesPermitted

\* An owner loses the shared key with its account or by a request that loaded
\* it before it became an owner, and in no other way.
THEOREM OwnersKeepAccessHolds == SharedSpec => OwnersKeepAccess
<1>1. ASSUME IInv, [SharedNext]_sharedVars, NEW u \in People, OwnerLosesAccess(u)
      PROVE  RevokedAsNonOwner(u)
  <2>1. u \in member /\ u \notin member' /\ rank[u] = "owner" /\ rank'[u] # "none"
    BY <1>1 DEF OwnerLosesAccess
  <2>2. ~RemoveUser
    BY <1>1, <2>1 DEF RemoveUser, IInv, RowsOK, Present
  <2>3. PICK p \in Threads : RevokeMembership(p)
    BY <1>1, <2>1, <2>2 DEF SharedNext, sharedVars, accounts, AdmitMember, AdmitAdmin, Permit, LoadEntry,
       CheckCategory, InsertEntry, SaveEntry, DeleteEntry, LoadCategory, StoreCategory, RenameCategory,
       DeleteCategory, SetSwitches, LoadBranding, SaveBranding, LoadGrantee,
       GrantMembership, LoadMember, CallFails, ChangeRole, SharedRestart
  <2>4. Reached(p, "revoke") /\ call[p].target = u
    BY <2>1, <2>3 DEF RevokeMembership
  <2>5. ~call[p].owner
    BY <1>1, <2>4 DEF IInv, RequestsOK, OnTrack, Reached
  <2> QED
    BY <2>4, <2>5 DEF RevokedAsNonOwner
<1>2. IInv /\ [SharedNext]_sharedVars
        => [\A u \in People : OwnerLosesAccess(u) => RevokedAsNonOwner(u)]_sharedVars
  BY <1>1
<1> QED
  BY <1>2, Invariance, PTL DEF SharedSpec, OwnersKeepAccess
=============================================================================
