------------------------------ MODULE OrgSettings ------------------------------
(***************************************************************************)
(* The one row of the organization table and the handlers that write it:   *)
(* Update and UploadLogo save the whole row they have loaded, DeleteLogo,  *)
(* UpdateRegistration and UpdateSharedSettings the columns they change.    *)
(* What the row's switches decide is part of Instance and SharedVault; the *)
(* steps of a switch of the mode are in Instance, here it is one step.     *)
(***************************************************************************)
EXTENDS Naturals

CONSTANTS
    Branding,   \* the columns of Update: the name, the support address, ...
    Toggles,    \* the columns of UpdateSharedSettings
    OrgProcs    \* the requests that are under way at a time

VARIABLES
    table,    \* the organization table exists
    org,      \* the row with id "org": a set of at most one
    orgReq,   \* orgReq[p]: the request p, and what it uses of the row it has loaded
    since,    \* history: the columns written since p has loaded its copy
    kept      \* history: the value each column must have

orgVars == <<table, org, orgReq, since, kept>>

Columns == Branding \cup Toggles \cup {"logo", "registration"}
Row == [Columns -> BOOLEAN]

\* A column has its default (no logo, by invitation, off) or another value.
Default == [c \in Columns |-> FALSE]

\* The requests: what they set, and whether they save the whole row.
Update == {[whole |-> TRUE, sets |-> f] : f \in UNION {[C -> BOOLEAN] : C \in SUBSET Branding}}
UploadLogo == [whole |-> TRUE, sets |-> [c \in {"logo"} |-> TRUE]]
DeleteLogo == [whole |-> FALSE, sets |-> [c \in {"logo"} |-> FALSE]]
UpdateRegistration == {[whole |-> FALSE, sets |-> f] : f \in [{"registration"} -> BOOLEAN]}

UpdateSharedSettings ==
    {[whole |-> FALSE, sets |-> f] : f \in UNION {[C -> BOOLEAN] : C \in SUBSET Toggles \ {{}}}}

\* Show and Logo only load the row.
Show == [whole |-> FALSE, sets |-> [c \in {} |-> FALSE]]

Requests == Update \cup UpdateRegistration \cup UpdateSharedSettings
            \cup {UploadLogo, DeleteLogo, Show}
NoOrgRequest == [pc |-> "idle", req |-> Show, copy |-> Default]

\* The columns of its copy that a request uses.
Uses(r) == IF r.whole THEN Columns ELSE DOMAIN r.sets \cap {"registration"}

Set(r, f) == [c \in Columns |-> IF c \in DOMAIN f THEN f[c] ELSE r[c]]

OrgInit ==
    /\ table = TRUE
    /\ org = {Default}
    /\ orgReq = [p \in OrgProcs |-> NoOrgRequest]
    /\ since = [p \in OrgProcs |-> {}]
    /\ kept = Default

At(p, pc) == orgReq[p].pc = pc
Answer(p) == orgReq' = [orgReq EXCEPT ![p] = NoOrgRequest]

\* The other requests have loaded their copy before these columns were written.
Written(C) ==
    since' = [p \in OrgProcs |->
        IF orgReq'[p].pc = "write" THEN since[p] \cup (C \cap Uses(orgReq[p].req)) ELSE {}]

-----------------------------------------------------------------------------
\* getOrCreate: the row is loaded, or found missing.
Load(p) ==
    /\ table /\ At(p, "idle")
    /\ \E r \in Requests :
        orgReq' = [orgReq EXCEPT ![p] =
            IF org = {} THEN [pc |-> "create", req |-> r, copy |-> Default]
            ELSE [pc |-> "write", req |-> r,
                  copy |-> [c \in Columns |-> c \in Uses(r) /\ \E row \in org : row[c]]]]
    /\ UNCHANGED <<table, org, since, kept>>

\* Faulty variant: the default row gets an id of its own.
CreateAnother(p) ==
    /\ table /\ At(p, "create")
    /\ org' = org \cup {Default}
    /\ orgReq' = [orgReq EXCEPT ![p].pc = "write"]
    /\ UNCHANGED <<table, since, kept>>

\* The default row is created; when another request has been faster, the id is
\* taken and the request fails.
Create(p) ==
    /\ table /\ At(p, "create")
    /\ IF org = {}
       THEN org' = {Default} /\ orgReq' = [orgReq EXCEPT ![p].pc = "write"]
       ELSE UNCHANGED org /\ Answer(p)
    /\ UNCHANGED <<table, since, kept>>

\* Update, UploadLogo: Save writes the copy with the changes over the row, or
\* inserts it when the row is gone.
Save(p) ==
    LET r == orgReq[p].req
    IN /\ table /\ At(p, "write") /\ r.whole
       /\ org' = {Set(orgReq[p].copy, r.sets)}
       /\ kept' = [c \in Columns |-> IF c \in DOMAIN r.sets THEN r.sets[c]
                                    ELSE IF c \in since[p] THEN orgReq[p].copy[c] ELSE kept[c]]
       /\ Answer(p)
       /\ Written(DOMAIN r.sets \cup since[p])
       /\ UNCHANGED table

\* Faulty variant: the columns that were not sent are written as well.
SetColumnsAndRest(p) ==
    LET r == orgReq[p].req
    IN /\ table /\ At(p, "write") /\ ~r.whole
       /\ org' = {Set(orgReq[p].copy, r.sets) : row \in org}
       /\ kept' = IF org = {} THEN kept ELSE Set(kept, r.sets)
       /\ Answer(p)
       /\ Written(DOMAIN r.sets)
       /\ UNCHANGED table

\* DeleteLogo, UpdateRegistration, UpdateSharedSettings: their columns alone;
\* a row that is gone is not an error.
SetColumns(p) ==
    LET r == orgReq[p].req
    IN /\ table /\ At(p, "write") /\ ~r.whole
       /\ r \in UpdateRegistration => orgReq[p].copy["registration"] # r.sets["registration"]
       /\ org' = {Set(row, r.sets) : row \in org}
       /\ kept' = IF org = {} THEN kept ELSE Set(kept, r.sets)
       /\ Answer(p)
       /\ Written(DOMAIN r.sets)
       /\ UNCHANGED table

\* UpdateRegistration answers at once when its copy has the policy already.
Unchanged(p) ==
    LET r == orgReq[p].req
    IN /\ At(p, "write") /\ r \in UpdateRegistration
       /\ orgReq[p].copy["registration"] = r.sets["registration"]
       /\ kept' = IF "registration" \in since[p] THEN kept ELSE Set(kept, r.sets)
       /\ Answer(p)
       /\ Written({})
       /\ UNCHANGED <<table, org>>

\* A statement fails, as every one does while the table is not there.
OrgStatementFails(p) ==
    /\ ~At(p, "idle")
    /\ Answer(p)
    /\ Written({})
    /\ UNCHANGED <<table, org, kept>>

\* RevertToPersonal drops the table.
Revert ==
    /\ table
    /\ table' = FALSE
    /\ org' = {}
    /\ UNCHANGED <<orgReq, since, kept>>

\* EnableOrganization makes it again and seeds the row; an error of that is dropped.
Enable ==
    /\ ~table
    /\ table' = TRUE
    /\ org' \in {{Default}, {}}
    /\ kept' = Default
    /\ UNCHANGED orgReq
    /\ Written(Columns)

OrgNext ==
    \/ \E p \in OrgProcs :
        Load(p) \/ Create(p) \/ Save(p) \/ SetColumns(p) \/ Unchanged(p) \/ OrgStatementFails(p)
    \/ Revert \/ Enable

OrgSpec == OrgInit /\ [][OrgNext]_orgVars

-----------------------------------------------------------------------------
OrgTypeOK ==
    /\ table \in BOOLEAN
    /\ org \in {{}} \cup {{row} : row \in Row}
    /\ org # {} => table
    /\ orgReq \in [OrgProcs -> [pc : {"idle", "create", "write"}, req : Requests, copy : Row]]
    /\ since \in [OrgProcs -> SUBSET Columns]
    /\ kept \in Row

\* organization.go:197, 254, 321: every setting has the value last given to it,
\* through switches of the mode and back and a row created late, except where a
\* whole row was saved over it from a copy older than that value; and an answer
\* that the policy is the wanted one is right, unless it was given on such a copy.
SettingsKept == \A row \in org : row = kept
=============================================================================
