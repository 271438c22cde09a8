------------------------------- MODULE AuditLog -------------------------------
(***************************************************************************)
(* The audit log (handlers/audit.go): entries are recorded best-effort by  *)
(* requests that overlap, and an administrator's client reads them newest  *)
(* first, page after page by offset, while the log grows.                  *)
(*                                                                         *)
(* An entry is named by its id, a number: ids are drawn at random, so the  *)
(* order of the numbers says nothing about time.  What an entry tells is   *)
(* opaque.  The client goes on with the offset behind what it was sent,    *)
(* until a page is empty.                                                  *)
(***************************************************************************)
EXTENDS Naturals, FiniteSets

CONSTANTS
    Events,        \* bound: the entries ever recorded
    MaxTime,       \* bound: the instants of created_at
    MaxLimit,      \* the longest page, 500
    DefaultLimit   \* the page of a client that asks for none, or for too much

ASSUME AuditLogAssumption ==
    /\ Events \subseteq Nat
    /\ MaxTime \in Nat \ {0}
    /\ MaxLimit \in Nat
    /\ DefaultLimit \in Nat \ {0}

VARIABLES
    clock,     \* the wall clock, in instants
    createdAt, \* createdAt[e]: when entry e was made, 0 before
    recording, \* the entries that are made and not yet inserted
    log,       \* the rows of audit_event
    walk,      \* the client's walk through the pages
    before,    \* history: what was in the log when the walk began
    seen,      \* history: what the pages of the walk have shown
    repeats,   \* history: how often they showed an entry again
    appended   \* history: how many entries the log has got since

auditVars == <<clock, createdAt, recording, log, walk, before, seen, repeats, appended>>
observed == <<before, seen, repeats>>

AuditInit ==
    /\ clock = 1
    /\ createdAt = [e \in Events |-> 0]
    /\ recording = {}
    /\ log = {}
    /\ walk = [on |-> FALSE, done |-> FALSE, offset |-> 0]
    /\ before = {}
    /\ seen = {}
    /\ repeats = 0
    /\ appended = 0

Tick ==
    /\ clock < MaxTime
    /\ clock' = clock + 1
    /\ UNCHANGED <<createdAt, recording, log, walk, observed, appended>>

\* recordAudit: the entry gets its id and its time, then it is inserted.
Make(e) ==
    /\ createdAt[e] = 0
    /\ createdAt' = [createdAt EXCEPT ![e] = clock]
    /\ recording' = recording \cup {e}
    /\ UNCHANGED <<clock, log, walk, observed, appended>>

\* An insertion that fails is only logged.
Record(e) ==
    /\ e \in recording
    /\ recording' = recording \ {e}
    /\ \/ log' = log \cup {e} /\ appended' = appended + 1
       \/ UNCHANGED <<log, appended>>
    /\ UNCHANGED <<clock, createdAt, walk, observed>>

\* A revert drops the table; until it is made again statements only fail.
Clear ==
    /\ log' = {}
    /\ before' = {}
    /\ UNCHANGED <<clock, createdAt, recording, walk, seen, repeats, appended>>

-----------------------------------------------------------------------------
(* ListAuditEvents *)

\* The page length: what the client asks for, if that is in range.
Limit(asked) == IF asked \in 1..MaxLimit THEN asked ELSE DefaultLimit

\* ORDER BY created_at DESC, id DESC
Newer(e, f) == createdAt[e] > createdAt[f] \/ (createdAt[e] = createdAt[f] /\ e > f)
Rank(e) == Cardinality({f \in log : Newer(f, e)})

\* Faulty variant: nothing orders the entries of one instant, so each query
\* orders them as it likes.
PagesUntied(offset, limit) ==
    {page \in SUBSET log :
        /\ Cardinality(page) = Cardinality({e \in log : Rank(e) \in offset..(offset + limit - 1)})
        /\ \A e \in page :
            /\ Cardinality({f \in log : createdAt[f] > createdAt[e]}) < offset + limit
            /\ Cardinality({f \in log : createdAt[f] >= createdAt[e]}) > offset}

\* The pages that the query may return.
Pages(offset, limit) == {{e \in log : Rank(e) \in offset..(offset + limit - 1)}}

StartWalk ==
    /\ ~walk.on
    /\ walk' = [on |-> TRUE, done |-> FALSE, offset |-> 0]
    /\ before' = log
    /\ seen' = {}
    /\ repeats' = 0
    /\ appended' = 0
    /\ UNCHANGED <<clock, createdAt, recording, log>>

\* The total, counted by a statement of its own, decides nothing here.
NextPage ==
    /\ walk.on
    /\ \E asked \in 0..(MaxLimit + 1) : \E page \in Pages(walk.offset, Limit(asked)) :
        /\ walk' = IF page = {} THEN [walk EXCEPT !.on = FALSE, !.done = TRUE]
                   ELSE [walk EXCEPT !.offset = @ + Cardinality(page)]
        /\ seen' = seen \cup page
        /\ repeats' = repeats + Cardinality(seen \cap page)
    /\ UNCHANGED <<clock, createdAt, recording, log, before, appended>>

\* A statement fails, and the client gives up.
GiveUp ==
    /\ walk.on
    /\ walk' = [walk EXCEPT !.on = FALSE]
    /\ UNCHANGED <<clock, createdAt, recording, log, observed, appended>>

AuditNext ==
    \/ Tick \/ Clear \/ StartWalk \/ NextPage \/ GiveUp
    \/ \E e \in Events : Make(e) \/ Record(e)

AuditSpec == AuditInit /\ [][AuditNext]_auditVars

-----------------------------------------------------------------------------
AuditTypeOK ==
    /\ clock \in 1..MaxTime
    /\ createdAt \in [Events -> 0..MaxTime]
    /\ recording \cup log \cup before \cup seen \subseteq {e \in Events : createdAt[e] # 0}
    /\ recording \cap log = {}
    /\ walk \in [on : BOOLEAN, done : BOOLEAN, offset : Nat]
    /\ walk.on => ~walk.done
    /\ repeats \in Nat /\ appended \in Nat

\* audit.go:88, nothing vanishes across pages: however many entries are recorded
\* meanwhile, in whatever order their times and insertions fall, a walk that has
\* come to its end has shown all that was there when it began.
NothingVanishes == walk.done => before \subseteq seen

\* audit.go:88, nothing repeats but by the log's growing: each entry recorded
\* during a walk makes at most one other appear twice.
RepeatsBounded == repeats <= appended
=============================================================================
