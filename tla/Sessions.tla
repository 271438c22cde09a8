------------------------------- MODULE Sessions -------------------------------
(***************************************************************************)
(* Sessions of an instance: login and registration, middleware.Auth with   *)
(* its sliding expiry, logout, revocation, a changed password, suspension, *)
(* removal and the sweeper, served by concurrent goroutines.               *)
(* A step is one SQL statement with the code up to the next one; the       *)
(* transaction of UpdateMasterPassword is one step, and a deleted account  *)
(* takes its sessions along (ON DELETE CASCADE) in the same statement.     *)
(*                                                                         *)
(* A token is the number of the login that issued it and stands for the    *)
(* row with its hash.  Which credential a client sends is left out: only   *)
(* requests whose password matches the copy they are checked against go on.*)
(***************************************************************************)
EXTENDS Naturals

CONSTANTS
    People,     \* the accounts
    Threads,    \* the goroutines that serve requests
    TTL,        \* ticks a session lasts: config.TokenTTL
    MaxDelay,   \* bound: ticks between reading the clock and a row's update
    MaxClock,   \* bound: when the model's clock stops
    MaxLogins,  \* bound: how many sessions are ever created
    MaxEpoch    \* bound: password changes and suspensions of an account

ASSUME SessionsAssumption ==
    /\ TTL \in Nat \ {0} /\ MaxDelay \in Nat /\ 2 * MaxDelay <= TTL
    /\ MaxClock \in Nat /\ MaxLogins \in Nat \ {0} /\ MaxEpoch \in Nat

VARIABLES
    clock,      \* the wall clock
    account,    \* account[u]: its status, "unborn" or "gone" without a row
    session,    \* session[s]: the row of token s, and its history: since, the
                \* epoch in which its login was verified; used, when Auth last
                \* found it; late, whether a login that was under way or a lost
                \* purge left it behind; lost, whether its last slide was lost
    issued,     \* how many tokens have been issued
    call,       \* call[p]: the handler running in p, and what it has read
    epoch       \* history: epoch[u] counts changed passwords and suspensions

sessionVars == <<clock, account, session, issued, call, epoch>>

Tokens == 1..MaxLogins
NoRow == [owner |-> "none"]
Rows == [owner : People, expires : 0..(MaxClock + TTL),
         since : 0..MaxEpoch, used : 0..MaxClock, late : BOOLEAN, lost : BOOLEAN]
Live == {s \in Tokens : session[s] # NoRow}
Of(u) == {s \in Live : session[s].owner = u}

NoRequest == [pc |-> "idle"]
Call ==
    [pc : {"create", "purge"}, user : People, epoch : 0..MaxEpoch]
      \cup [pc : {"slide"}, token : Tokens, user : People, now : 0..MaxClock]
      \cup [pc : {"load", "handle"}, token : Tokens, user : People]

SessionInit ==
    /\ clock = 0
    /\ account = [u \in People |-> "unborn"]
    /\ session = [s \in Tokens |-> NoRow]
    /\ issued = 0
    /\ call = [p \in Threads |-> NoRequest]
    /\ epoch = [u \in People |-> 0]

Reached(p, pc) == call[p].pc = pc
Continue(p, r) == call' = [call EXCEPT ![p] = r]
Reply(p) == Continue(p, NoRequest)

\* DELETE FROM session.
Without(gone) == [s \in Tokens |-> IF s \in gone THEN NoRow ELSE session[s]]
Spared(some) ==
    [s \in Tokens |-> IF s \in some THEN [session[s] EXCEPT !.late = TRUE]
                     ELSE session[s]]
Expired == {s \in Live : session[s].expires <= clock}

-----------------------------------------------------------------------------
(* Register, Login *)

\* The account's row is made, and its first session is next.
Register(p) ==
    /\ Reached(p, "idle")
    /\ \E u \in People :
        /\ account[u] = "unborn"
        /\ account' = [account EXCEPT ![u] = "active"]
        /\ Continue(p, [pc |-> "create", user |-> u, epoch |-> epoch[u]])
    /\ UNCHANGED <<clock, session, issued, epoch>>

\* Login loads the account; the password and the status are those of the copy.
Login(p) ==
    /\ Reached(p, "idle")
    /\ \E u \in People :
        /\ account[u] = "active"
        /\ Continue(p, [pc |-> "create", user |-> u, epoch |-> epoch[u]])
    /\ UNCHANGED <<clock, account, session, issued, epoch>>

\* Faulty variant: foreign keys are not enforced.
CreateSessionUnchecked(p) ==
    LET s == issued + 1
    IN /\ Reached(p, "create")
       /\ issued < MaxLogins
       /\ issued' = s
       /\ session' = [session EXCEPT ![s] =
                        [owner |-> call[p].user, expires |-> clock + TTL, used |-> clock,
                         since |-> call[p].epoch, late |-> FALSE, lost |-> FALSE]]
       /\ Reply(p)
       /\ UNCHANGED <<clock, account, epoch>>

\* createSession; the foreign key refuses a session without an account.
CreateSession(p) ==
    LET u == call[p].user
        s == issued + 1
    IN /\ Reached(p, "create")
       /\ account[u] # "gone"
       /\ issued < MaxLogins
       /\ issued' = s
       /\ session' = [session EXCEPT ![s] =
                        [owner |-> u, expires |-> clock + TTL, since |-> call[p].epoch,
                         used |-> clock, late |-> call[p].epoch # epoch[u],
                         lost |-> FALSE]]
       /\ Reply(p)
       /\ UNCHANGED <<clock, account, epoch>>

-----------------------------------------------------------------------------
(* middleware.Auth *)

\* Faulty variant: a session slides in its last quarter only.
PastQuarter(s) == 4 * (session[s].expires - clock) < TTL

\* The session is past the middle of its lifetime.
PastHalf(s) == 2 * (session[s].expires - clock) < TTL

\* The query finds a session that has not expired.  The update of last_used_at
\* alone, of a session that need not slide, changes nothing here.
Authenticate(p) ==
    /\ Reached(p, "idle")
    /\ \E s \in Live \ Expired :
        /\ Continue(p, IF PastHalf(s)
                       THEN [pc |-> "slide", token |-> s, user |-> session[s].owner,
                             now |-> clock]
                       ELSE [pc |-> "load", token |-> s, user |-> session[s].owner])
        /\ session' = [session EXCEPT ![s].used = clock]
    /\ UNCHANGED <<clock, account, issued, epoch>>

\* Faulty variant: the whole row is saved, and inserted when it is missing.
SlideSaved(p) ==
    LET s == call[p].token
    IN /\ Reached(p, "slide")
       /\ session' = [session EXCEPT ![s] =
                        [owner |-> call[p].user, expires |-> call[p].now + TTL,
                         since |-> epoch[call[p].user], used |-> call[p].now,
                         late |-> FALSE, lost |-> FALSE]]
       /\ Continue(p, [pc |-> "load", token |-> s, user |-> call[p].user])
       /\ UNCHANGED <<clock, account, issued, epoch>>

\* Faulty variant: the lifetime is added to the expiry.
SlideExtended(p) ==
    LET s == call[p].token
    IN /\ Reached(p, "slide")
       /\ session' = IF s \in Live THEN [session EXCEPT ![s].expires = @ + TTL]
                     ELSE session
       /\ Continue(p, [pc |-> "load", token |-> s, user |-> call[p].user])
       /\ UNCHANGED <<clock, account, issued, epoch>>

\* The UPDATE by primary key, which matches no row once the session is gone;
\* an error is dropped.
Slide(p) ==
    LET s == call[p].token
    IN /\ Reached(p, "slide")
       /\ IF s \in Live
          THEN \/ session' = [session EXCEPT ![s].expires = call[p].now + TTL,
                                             ![s].lost = FALSE]
               \/ session' = [session EXCEPT ![s].lost = TRUE]
          ELSE UNCHANGED session
       /\ Continue(p, [pc |-> "load", token |-> s, user |-> call[p].user])
       /\ UNCHANGED <<clock, account, issued, epoch>>

\* The caller's row decides whether the handler runs.
LoadCaller(p) ==
    /\ Reached(p, "load")
    /\ IF account[call[p].user] = "active"
       THEN Continue(p, [call[p] EXCEPT !.pc = "handle"]) ELSE Reply(p)
    /\ UNCHANGED <<clock, account, session, issued, epoch>>

-----------------------------------------------------------------------------
(* The handlers behind Auth *)

\* Logout, Destroy of one session of the caller, and DestroyAll.
Revoke(p) ==
    LET mine == Of(call[p].user)
    IN /\ Reached(p, "handle")
       /\ \E gone \in {{call[p].token}, mine \ {call[p].token}} \cup {{s} : s \in mine} :
              session' = Without(gone)
       /\ Reply(p)
       /\ UNCHANGED <<clock, account, issued, epoch>>

\* The session of the caller is as good as one of a login with the new password.
Kept(s, rows) ==
    IF rows[s] = NoRow THEN rows
    ELSE [rows EXCEPT ![s].since = epoch[rows[s].owner] + 1]

\* Faulty variant: without the transaction, the sessions may survive.
ChangePasswordInTwo(p) ==
    LET u == call[p].user
        s == call[p].token
    IN /\ Reached(p, "handle")
       /\ account[u] # "gone"
       /\ epoch[u] < MaxEpoch
       /\ epoch' = [epoch EXCEPT ![u] = @ + 1]
       /\ session' \in {Kept(s, session), Kept(s, Without(Of(u) \ {s}))}
       /\ Reply(p)
       /\ UNCHANGED <<clock, account, issued>>

\* The transaction of UpdateMasterPassword, for a caller that knows the
\* password of the copy Auth loaded.
ChangePassword(p) ==
    LET u == call[p].user
        s == call[p].token
    IN /\ Reached(p, "handle")
       /\ account[u] # "gone"
       /\ epoch[u] < MaxEpoch
       /\ epoch' = [epoch EXCEPT ![u] = @ + 1]
       /\ session' = Kept(s, Without(Of(u) \ {s}))
       /\ Reply(p)
       /\ UNCHANGED <<clock, account, issued>>

\* The account goes: DeleteAccount by its owner, RemoveUser by an admin.
RemoveAccount(p) ==
    /\ \E u \in People :
        /\ Reached(p, "idle") \/ (Reached(p, "handle") /\ u = call[p].user)
        /\ account[u] \in {"active", "suspended"}
        /\ account' = [account EXCEPT ![u] = "gone"]
        /\ session' = Without(Of(u))
    /\ Reply(p)
    /\ UNCHANGED <<clock, issued, epoch>>

-----------------------------------------------------------------------------
(* UpdateUserStatus; who may call it is the subject of UserAdmin *)

\* The status first, the sessions in a statement of their own.  The copy was
\* active; the row may have been suspended since.
Suspend(p) ==
    /\ Reached(p, "idle")
    /\ \E u \in People :
        /\ account[u] \in {"active", "suspended"}
        /\ epoch[u] < MaxEpoch
        /\ account' = [account EXCEPT ![u] = "suspended"]
        /\ epoch' = [epoch EXCEPT ![u] = @ + 1]
        /\ Continue(p, [pc |-> "purge", user |-> u, epoch |-> 0])
    /\ UNCHANGED <<clock, session, issued>>

\* An error of the purge is dropped.
PurgeSuspended(p) ==
    /\ Reached(p, "purge")
    /\ session' \in {Without(Of(call[p].user)), Spared(Of(call[p].user))}
    /\ Reply(p)
    /\ UNCHANGED <<clock, account, issued, epoch>>

Reactivate ==
    /\ \E u \in People : /\ account[u] = "suspended"
                         /\ account' = [account EXCEPT ![u] = "active"]
    /\ UNCHANGED <<clock, session, issued, call, epoch>>

-----------------------------------------------------------------------------
\* A statement fails and the handler returns the error; a handler that does
\* nothing with sessions ends like this as well.
CallFails(p) ==
    /\ call[p].pc \in {"create", "load", "handle"}
    /\ Reply(p)
    /\ UNCHANGED <<clock, account, session, issued, epoch>>

\* PurgeExpiredSessions, on the ticker.
Sweep ==
    /\ session' = Without(Expired)
    /\ UNCHANGED <<clock, account, issued, call, epoch>>

\* The process stops and boots; the boot sweeps once.
SessionRestart ==
    /\ session' =
         [s \in Tokens |->
            IF s \notin Live \ Expired THEN NoRow
            ELSE [session[s] EXCEPT
                    !.late = @ \/ \E p \in Threads : /\ Reached(p, "purge")
                                                     /\ call[p].user = session[s].owner,
                    !.lost = @ \/ \E p \in Threads : /\ Reached(p, "slide")
                                                     /\ call[p].token = s]]
    /\ call' = [p \in Threads |-> NoRequest]
    /\ UNCHANGED <<clock, account, issued, epoch>>

\* Time passes, but an update follows its reading of the clock in MaxDelay.
Tick ==
    /\ clock < MaxClock
    /\ \A p \in Threads : Reached(p, "slide") => clock - call[p].now < MaxDelay
    /\ clock' = clock + 1
    /\ UNCHANGED <<account, session, issued, call, epoch>>

SessionNext ==
    \/ \E p \in Threads :
        \/ Register(p) \/ Login(p) \/ CreateSession(p)
        \/ Authenticate(p) \/ Slide(p) \/ LoadCaller(p)
        \/ Revoke(p) \/ ChangePassword(p) \/ RemoveAccount(p)
        \/ Suspend(p) \/ PurgeSuspended(p) \/ CallFails(p)
    \/ Reactivate \/ Sweep \/ SessionRestart \/ Tick

SessionSpec == SessionInit /\ [][SessionNext]_sessionVars

-----------------------------------------------------------------------------
\* Types; tokens above `issued` have no row, and a row has its account.
SessionTypeOK ==
    /\ clock \in 0..MaxClock
    /\ account \in [People -> {"unborn", "active", "suspended", "gone"}]
    /\ session \in [Tokens -> Rows \cup {NoRow}]
    /\ issued \in 0..MaxLogins
    /\ call \in [Threads -> Call \cup {NoRequest}]
    /\ epoch \in [People -> 0..MaxEpoch]
    /\ \A s \in Live : s <= issued /\ account[session[s].owner] \in {"active", "suspended"}

\* auth.go:40-46: a session ends at most TTL after it was last presented,
\* however many requests slide it at once.
LifetimeBound == \A s \in Live : session[s].expires <= session[s].used + TTL

\* auth.go:40: an active user is not logged out mid-session.  After every
\* request a session has half its lifetime left, late slides by older requests
\* notwithstanding, unless a slide is still to come or was lost.
ActiveKept ==
    \A s \in Live :
        ~session[s].lost /\ (\A p \in Threads : Reached(p, "slide") => call[p].token # s) =>
            2 * (session[s].expires - session[s].used) >= TTL

\* settings.go:171 and orgusers.go:168: a changed password ends all other
\* sessions and a suspension ends all, also for the time after a reactivation.
\* A session from before is left only by a purge that is still to come or was
\* lost, or by a login that had been verified before.
SessionsFollowAccount ==
    \A s \in Live :
        LET u == session[s].owner
        IN \/ session[s].since = epoch[u] \/ session[s].late
           \/ \E p \in Threads : Reached(p, "purge") /\ call[p].user = u

\* A session that has been revoked, purged or swept never comes back, even
\* when a request that found it earlier goes on to slide it.
RevivalStep == \A s \in 1..issued : s \notin Live => session'[s] = NoRow
NoRevival == [][RevivalStep]_sessionVars
=============================================================================
