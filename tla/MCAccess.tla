------------------------------- MODULE MCAccess -------------------------------
(***************************************************************************)
(* TLC instance of Sessions, RateLimit and Instance: how one gets into an  *)
(* instance and stays logged in.  The three share no variable, so a        *)
(* behaviour of them together is an interleaving of behaviours of each;    *)
(* every property is about one of them, and the run explores them side by  *)
(* side: `side` tells which one moves.  Instance moves on two sides, each  *)
(* of which leaves out some of its requests.                               *)
(***************************************************************************)
EXTENDS Sessions, RateLimit, Instance, TLC

VARIABLE side

\* Bound: requests about the personal sign-up switch, and settings requests that
\* overlap, do not meet requests about the organization's policy and its invites.
SignUpNext == Next /\ \A p \in Procs : req'[p].pc \notin Managing
InvitesNext ==
    Next /\ "overlap" \notin disturbed' /\ \A p \in Procs : req'[p].pc \notin Opening

AccessInit ==
    /\ side \in {"sessions", "limit", "sign_up", "invites"}
    /\ SessionInit /\ LimitInit /\ Init

AccessNext ==
    /\ UNCHANGED side
    /\ \/ side = "sessions" /\ SessionNext /\ UNCHANGED <<limitVars, vars>>
       \/ side = "limit" /\ LimitNext /\ UNCHANGED <<sessionVars, vars>>
       \/ side = "sign_up" /\ SignUpNext /\ UNCHANGED <<sessionVars, limitVars>>
       \/ side = "invites" /\ InvitesNext /\ UNCHANGED <<sessionVars, limitVars>>

AccessSpec == AccessInit /\ [][AccessNext]_<<side, sessionVars, limitVars, vars>>

\* The goroutines are interchangeable; they have the same names in all three.
ProcSymmetry == Permutations(Procs)
=============================================================================
