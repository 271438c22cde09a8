------------------------------- MODULE MCAdmin -------------------------------
(***************************************************************************)
(* TLC instance of UserAdmin, OrgSettings, AuditLog and SharedVault: what  *)
(* the administrators of an organization change, what they read of it, and *)
(* what its members store.  The four share no variable, so a behaviour of  *)
(* them together is an interleaving of behaviours of each; every property  *)
(* is about one of them, and the run explores them side by side: `side`    *)
(* tells which one moves.                                                  *)
(***************************************************************************)
EXTENDS UserAdmin, OrgSettings, AuditLog, SharedVault, TLC

VARIABLE side

AdminInit ==
    /\ side \in {"users", "settings", "audit", "shared"}
    /\ Init /\ OrgInit /\ AuditInit /\ SharedInit

AdminNext ==
    /\ UNCHANGED side
    /\ \/ side = "users" /\ Next /\ UNCHANGED <<orgVars, auditVars, sharedVars>>
       \/ side = "settings" /\ OrgNext /\ UNCHANGED <<vars, auditVars, sharedVars>>
       \/ side = "audit" /\ AuditNext /\ UNCHANGED <<vars, orgVars, sharedVars>>
       \/ side = "shared" /\ SharedNext /\ UNCHANGED <<vars, orgVars, auditVars>>

AdminSpec == AdminInit /\ [][AdminNext]_<<side, vars, orgVars, auditVars, sharedVars>>

\* The type invariants of OrgSettings and AuditLog.
OrgAndAuditTypeOK == OrgTypeOK /\ AuditTypeOK

\* The goroutines are interchangeable; they have the same names in all modules.
ProcSymmetry == Permutations(Procs)
=============================================================================
