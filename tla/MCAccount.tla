------------------------------ MODULE MCAccount ------------------------------
(***************************************************************************)
(* TLC instance of Boot, HashSlots, Keys and Vault: the process from its   *)
(* start on, and what the requests of one account go through once it       *)
(* serves.  The four share no variable.  A behaviour of them together is   *)
(* an interleaving of behaviours of each, and every property is about the  *)
(* variables of one of them; so the run explores them side by side: `side` *)
(* tells which one moves.                                                  *)
(***************************************************************************)
EXTENDS MCBoot, HashSlots, Keys, Vault

VARIABLE side

\* Secrets are interchangeable: the first one stored may always be the same.
FirstSecret == file.secret \in {NoSecret, CHOOSE s \in Secrets : TRUE}

\* Bound: a first boot that was cut short and a misreading do not meet.
BootNext ==
    /\ Next
    /\ file.secret = NoSecret => FirstSecret'
    /\ ~(cut' /\ (blind' \/ misread'))

AccountInit ==
    /\ side \in {"boot", "slots", "keys", "vault"}
    /\ Init /\ FirstSecret /\ (side = "boot" \/ file = Blank)
    /\ HashInit
    /\ KeysInit
    /\ side = "keys" \/ (row.public = {} /\ live = {CHOOSE d \in Devices : TRUE})
    /\ VaultInit

AccountNext ==
    /\ UNCHANGED side
    /\ \/ side = "boot" /\ BootNext /\ UNCHANGED <<hashVars, keyVars, vaultVars>>
       \/ side = "slots" /\ HashNext /\ UNCHANGED <<vars, keyVars, vaultVars>>
       \/ side = "keys" /\ KeysNext /\ UNCHANGED <<vars, hashVars, vaultVars>>
       \/ side = "vault" /\ VaultNext /\ UNCHANGED <<vars, hashVars, keyVars>>

AccountSpec ==
    /\ AccountInit
    /\ [][AccountNext]_<<side, vars, hashVars, keyVars, vaultVars>>
    /\ Fairness
    /\ HashFairness

\* The type invariants of HashSlots, Keys and Vault.
AccountTypeOK == HashTypeOK /\ KeysTypeOK /\ VaultTypeOK
=============================================================================
