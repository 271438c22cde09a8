--------------------------------- MODULE Keys ---------------------------------
(***************************************************************************)
(* The key material of one account: its password, its sharing keypair and  *)
(* the envelope that gives it the organization's key, as several devices   *)
(* of its owner and an administrator change them (UploadKeypair,           *)
(* UpdateMasterPassword, Login, ListMemberships, GrantMembership).         *)
(*                                                                         *)
(* The server stores what the clients have encrypted and cannot look into  *)
(* it: a public key is named after the device that made the pair, a        *)
(* password by its number, and a private key is stored with the password   *)
(* it is wrapped under.  A column that may be empty is a set of at most    *)
(* one value.                                                              *)
(***************************************************************************)
EXTENDS Naturals

CONSTANTS
    Devices,      \* the devices of the account's owner
    MaxPasswords  \* bound: the passwords ever chosen

ASSUME KeysAssumption == MaxPasswords \in Nat

VARIABLES
    row,       \* the account: the password, public_key, encrypted_private_key
    envelope,  \* the public keys the membership's wrapped_key is made for
    listed,    \* the public key the administrator's client has listed
    live,      \* the devices that have a session
    knows,     \* knows[d]: the password and the public key device d has
    keyReq,    \* keyReq[d]: the request of device d, and the copy of the row it read
    passwords, \* how many passwords there have been
    outdated   \* history: a client wrote what no longer fitted the row

keyVars == <<row, envelope, listed, live, knows, keyReq, passwords, outdated>>

Passwords == 0..MaxPasswords
AtMostOne(S) == {{}} \cup {{x} : x \in S}
Copy == [password : Passwords, public : AtMostOne(Devices)]
Resting == [pc |-> "idle", copy |-> [password |-> 0, public |-> {}]]

\* The account was registered on a device, with a keypair or before there were any.
KeysInit ==
    \E d \in Devices, public \in AtMostOne(Devices) :
        /\ public \subseteq {d}
        /\ row = [password |-> 0, public |-> public, private |-> public \X {0}]
        /\ envelope = {}
        /\ listed = {}
        /\ live = {d}
        /\ knows = [e \in Devices |-> [password |-> 0, public |-> IF e = d THEN public ELSE {}]]
        /\ keyReq = [e \in Devices |-> Resting]
        /\ passwords = 0
        /\ outdated = FALSE

Busy(d, pc) == keyReq[d].pc = pc
Reply(d) == keyReq' = [keyReq EXCEPT ![d] = Resting]

\* A request begins: Auth, or Login, reads the row.
Send(d, pc) ==
    /\ Busy(d, "idle")
    /\ keyReq' = [keyReq EXCEPT ![d] =
                     [pc |-> pc, copy |-> [password |-> row.password, public |-> row.public]]]
    /\ UNCHANGED <<row, envelope, listed, live, knows, passwords, outdated>>

-----------------------------------------------------------------------------
\* The owner types the password; the session is created after it is verified.
BeginLogin(d) == d \notin live /\ Send(d, "login")

Login(d) ==
    /\ Busy(d, "login")
    /\ live' = live \cup {d}
    /\ knows' = [knows EXCEPT ![d] = keyReq[d].copy]
    /\ Reply(d)
    /\ UNCHANGED <<row, envelope, listed, passwords, outdated>>

\* Me: the device reads its account again.
Me(d) ==
    /\ d \in live /\ Busy(d, "idle")
    /\ knows' = [knows EXCEPT ![d].public = row.public]
    /\ UNCHANGED <<row, envelope, listed, live, keyReq, passwords, outdated>>

\* Faulty variant: an existing key is not looked for.
BeginUploadUnchecked(d) == d \in live /\ Send(d, "upload")

\* UploadKeypair refuses when the copy that Auth has read shows a key.
BeginUpload(d) == d \in live /\ row.public = {} /\ Send(d, "upload")

\* The pair of this device, wrapped under the password it knows.
Upload(d) ==
    /\ Busy(d, "upload")
    /\ row' = [row EXCEPT !.public = {d}, !.private = {<<d, knows[d].password>>}]
    /\ knows' = [knows EXCEPT ![d].public = {d}]
    /\ outdated' = (outdated \/ row.public # keyReq[d].copy.public
                             \/ row.password # knows[d].password)
    /\ Reply(d)
    /\ UNCHANGED <<envelope, listed, live, passwords>>

\* UpdateMasterPassword verifies the current password against the copy.
BeginChange(d) ==
    d \in live /\ knows[d].password = row.password /\ Send(d, "change")

\* Faulty variant: the wrapped private key is not among the updated columns.
ChangeForgetful(d) ==
    /\ Busy(d, "change")
    /\ passwords < MaxPasswords
    /\ passwords' = passwords + 1
    /\ row' = [row EXCEPT !.password = passwords + 1]
    /\ live' = live \cap {d}
    /\ knows' = [knows EXCEPT ![d] = [password |-> passwords + 1, public |-> row.public]]
    /\ outdated' = (outdated \/ row.public # knows[d].public)
    /\ Reply(d)
    /\ UNCHANGED <<envelope, listed>>

\* The transaction: the new password, the private key if the client has one to
\* wrap again, and the end of the other sessions.  The answer is the new row.
Change(d) ==
    /\ Busy(d, "change")
    /\ passwords < MaxPasswords
    /\ passwords' = passwords + 1
    /\ row' = [row EXCEPT !.password = passwords + 1,
                          !.private = IF knows[d].public = {} THEN @
                                      ELSE knows[d].public \X {passwords + 1}]
    /\ live' = live \cap {d}
    /\ knows' = [knows EXCEPT ![d] = [password |-> passwords + 1, public |-> row.public]]
    /\ outdated' = (outdated \/ row.public # knows[d].public)
    /\ Reply(d)
    /\ UNCHANGED <<envelope, listed>>

\* A statement fails and the handler returns the error.
KeysStatementFails(d) ==
    /\ ~Busy(d, "idle")
    /\ Reply(d)
    /\ UNCHANGED <<row, envelope, listed, live, knows, passwords, outdated>>

-----------------------------------------------------------------------------
\* ListMemberships shows the public key to the administrator's client.
List ==
    /\ listed' = row.public
    /\ UNCHANGED <<row, envelope, live, knows, keyReq, passwords, outdated>>

\* GrantMembership: the account must have a key; the envelope was made for the
\* listed one and replaces an earlier one.
Grant ==
    /\ row.public # {} /\ listed # {}
    /\ envelope' = listed
    /\ UNCHANGED <<row, listed, live, knows, keyReq, passwords, outdated>>

\* RevokeMembership
Revoke ==
    /\ envelope' = {}
    /\ UNCHANGED <<row, listed, live, knows, keyReq, passwords, outdated>>

KeysNext ==
    \/ \E d \in Devices :
        \/ BeginLogin(d) \/ Login(d) \/ Me(d)
        \/ BeginUpload(d) \/ Upload(d) \/ BeginChange(d) \/ Change(d)
        \/ KeysStatementFails(d)
    \/ List \/ Grant \/ Revoke

KeysSpec == KeysInit /\ [][KeysNext]_keyVars

-----------------------------------------------------------------------------
\* Types; both halves of a keypair are there or neither.
KeysTypeOK ==
    /\ row \in [password : Passwords, public : AtMostOne(Devices),
                private : AtMostOne(Devices \X Passwords)]
    /\ row.public = {} <=> row.private = {}
    /\ envelope \in AtMostOne(Devices)
    /\ listed \in AtMostOne(Devices)
    /\ live \subseteq Devices
    /\ knows \in [Devices -> Copy]
    /\ keyReq \in [Devices -> [pc : {"idle", "login", "upload", "change"}, copy : Copy]]
    /\ passwords \in Passwords
    /\ outdated \in BOOLEAN

\* settings.go:93: UploadKeypair "only writes when no public key is set yet", so
\* that a key that is there is never overwritten.
PublicKeyStep == row.public # {} => row'.public = row.public
PublicKeyKept == [][PublicKeyStep]_keyVars

\* PublicKeyKept does not hold: the key was looked for in the copy of the row.
\* What holds is that a key is replaced by nothing but such an upload, by its own
\* device, whose request was let in when there was none.
KeyStep ==
    row.public # {} /\ row'.public # row.public =>
        \E d \in Devices : Busy(d, "upload") /\ keyReq[d].copy.public = {} /\ row'.public = {d}
KeySetOnce == [][KeyStep]_keyVars

\* settings.go:129, models/user.go:42: the private key is the public one's and
\* wrapped under the account's password, whatever its devices do at the same
\* time - unless one of them wrote what no longer fitted the row: a pair that
\* crossed another or a password change, or a new password from a device that
\* had not seen the key of another.
KeyOpens == ~outdated => row.private = row.public \X {row.password}

\* orgmembership.go:64: the envelope is made for the key the account has, however
\* long ago the administrator listed it, with the same exception.
EnvelopeOpens == ~outdated => envelope \subseteq row.public
=============================================================================
