# LibreLock server: a TLA+ verification project

LibreLock server is the REST API of a self-hosted password manager: Go, Gin,
GORM over one SQLite file.  Vault contents are encrypted by the clients; what
the server has to get right is who may do what, in which mode, while requests
overlap, statements fail and the process restarts.  No handler takes a lock,
and only two places open a transaction (`UpdateMasterPassword` and
`RunMigrations`): a handler reads rows, decides, and writes later.  That gap is
the subject of most of this project.

The modules are translations of the Go code; `PROJECT.json` maps every
definition to the lines it stands for.

## Inventory

| Component | State | Operations | What makes it correct |
|---|---|---|---|
| Accounts and user management (`handlers/orgusers.go`, `helpers.go`) | rows of `user`: role, status | change role, grant ownership, suspend, reactivate, remove, delete oneself, promote at boot | an organization keeps an active administrator; only owners touch owners |
| Registration (`handlers/auth.go`) | `user`, `invite.used_at` | register: count, gate, policy, invite, insert, burn | a personal instance is closed after its first account; an invite admits one account |
| Mode provider (`appmode/appmode.go`) | `app_state.mode`, `app_state.allow_registration`, the same two in memory under an RWMutex | enable organization, revert to personal, open or close sign-up, load at boot | memory and database agree; an organization has its tables and an owner |
| Organization settings and invites (`handlers/organization.go`, `invite.go`) | the singleton `organization` row, `invite` | branding, policy, shared-vault switches, mint, revoke, prune | a setting keeps the value last given to it; deleted invites stay deleted |
| Rate limiter (`middleware/ratelimit.go`) | a map of token buckets, the time of the last sweep, a mutex | admit or refuse, sweep idle buckets | burst plus rate bounds every window; nobody is starved; sweeping cannot be noticed |
| Sessions (`middleware/auth.go`, `handlers/auth.go`, `session.go`, `db/sessions.go`) | rows of `session` with an expiry | log in, authenticate and slide, log out, revoke one or all others, purge by suspension, password change or sweeper | a revoked or lapsed session never works again; an active one is not lost |
| Password and keypair (`handlers/settings.go`) | `user` credentials and keys | change the password (transaction), upload a keypair once | old credentials stop working with all other sessions; a key is set once and can be opened |
| Personal vault (`handlers/vault.go`, `category.go`) | `vault`, `category` | create, read, update, delete | deleted rows stay deleted, rows belong to the account that made them, entries to its own categories |
| Shared vault (`handlers/orgvault.go`, `orgcategory.go`, `orgmembership.go`, `middleware/membership.go`) | `org_vault`, `org_category`, `org_vault_membership` | as above, plus grant and revoke | members act within the organization's switches; an owner keeps access |
| Boot (`main.go`, `db/db.go`, `db/migrations.go`) | the schema, `app_state.schema_version` and `app_version`, snapshot files | inspect, guard, snapshot, migrate, seed, promote, stamp | each migration runs once; a newer database is refused; a snapshot leads back from an upgrade; mode and secret survive |
| Hash slots (`crypto/limit.go`) | a channel of slots, a `sync.Once` | acquire, release, decoy hash | bounded, no deadlock, everybody is served |
| Audit log (`handlers/audit.go`) | `audit_event` | record, list by pages | a walk through the pages misses nothing while the log grows |
| Configuration, tokens, HTTP plumbing | none | | no decision depends on them |

How they interact: every protected request runs `Auth` (loads the session and
the user), perhaps `RequireAdmin` or `RequireMembership` (mode from memory,
role from the copy `Auth` loaded), perhaps the rate limiter, and then one
handler.  Handlers share nothing but the database, the provider's memory and
the limiter's map.  Accounts own sessions, entries and categories by foreign
keys that cascade.  Boot rebuilds the provider from `app_state`.

The hard behaviours are therefore interleavings of statements of different
requests, decisions on copies of rows that have changed since, statements that
fail in the middle of a handler without a transaction, dropped errors, and
restarts between statements.  `hazards` in `PROJECT.json` lists the main ones at
their lines.

## Modules

### UserAdmin: user management

State: `role[u]` and `status[u]` are the columns of the account numbered `u`
(`role[u] = "none"`: no row), `created` is how many accounts there have been,
`req[p]` is the handler that goroutine `p` runs, with the copies it has read.
Accounts are numbered by `created_at`, which is what `EnsureOrgOwner` orders by.

One action is one SQL statement together with the Go code up to the next one:
`AdmitManager` (`Auth`, `RequireAdmin`, the comparison with one's own id),
`FindUser` (`findUser` and the early returns, `guardOwnerTarget` among them),
`CountActiveAdmins`, `Write` (the update or delete), `AdmitSelfDeletion`
(`DeleteAccount`), `StartRegistration` and `CreateAccount` (`Register`),
`StatementFails` (any statement's error return) and `Restart` (requests in
flight are lost, then `EnsureOrgOwner`, which drops its errors: a count that
fails reads 0 and promotes the oldest account next to the owners there are, a
lookup or an update that fails leaves an organization without one).

The module takes the instance to be in organization mode with open
registration; switching and invites are the subject of Instance.

### RateLimit and TokenBucket: the rate limiter

State: `known`, `tokens`, `lastFill` are the bucket map, `lastSweep` its sweep
time, `ticks` the wall clock, `arrival[p]` a request that has read the clock
and waits for the mutex, for at most `Lateness` ticks.  `Take` is the whole section under the mutex.  Tokens are
counted in the units one tick regains, so that the fractions of the code are
whole numbers.  `opened`, `spent` and `sweeps` are history: an observer opens a
window at any moment and adds up what each client is granted in it, and how
often idle buckets are dropped.

`TokenBucket` is the promise: one bucket per client that always exists, fills
by one unit a tick up to `Full`, and pays for every admission.  RateLimit
implements it under the mapping that brings a bucket's contents up to the
present (`Level`); a client without a bucket maps to a full one, which is
the claim of the comment at `ratelimit.go:26`.  The code makes the idle time at
least the time of a full refill and no longer where that is a minute or more
(`authLimit`: 60 s and 60 s), so a late request, which leaves in its bucket a
time before what it was credited for, can make a sweep drop a bucket that still
lacks a little: `Gain`, at most twice the lateness less a tick.  The promise says
so: a sweep, at most once in an idle time, may fill up buckets that lack no more
than `Gain`, and `AdmissionBound` grants `Gain` for each sweep in the window.
With `2 * Lateness` ticks to spare (`reauthLimit`: 50 s and 60 s) `Gain` is 0.

### Instance: mode, registration and invites

State: `db` and `mem` are the two copies of mode and sign-up switch
(`app_state` and `appmode.Provider`), `tables` the organization tables,
`policy` the `organization.registration` column, `invite[i]` the state of each
invite, `role` and `created` the accounts, `req[p]` the requests.  Registration
is split at its statements (`CountUsers`, `Gate`, `ReadPolicy`, `LookUp`,
`CreateAccount`, `BurnInvite`), enabling into `BeginEnable` ...
`FlipToOrganization`, reverting into `BeginRevert` ... `FlipToPersonal`, the
sign-up switch into `StoreOpen` and `RememberOpen`.  A read of the mode is part
of the step of the statement that follows it at once.  Where the code drops an
error, the failing statement is a second outcome of the step (`ReadPolicy`,
`LookUp`, `SeedOrganization`, `StepDown`, `CountUsers`); where it returns the
error, `StatementFails` ends the request; `Restart` may come anywhere.
AutoMigrate may fail after any of its tables (`Prefixes`).  A boot reads the
settings from app_state or, on any error of that, takes the instance for an
organization if the organization table is there, storing that if it can, and
for a personal one otherwise (`Readings`); an organization then gets its missing
tables and runs `EnsureOrgOwner`, whose dropped errors are outcomes too.
Whether a user name is taken, starter categories, the first session and the
audit log are left out: they decide nothing here (a taken name is a failing
`CreateAccount`).

History variables: `disturbed` (what has happened since the last boot that may
set memory and app_state apart: two settings requests overlapped, a revert
failed between persisting the mode and its end, or the boot itself did not get
to read app_state), `admitted[i]` (how
many accounts invite `i` let in), `unburnt` (invites whose burning failed or
was cut off).

### Sessions: login, sliding expiry, revocation

State: `session[s]` is the row of the token with number `s` (its owner and
expiry), `account[u]` the status of an account, `issued` how many tokens exist,
`clock` the wall clock, `call[p]` the requests.  `Login` and `Register` verify and
leave the insertion to `CreateSession` (argon2 and other statements run in
between); `Authenticate`, `Slide` and `LoadCaller` are the three statements of
`middleware.Auth`; `Revoke` is `Logout`, `Destroy` and `DestroyAll`;
`ChangePassword` is the transaction of `UpdateMasterPassword`; `Suspend` and
`PurgeSuspended` are the two statements of `UpdateUserStatus`; `Sweep` may run at
any time, `Restart` loses all requests and sweeps.  Passwords are not modelled:
a wrong one ends the request without a trace.  A deleted account takes its
sessions along, as the foreign key has it.

History: `epoch[u]` counts password changes and suspensions; in a row, `since`
is the epoch its login was verified in, `used` when `Auth` last found it,
`late` that a login under way or a lost purge left it behind, `lost` that its
last slide failed.

A login that has verified the old password creates its session after a password
change has deleted all others: `SessionsFollowAccount` names this exception, and
that of a purge whose error is dropped.  No comment promises that there are
none, so it is not a finding.

### SharedVault: shared entries, categories and memberships

State: `entry[e]` is the category of the row (`Null` for none) or that there is
no row, `contents[e]` tells new encrypted contents from those they replace,
`category[c]` whether a shared category has a row, `member` the accounts
with a key copy, `switches` the two permissions of plain members on the
organization row, `rank` the accounts, `call[p]` the requests.  `AdmitMember` and `AdmitAdmin` are the
guards of the routes, `Permit` is `permitsShared`; then each handler's load,
check and write follow as steps of their own.  `SaveEntry` and `RenameCategory` are
gorm's `Save`: all columns by primary key and, when that meets no row, an
insertion.  `SaveBranding` writes the switches back that `LoadBranding` read,
because `Update` and `UploadLogo` save the whole organization row.  Foreign keys
refuse an entry in a missing category and clear the category of entries when it
is deleted.

History: `allowed[p]` collects which permissions members had together at any
moment since the plain member's request in `p` began.  `MemberWritesPermitted`
asks for `manage` when an entry is stored or deleted, for `edit` when its
contents or its category change, for both when a category is touched.

### Boot: from the file to a serving instance

State: `file` is the database as far as a boot looks at it: which core tables
there are, whether the organization's are, the `app_state` row with mode,
secret, `app_version` and `schema_version`, and `effect`, the migrations whose
result the tables show.  `run` is the process: the stage of its boot, the
`Bootstrap` that `inspect` has read and the mode in memory, which it keeps while
it serves.  `backups` is the snapshot directory.

The actions are the steps of `main` up to serving: `Inspect` (with the guard and
the decision on a snapshot), `TakeSnapshot` (with pruning), `MigrateUser` and
`MigrateRest` (AutoMigrate creates `user` first, and `inspect` looks for that
table only; on tables that are there it adds what this release's models have,
which undoes what migrations of newer releases dropped, `Extended`), `LoadMode`,
`EnsureSecret`, `MigrateOrg` (AutoMigrate again), `Migrate` (one migration
and its version in a transaction), `Stamp`.  `Start` boots any release, `Stop`
ends the process anywhere, `SwitchMode` is what a serving instance does to mode
and tables.  A release is its place in time and the length of its migration
list; release 0 stands for those older than `app_version`.  The initial file is
missing, or was left by such an older release, before or after `app_state`.

Errors the code drops are outcomes of the steps: `inspect` may read the file as
having no table or no version, `New` may take a row it cannot read for a missing
one, `persist` may fail unnoticed, pruning may fail, `VACUUM INTO` may leave a
torn file.

History: `attempts` and `uncovered` (snapshots begun, and a boot without one,
since the last stamp), `chosen` (the mode last given), `ran` (the migrations that
were run), `cut` (the first boot was cut short), `blind` and `misread` (a file or
a mode was misread; at most one misreading at a time).

`WayBack` is the promise of `config.go:23` with the conditions under which the
code keeps it; the proof shows that there are no others.  `OlderNeverWrites` is
about every write of a boot, AutoMigrate's included, which is why the guard has
to come first; a boot that reads another schema version than the stored one is
excepted there and the subject of `NewerIsRefused`.  `MigratesOnce` excepts a
first boot that ends after creating tables and before its stamp; it leaves a
database that the next boot takes for an existing one at schema 0, so the
migrations run on tables that never needed them, which is the subject of
`HistoryStaysPast`.  The only migration so far tolerates that.

### HashSlots: the cap on argon2

State: `holders` and `queue` are the channel, `once` and `decoy` the decoy hash,
`req[p]` what the goroutine is about to do.  Go passes a freed place in a
channel to the sender that has waited longest, hence the queue.  `Finish` is the
end of one hash: the maker of the decoy goes on to verify against it, a password
change to its second hash.

### Keys: password and sharing keypair

State: `row` is the account's password, public and private key, `envelope` the
organization's key for it, `listed` what the administrator's client knows of it,
`knows[d]` what device `d` knows, `keyReq[d]` its request with the copy of the row
that `Auth` (or `Login`) read.  Encryption is a pairing of names: a private key
is stored with the password it is wrapped under, an envelope is the public key
it was made for.  What clients send follows from the comments and the request
types (`settings.go:129`): a device wraps its private key again when it knows
that the account has one.  `outdated` is history: a request wrote what no longer
fitted the row it met.  `KeySetOnce` says when a key may be replaced: by an
upload that was let in while there was none; that this happens is what
`PublicKeyKept` shows.

### Vault: personal entries and categories

State: `owner[v]`, `filed[v]`, `catOwner[c]` are the columns of `vault` and
`category`, `accounts` the accounts, `req[p]` the handler in `p` with the row it
will write.  `Begin...` is a handler's load with the checks on it, then follow
`OwnsCategory` and the write; `Save` and `Rename` insert a row that is gone, as
gorm's `Save` does.  `RemoveAccount` cascades.  History: `maker` (who created a
row; its id is used once) and `settled` (what was deleted while no update had it
loaded).

### OrgSettings: the organization's row

State: `org` is the row, `table` whether its table exists, `orgReq[p]` a request
and what it uses of the copy `getOrCreate` gave it.  A column has its default or
another value.  `Save` writes the whole copy, `SetColumns` the columns sent,
`Unchanged` is the early return of `UpdateRegistration`.  `kept` is what every
column must have: the value last given to it, or the older one that a whole-row
save brings back; `since` tells these apart.

### AuditLog: recording and paging

State: `log` are the rows, `createdAt` the times that entries get before they are
inserted, so that insertions overtake each other; `walk` is a client that asks
for page after page with the offset behind what it was sent, until one is empty.
`Pages` is what the query returns; the count that is sent along decides nothing
on the server.  The client is not part of the repository; one that stops when
its offset reaches the total counted before the last page may stop too early.

## Runs

| Run | Bounds | What it shows |
|---|---|---|
| `organization` | UserAdmin: 3 accounts, 2 requests; OrgSettings: 4 columns, 2 requests; AuditLog: 4 entries, 2 instants, pages up to 2; SharedVault: 1 account, 1 entry, 1 category, 2 requests | `LastAdminGuard`: the last active administrator is lost only by a write decided on data that has changed since. `OwnersArePeers`: an active owner is changed only by an owner's request, or one that saw it before it was an owner. `SettingsKept`: settings are lost to whole-row saves of older copies only. `NothingVanishes`, `RepeatsBounded`: a walk through the log misses nothing, and repeats at most one entry for each recorded meanwhile. `MemberWritesPermitted`, `OwnersKeepAccess`, and in `SharedTypeOK` that categories and memberships never dangle. |
| `access` | Sessions: 1 account, 2 requests, 2 tokens, lifetime 4, delay 1, 7 ticks, 1 change of password or status; RateLimit: 2 clients, 2 requests, burst 2, one request per 2 ticks, idle 4, lateness 1, 6 ticks; Instance: 2 accounts, 1 invite, 2 requests | `LifetimeBound`, `ActiveKept`, `SessionsFollowAccount`, `NoRevival`; `AdmissionBound`, `RefusedOnlyIfServed` and `ImplementsTokenBucket` (refinement); `SettingsAgree`, `OrgTablesExist`, `InviteSpentOnce` |
| `service` | Boot: 2 releases with 0 and 2 migrations, 2 snapshots kept, 3 at most, 2 secrets; HashSlots: 2 slots, 3 requests; Keys: 2 devices, 3 password changes; Vault: 2 accounts, 1 entry, 2 categories, 2 requests | `SchemaIsApplied`, `WayBack`, `ModeSurvives`, `OlderNeverWrites`, `MigratesOnce`, `SecretSurvives`, and the liveness property `BootsEnd`; `SlotsWellUsed`, `SameWork`, and the liveness property `EveryHashAnswered`; `KeyOpens`, `EnvelopeOpens`, `KeySetOnce`; `RowsBelong`, `DeletedForGood` |
| `useradmin_manageable` | 2 accounts, 2 requests | violated: two crossing requests leave no administrator |
| `useradmin_revertible` | 3 accounts, 1 request | violated without any concurrency: the only owner may leave as long as an admin stays |
| `useradmin_untouchable` | 2 accounts, 1 request | violated without any concurrency: one owner demotes another |
| `instance_invite_single_use` | 3 accounts, 1 invite, 2 requests | violated: overlapping registrations share an invite |
| `instance_switch_owner` | 2 accounts, 1 invite, 2 requests | violated: the enabling account deletes itself before the mode flips |
| `shared_vault_members_add` | 2 accounts, 1 entry, 1 category, 2 requests | violated: an edit stores an entry again that was deleted meanwhile |
| `keys_public_key_kept` | 2 devices | violated: of two crossing uploads the second replaces the key of the first |
| `boot_newer_is_refused` | as in `service` | violated: an older release that fails to read the schema version writes to a newer database |
| `boot_history_stays_past` | as in `service` | violated: after a first boot that was cut short the migrations run on tables created at head |

Bounds.  Two requests are the smallest number that interleave and each handler
decides at most once, so a third request adds other orders of the same
conflicts.  Three accounts in UserAdmin allow an owner, an admin and a target
at the same time; in Instance roles change through switches only, and two
accounts give a founder, a newcomer and the demotion of an older owner.  One
invite is enough because invites do not influence each other.  Sessions of
different accounts do not touch each other, so one account is enough; its clock
runs well into a second lifetime, and two tokens are the caller's session and
another one.  In SharedVault one entry and one category make every conflict,
since handlers touch one of each; one account is enough because what a request
may do is fixed when its guard lets it pass, as an administrator's or as a plain
member's, and the account can change its role in between.  OrgSettings has one
column of each kind.  The rate limiter's clock runs past one idle period, so
that buckets are dropped and come back; burst, rate and idle time are in the
proportion of `authLimit`, whose idle time is just that of a full refill, so
that `Gain` is not 0.

Two releases are an upgrade, a downgrade and a restart; two migrations put a
stop between them; keeping two snapshots of at most three lets a third failed
attempt push the good one out.  Three requests at two slots make one wait, and
let the decoy's maker, a caller that waits for it and a password change meet.
Two devices let each know less than the other; three passwords let a device fall
behind twice.  One entry with a category of either account shows every way of
filing it.  Four entries and pages of one or two let a page boundary fall
between entries of one instant while another is inserted before it.

Two bounds are about what meets in one behaviour.  Instance is explored twice:
with everything but requests about the organization's policy and invites
(`sign_up`), and with everything but the personal sign-up switch and overlapping
settings requests (`invites`).  In Boot, a first boot that was cut short and a
misreading do not meet, and the secrets, which are interchangeable, are issued
in a fixed order.  For the safety properties the proofs remove all of these
bounds.

Side by side.  MCAdmin, MCAccess and MCAccount each put several modules into one
run that share no variable.  What handlers of different modules do at the same
time does not meet in any state, so an interleaving of the modules shows nothing
that each alone does not show; in a behaviour of the run one module moves
(`side`), and every property is about the variables of one module.
`AdminImplementsParts` and `AccountImplementsParts` prove that such a run is a
behaviour of each of its modules, so what is proved of a module holds in it; in
MCAccess that follows in the same way from its next-state relation.  Where
handlers do share state, the module holds all of them: removal of accounts is in
UserAdmin, Sessions, SharedVault and Vault, the organization's row in Instance,
SharedVault and OrgSettings, as far as each needs it.

Fairness.  Two properties are liveness properties.  `BootsEnd` assumes
`WF_vars(BootStep)`: `main` runs its steps one after the other, waits for nobody,
and statements end; that the process is stopped, and what an operator starts
afterwards, is not assumed.  `EveryHashAnswered` assumes weak fairness of each
goroutine's own steps: goroutines are preemptive, argon2 is a finite computation,
and who waits in a channel is served in order; that requests arrive is not
assumed.  Strong fairness is not needed, because a goroutine in the queue is
moved by those who finish.  All other modules are checked for safety only: their
requests may end, and clients go away, at any point.

Every property of a passing run has a mutant: a definition named in the module
as a faulty variant (a guard dropped, an order swapped, a reset forgotten)
which makes TLC find a violation of that property.

## What the violated runs say

They are disagreements between a comment and the code, not accidents of the
model; each is quoted in `findings`.

* `Manageable`: every path that removes an admin consults the same count, as
  `helpers.go:63` asks, but counting and writing are two statements.
* `Revertible`: `settings.go:202-204` wants someone left who can revert;
  reverting needs an owner, and the guard counts admins too.  The next boot
  promotes the oldest account.
* `InviteSingleUse`: `models/invite.go:10` calls an invite single-use; it is
  marked used after the account exists, unconditionally.
* `MembersAddPermitted`: `models/organization.go:30` reserves adding entries to
  those who may manage; saving an edited entry that was deleted adds it again.
* `SwitchProducesOwner`: `appmode.go:79-81` wants no ownerless organization;
  the promoted account may delete itself while the mode is still personal.
* `OwnersUntouchable`: `models/user.go:11` has exactly one owner, whom user
  management cannot touch; `orgusers.go:30-31` has several who are peers, and
  the code is with the latter.
* `PublicKeyKept`: `settings.go:93` wants a key never to be overwritten; whether
  there is one is asked of a copy loaded before.
* `NewerIsRefused`: `CONTRIBUTING.md:28` and `README.md:62` want an older release
  to refuse a newer database; a schema version that cannot be read counts as 0.
* `HistoryStaysPast`: `CONTRIBUTING.md:28` and `migrations.go:40-42` want no
  migration to run on a fresh install; one whose first boot was cut short is
  taken for an old one.

`LastAdminGuard`, `OwnersArePeers`, `InviteSpentOnce`, `KeySetOnce`,
`OlderNeverWrites` and `MigratesOnce` are the positive side: they bound when
these promises can fail.

## Proofs

| Theorem | Statement |
|---|---|
| `AdminProofs!TypeCorrect` | `Spec => []TypeOK` |
| `AdminProofs!LastAdminGuardHolds` | `Spec => LastAdminGuard` |
| `AdminProofs!OwnersArePeersHolds` | `Spec => OwnersArePeers` |
| `AdminProofs!SettingsKeptHolds` | `OrgSpec => []SettingsKept` |
| `AdminProofs!NothingVanishesHolds` | `AuditSpec => []NothingVanishes` |
| `AdminProofs!RepeatsBoundedHolds` | `AuditSpec => []RepeatsBounded` |
| `AdminProofs!OrgAndAuditTypeCorrect` | `AdminSpec => []OrgAndAuditTypeOK` |
| `InstanceProofs!TypeCorrect` | `Spec => []TypeOK` |
| `InstanceProofs!SettingsAgreeHolds` | `Spec => []SettingsAgree` |
| `InstanceProofs!OrgTablesExistHolds` | `Spec => []OrgTablesExist` |
| `InstanceProofs!InviteSpentOnceHolds` | `Spec => InviteSpentOnce` |
| `RateLimitProofs!TypeCorrect` | `LimitSpec => []LimitTypeOK` |
| `RateLimitProofs!AdmissionBoundHolds` | `LimitSpec => []AdmissionBound` |
| `RateLimitProofs!RefusedOnlyIfServedHolds` | `LimitSpec => RefusedOnlyIfServed` |
| `RateLimitProofs!Implementation` | `LimitSpec => ImplementsTokenBucket` |
| `SharedVaultProofs!TypeCorrect` | `SharedSpec => []SharedTypeOK` |
| `SharedVaultProofs!MemberWritesPermittedHolds` | `SharedSpec => MemberWritesPermitted` |
| `SharedVaultProofs!OwnersKeepAccessHolds` | `SharedSpec => OwnersKeepAccess` |
| `SessionsProofs!TypeCorrect` | `SessionSpec => []SessionTypeOK` |
| `SessionsProofs!LifetimeBoundHolds` | `SessionSpec => []LifetimeBound` |
| `SessionsProofs!ActiveKeptHolds` | `SessionSpec => []ActiveKept` |
| `SessionsProofs!SessionsFollowAccountHolds` | `SessionSpec => []SessionsFollowAccount` |
| `SessionsProofs!NoRevivalHolds` | `SessionSpec => NoRevival` |
| `BootProofs!TypeCorrect` | `Spec => []TypeOK` |
| `BootProofs!SchemaIsAppliedHolds` | `Spec => []SchemaIsApplied` |
| `BootProofs!WayBackHolds` | `Spec => []WayBack` |
| `BootProofs!ModeSurvivesHolds` | `Spec => []ModeSurvives` |
| `BootProofs!OlderNeverWritesHolds` | `Spec => OlderNeverWrites` |
| `BootProofs!MigratesOnceHolds` | `Spec => MigratesOnce` |
| `BootProofs!SecretSurvivesHolds` | `Spec => SecretSurvives` |
| `BootProofs!BootShrinks` | `Spec => [][ShrinkStep]_vars` |
| `BootProofs!NeverFails` | `Spec => [](run.pc # "failed")` |
| `VaultProofs!VaultTypeCorrect` | `VaultSpec => []VaultTypeOK` |
| `VaultProofs!RowsBelongHolds` | `VaultSpec => []RowsBelong` |
| `VaultProofs!DeletedForGoodHolds` | `VaultSpec => []DeletedForGood` |
| `AccountProofs!SlotsWellUsedHolds` | `HashSpec => []SlotsWellUsed` |
| `AccountProofs!SameWorkHolds` | `HashSpec => SameWork` |
| `AccountProofs!SomebodyMovesHolds` | `HashSpec => []SomebodyMoves` |
| `AccountProofs!AccountTypeCorrect` | `AccountSpec => []AccountTypeOK` |
| `AccountProofs!KeysTypeCorrect` | `KeysSpec => []KeysTypeOK` |
| `AccountProofs!KeyOpensHolds` | `KeysSpec => []KeyOpens` |
| `AccountProofs!EnvelopeOpensHolds` | `KeysSpec => []EnvelopeOpens` |
| `AccountProofs!KeySetOnceHolds` | `KeysSpec => KeySetOnce` |

Every invariant and every action property that a run checks is stated here, for
every value of the constants that the named assumptions admit.

UserAdmin (assumption: `MaxUsers` is a positive number; any set of goroutines).
`TypeOK` is not enough for the two action properties.  `Judged` adds what a
request that is about to write has already established: that its early returns
did not apply to the copies it holds, and, when the guard concerns it, that it
counted more than one active administrator.  With it, a write that takes away
the last administrator contradicts its own count unless the count is outdated.

RateLimit (assumption `RateLimitAssumption`: positive burst and cost, and an
idle time of at least a full refill, as the code sets it for every limiter).  The
inductive invariant bounds each bucket's contents and, for each client, ties what
it has been granted since the window opened to what its bucket has left.  A late
request may drop a bucket whose last request carried a later clock reading, and
its successor may arrive with an earlier one; `Gain` is what that bucket may have
lacked, and the invariant counts it once per sweep.  That sweeps are more than
an idle time apart is the second half of `AdmissionBound`.  The model's clock is
discrete and bounded by `MaxTicks`, which is arbitrary in the proofs.

OrgSettings (no assumption; any columns and goroutines).  `Fresh` says of a
request that is about to write that the columns it uses of its copy are what
they must be, except those written since it loaded them (`since`); a save of the
whole row is then correct for what nobody touched in between, and `kept` takes
the older values of the rest.  While the table is there without a row, every
column must have its default, and so a request that found no row may create it.

AuditLog (assumption `AuditLogAssumption`: event numbers, times and page sizes
are natural numbers, the times and the default page size positive).  The log is
ordered by rank, the number of entries listed before one, so that every page is
an interval of ranks (`PagesAdjoin`: no two entries have the same rank, and no
rank below the length of the log is free).  `Covered` says that what was there when the walk
began is behind its offset or has been shown: an entry recorded later only
raises ranks.  For `RepeatsBounded` the invariant counts what has been shown and
was pushed behind the offset again: repeats so far and to come are at most as
many as the entries recorded since.

Instance (assumption `InstanceAssumption`: a positive `MaxUsers`, and `NoInvite`
is no invite).  While settings requests do not overlap, one switch at most is
under way, and `Fits` says for each of its statements what app_state, memory and
the tables are by then; memory and app_state differ between the two writes of a
switch, and else only as a revert that failed half way or a boot that misread
app_state has left them, in the ways `SettingsAgree` names.  Overlapping switches
set `disturbed` when the second begins, which takes this part of the invariant
away until the next boot.  `Undisturbed` also holds what `OrgTablesExist` says: a
table is missing from an organization in memory only where a revert has dropped
it, after app_state has been set to personal.
`Spent` holds always: an invite that has let an account in is used or gone, or
its burning failed, or a registration is still about to burn it.

SharedVault (assumption `SharedVaultAssumption`: the null reference and the marks
of a missing row are no categories).  A write comes several statements after `permitsShared` allowed it, and the
switches move in between.  The inductive invariant says of a request past that
check that what its operation needs is in `allowed`, and of `allowed` that it
contains what the switches allow now and everything smaller; so it only grows
while the request runs.  That rows are only inserted for entries that had been
there (`SavedWereBorn`) is proved separately: `SaveEntry` inserts when it meets no
row, and an edit must not count as the addition of a new entry.

Sessions (assumption `SessionsAssumption`: an update follows its reading of the
clock within half a lifetime, `2 * MaxDelay <= TTL`).  The inductive invariant
says of each row what the invariants say (`RowOK`) and ties the requests to the
rows (`RequestOK`): a slide that is under way read the clock at most `MaxDelay`
ago and not after `Auth` last found the session, and the token a request holds
belongs to the account it found.  Without the first, a slide could set an expiry
that lies in no relation to the session's use; without the second, a changed
password could keep a session of another account.

Boot (assumption `BootAssumption`: numbers of the right kind, at least one
secret, room for one snapshot more than are kept; any releases with any
migration lists, not necessarily growing ones).  The inductive invariant says
what `inspect` has read is still so (`Inspected`: nobody else writes the file
during a boot), that past the first boot the tables show exactly the migrations
up to the schema version (`Exact`), that what was run is part of the schema
(`Recorded`), and that until the row tells the mode the tables do, and then the
boot has read it (`ModeKept`).  `Covered` carries `WayBack`: an upgrade that is past its
snapshot has a whole one among the last `attempts` files, which is why it
survives pruning as long as `attempts` does not exceed what is kept; and it says
so already before the schema moves.  `BootShrinks` and `NeverFails` are what
`BootsEnd` rests on: the stages left plus the migrations still lacking go down
with every step, and the row that the last step needs is always there.

Vault (assumption `VaultAssumption`: entries and categories have different ids,
as the code draws UUIDs; only `DeletedForGood` needs it).  A request that is about
to write holds a copy made by the account it acts for, and a category that this account made;
who made a row never changes, while its owner may vanish.  So whatever was
removed since, the write restores a row of its maker or is refused by a foreign
key.

HashSlots (assumption `HashSlotsAssumption`: the configured number is a natural
one; any set of goroutines).  The slots are counted through those that hold them:
`holders` is finite, has the requests at a hash as its members, and is full while
anyone is queued; the queue holds those that wait once each.  The decoy is in the
making exactly while one login with an unknown name holds or wants a slot for it.
`SomebodyMoves`, which `EveryHashAnswered` rests on, follows: those in the queue
wait for requests that hash, those at the once for its maker, and there are at
least two slots.

Keys (assumption `KeysAssumption`: `MaxPasswords` is a natural number).  The invariant says what a
device's copy and knowledge prove about the row as long as nothing outdated was
written: a device that knows the current password and a key knows the row's key,
and an upload in flight was admitted on a row without one.

Only model-checked: the two liveness properties `BootsEnd` and
`EveryHashAnswered`, because fairness needs `ENABLED`, which is out of the
prover's reach; their safety halves are proved as said above.  The violated
runs are counterexamples and have nothing to prove.  No module has a recursive
definition.

## Not modelled

Argon2, HMAC, token generation, JSON parsing and validation messages, logo
decoding, CORS and security headers, environment parsing, the version endpoint,
the theme, the user name and logging: pure computations, single assignments or
I/O without shared state.  Reading handlers change nothing and are modelled only
where a later write rests on what they showed (`ListMemberships`, `Me`, the
paged log).  Putting a snapshot back is done by hand with the server stopped and
has no code.  GORM and SQLite are external: a statement is atomic, a transaction
is one step, a foreign key cascades within the statement that triggers it.

## Plan

1. Done: UserAdmin, RateLimit with TokenBucket, Instance, Sessions, SharedVault.
2. Done: Boot, HashSlots, Keys, Vault, OrgSettings, AuditLog.
3. Done: proofs of every invariant and action property the runs check, in
   AdminProofs (UserAdmin, OrgSettings, AuditLog), RateLimitProofs,
   InstanceProofs, SharedVaultProofs, SessionsProofs, BootProofs, VaultProofs and
   AccountProofs (HashSlots, Keys and their composition with Vault).
4. Left: promises for the hazards without a property, each of which is a gap
   that the code leaves open; then what Instance, UserAdmin and Boot share -
   that `Restart` there is implemented by a boot here - as a refinement.

Composition: Instance takes over registration and self-deletion from UserAdmin
at the level of modes; Sessions takes suspension and removal from UserAdmin's
statements, SharedVault role changes and removal; Boot is what `Restart` of
Instance and UserAdmin stand for, in full and over files of other releases.
