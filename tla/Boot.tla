--------------------------------- MODULE Boot ---------------------------------
(***************************************************************************)
(* The boot of the server over a database file that outlives it: main,     *)
(* db.Connect with its look at the file and the pre-upgrade snapshot,      *)
(* appmode.New, EnsureServerSecret, MigrateOrg and RunMigrations.          *)
(* Boots are of any release, in any order; a boot ends anywhere, by a      *)
(* fatal error or because the process is stopped, and what it has written  *)
(* by then stays.  Errors the code drops are alternatives of the steps.    *)
(*                                                                         *)
(* A release is the length of its migration list, Known[r], and its place   *)
(* in time; 0 is a release older than the app_version column.  Accounts    *)
(* and their promotion by a boot are part of UserAdmin and Instance.       *)
(***************************************************************************)
EXTENDS Naturals, Sequences

CONSTANTS
    Releases,     \* the releases, 1..n in the order they came out
    Known,        \* Known[r]: how many migrations release r knows
    BackupsKept,  \* backupsKept
    MaxBackups,   \* bound: the files ever found in the backup directory
    Secrets,      \* the server secrets that are ever issued
    NoSecret      \* the empty server_secret

ASSUME BootAssumption ==
    /\ Releases \subseteq Nat \ {0}
    /\ Known \in [Releases -> Nat]
    /\ BackupsKept \in Nat \ {0} /\ MaxBackups \in Nat /\ MaxBackups > BackupsKept
    /\ Secrets # {} /\ NoSecret \notin Secrets

VARIABLES
    file,       \* the database: its tables, app_state and what is in effect
    backups,    \* the backup directory, oldest first
    run,        \* the process: how far its boot is, and what it has read
    attempts,   \* history: snapshots begun since a boot was last completed
    uncovered,  \* history: since then a boot went without a snapshot
    chosen,     \* history: the mode the instance was last given
    ran,        \* history: the migrations that have been run
    cut,        \* history: the boot that created the tables was cut short
    blind,      \* history: inspect has misread a file
    misread     \* history: appmode.New has misread the mode, in this boot or in one
                \* before it that has stored what it made of it

vars == <<file, backups, run, attempts, uncovered, chosen, ran, cut, blind, misread>>
upgrade == <<attempts, uncovered>>
flaws == <<ran, cut, blind, misread>>

Versions == Releases \cup {0}
KnownBy(v) == IF v \in Releases THEN Known[v] ELSE 0
Steps == Nat \ {0}
Modes == {"personal", "organization"}

\* tables: none, the accounts but no app_state, or all of the core tables.
\* effect: the migrations whose result the tables show, by having been run or
\* because the tables were created that way.
File == [tables : {"none", "user", "all"}, org : BOOLEAN, row : BOOLEAN,
         mode : Modes, secret : Secrets \cup {NoSecret},
         version : Versions, schema : Nat, effect : SUBSET Steps]

Blank == [tables |-> "none", org |-> FALSE, row |-> FALSE, mode |-> "personal",
          secret |-> NoSecret, version |-> 0, schema |-> 0, effect |-> {}]

\* Databases of the releases before this feature: before app_state, when the
\* organization's table was all that told the mode, and after.
Older(f) ==
    \/ \E o \in BOOLEAN : f = [Blank EXCEPT !.tables = "user", !.org = o]
    \/ \E o \in BOOLEAN, m \in Modes, s \in Secrets \cup {NoSecret} :
        /\ m = "organization" => o
        /\ f = [Blank EXCEPT !.tables = "all", !.row = TRUE, !.org = o, !.mode = m, !.secret = s]

\* A file in the backup directory: the release it is named after, and whether
\* that release can open it: it is whole, and at a schema the release knows.
Snapshot == [version : Versions, opens : BOOLEAN]

Stages == {"inspect", "snapshot", "user", "rest", "mode", "secret", "org", "migrate"}
Ended == {"down", "refused", "failed"}
Run == [pc : Stages \cup Ended \cup {"serving"}, release : Versions,
        existing : BOOLEAN, version : Versions, schema : Nat, mode : Modes]

Fresh(r) == [pc |-> "inspect", release |-> r, existing |-> FALSE,
             version |-> 0, schema |-> 0, mode |-> "personal"]
Over(pc) == [Fresh(0) EXCEPT !.pc = pc]

ModeOf(f) == IF f.row THEN f.mode ELSE IF f.org THEN "organization" ELSE "personal"

Init ==
    /\ file = Blank \/ Older(file)
    /\ backups = <<>>
    /\ run = Over("down")
    /\ attempts = 0
    /\ uncovered = FALSE
    /\ chosen = ModeOf(file)
    /\ ran = {}
    /\ cut = FALSE
    /\ blind = FALSE
    /\ misread = FALSE

At(pc) == run.pc = pc
Goto(pc) == run' = [run EXCEPT !.pc = pc]

\* Bound: one misreading at a time.
MayMisread == ~blind /\ ~misread

\* The operator starts a release.
Start ==
    /\ run.pc \in Ended
    /\ \E r \in Releases : run' = Fresh(r)
    /\ misread' = (misread /\ ModeOf(file) # chosen)
    /\ UNCHANGED <<file, backups, upgrade, chosen, ran, cut, blind>>

-----------------------------------------------------------------------------
(* Connect *)

\* What inspect makes of the file; an error reads as no table, as no columns.
Readings == [existing : {file.tables # "none", FALSE},
             stamp : {<<file.version, file.schema>>, <<0, 0>>}]
Misread(r) == r.existing # (file.tables # "none") \/ r.stamp # <<file.version, file.schema>>

\* Faulty variant: the guard compares releases, not schemas.
InspectByRelease ==
    /\ At("inspect")
    /\ LET due == file.tables # "none" /\ file.version # run.release
       IN run' = IF file.version > run.release THEN Over("refused")
                ELSE [run EXCEPT !.pc = IF due THEN "snapshot" ELSE "user",
                             !.existing = file.tables # "none",
                             !.version = file.version, !.schema = file.schema]
    /\ UNCHANGED <<file, backups, upgrade, chosen, flaws>>

\* inspect, guardSchemaVersion and whether a snapshot is due: the database is
\* known, another release was the last to run, and UPGRADE_BACKUPS is on.
Inspect ==
    /\ At("inspect")
    /\ \E r \in Readings, on \in BOOLEAN :
        LET due == r.existing /\ r.stamp[1] # run.release
        IN /\ Misread(r) => MayMisread
           /\ blind' = (blind \/ Misread(r))
           /\ IF r.stamp[2] > Known[run.release]
              THEN run' = Over("refused") /\ UNCHANGED uncovered
              ELSE /\ run' = [run EXCEPT !.pc = IF on /\ due THEN "snapshot" ELSE "user",
                                         !.existing = r.existing, !.version = r.stamp[1],
                                         !.schema = r.stamp[2]]
                   /\ uncovered' = (uncovered \/ (due /\ ~on))
    /\ UNCHANGED <<file, backups, attempts, chosen, ran, cut, misread>>

Attempt == attempts' = IF attempts > BackupsKept THEN attempts ELSE attempts + 1

\* Faulty variant: the files sort in the wrong direction.
PrunedNewest(b) == IF Len(b) > BackupsKept THEN SubSeq(b, 1, BackupsKept) ELSE b

\* pruneBackups: all but the newest are removed; an error leaves them all.
Pruned(b) == IF Len(b) > BackupsKept THEN SubSeq(b, Len(b) - BackupsKept + 1, Len(b)) ELSE b

TakeSnapshot ==
    LET taken == Append(backups, [version |-> run.version,
                                  opens |-> file.schema <= KnownBy(run.version)])
    IN /\ At("snapshot")
       /\ backups' = Pruned(taken) \/ (backups' = taken /\ Len(taken) <= MaxBackups)
       /\ Attempt
       /\ run' = [run EXCEPT !.pc = "user", !.version = 0]
       /\ UNCHANGED <<file, uncovered, chosen, flaws>>

\* What AutoMigrate makes of the tables it finds: it adds what this release's
\* models have and they lack, which takes back what later releases' migrations
\* had dropped, as far as it is about the tables at hand.
Extended(f) ==
    {[f EXCEPT !.effect = @ \ undone] :
        undone \in SUBSET {step \in f.effect : step > Known[run.release]}}

\* Missing tables are created as this release's models have them.
MigrateUser ==
    /\ At("user")
    /\ IF file.tables = "none"
       THEN file' = [file EXCEPT !.tables = "user", !.effect = 1..Known[run.release]]
       ELSE file' \in Extended(file)
    /\ run' = [run EXCEPT !.pc = "rest", !.version = 0]
    /\ UNCHANGED <<backups, upgrade, chosen, flaws>>

\* Faulty variant: the singleton row is seeded together with its table.
MigrateRestAndSeed ==
    /\ At("rest")
    /\ \E f \in Extended(file) :
        file' = [f EXCEPT !.tables = "all", !.row = TRUE]
    /\ Goto("mode")
    /\ UNCHANGED <<backups, upgrade, chosen, flaws>>

MigrateRest ==
    /\ At("rest")
    /\ \E f \in Extended(file) : file' = [f EXCEPT !.tables = "all"]
    /\ Goto("mode")
    /\ UNCHANGED <<backups, upgrade, chosen, flaws>>

-----------------------------------------------------------------------------
(* appmode.New, EnsureServerSecret and MigrateOrg *)

\* Faulty variant: the whole struct is saved.
PersistedWhole(f, m) ==
    [f EXCEPT !.row = TRUE, !.mode = m, !.secret = NoSecret, !.version = 0, !.schema = 0]

\* The mode alone is written; a missing row is created with it.
Persisted(f, m) == [f EXCEPT !.row = TRUE, !.mode = m]

\* A row that cannot be read counts as a missing one: the organization's table
\* then decides, and an error of the look for it, or of persist, is dropped.
LoadMode ==
    /\ At("mode")
    /\ \/ /\ file.row
          /\ run' = [run EXCEPT !.pc = "secret", !.mode = file.mode]
          /\ UNCHANGED <<file, misread>>
       \/ /\ file.org
          /\ run' = [run EXCEPT !.pc = "secret", !.mode = "organization"]
          /\ file' = Persisted(file, "organization") \/ UNCHANGED file
          /\ file.row => MayMisread
          /\ misread' = (misread \/ file.row)
       \/ /\ run' = [run EXCEPT !.pc = "secret", !.mode = "personal"]
          /\ UNCHANGED file
          /\ file.row \/ file.org => MayMisread
          /\ misread' = (misread \/ file.row \/ file.org)
    /\ UNCHANGED <<backups, upgrade, chosen, ran, cut, blind>>

\* Faulty variant: an UPDATE instead of seeding the missing row.
EnsureSecretByUpdate ==
    /\ At("secret")
    /\ \E s \in Secrets :
        file' = IF file.row /\ file.secret = NoSecret THEN [file EXCEPT !.secret = s] ELSE file
    /\ Goto(IF run.mode = "organization" THEN "org" ELSE "migrate")
    /\ UNCHANGED <<backups, upgrade, chosen, flaws>>

\* Any error other than a missing row is fatal.
EnsureSecret ==
    /\ At("secret")
    /\ \E s \in Secrets :
        file' = IF ~file.row THEN [Persisted(file, run.mode) EXCEPT !.secret = s]
                ELSE IF file.secret = NoSecret THEN [file EXCEPT !.secret = s]
                ELSE file
    /\ Goto(IF run.mode = "organization" THEN "org" ELSE "migrate")
    /\ UNCHANGED <<backups, upgrade, chosen, flaws>>

MigrateOrg ==
    /\ At("org")
    /\ \E f \in Extended(file) : file' = [f EXCEPT !.org = TRUE]
    /\ Goto("migrate")
    /\ UNCHANGED <<backups, upgrade, chosen, flaws>>

-----------------------------------------------------------------------------
(* RunMigrations *)

\* Faulty variant: a brand-new database runs the historical steps as well.
PendingAlways == run.schema < Known[run.release]

\* The migrations that the database, as inspect saw it, still lacks.
Pending == run.existing /\ run.schema < Known[run.release]

\* Faulty variant: the version is bumped to head with the first step.
MigrateToHead ==
    /\ At("migrate") /\ Pending
    /\ file' = [file EXCEPT !.schema = Known[run.release], !.effect = @ \cup {run.schema + 1}]
    /\ run' = [run EXCEPT !.schema = @ + 1]
    /\ ran' = ran \cup {run.schema + 1}
    /\ UNCHANGED <<backups, upgrade, chosen, cut, blind, misread>>

\* One migration and the version bump, in one transaction.
Migrate ==
    /\ At("migrate") /\ Pending
    /\ file' = [file EXCEPT !.schema = run.schema + 1, !.effect = @ \cup {run.schema + 1}]
    /\ run' = [run EXCEPT !.schema = @ + 1]
    /\ ran' = ran \cup {run.schema + 1}
    /\ UNCHANGED <<backups, upgrade, chosen, cut, blind, misread>>

\* The release signs the database, which must have the row, and serves in the
\* mode that has been loaded.
Stamp ==
    /\ At("migrate") /\ ~Pending
    /\ IF file.row
       THEN /\ file' = [file EXCEPT !.schema = Known[run.release], !.version = run.release]
            /\ run' = [Fresh(run.release) EXCEPT !.pc = "serving", !.mode = run.mode]
            /\ attempts' = 0
            /\ uncovered' = FALSE
       ELSE /\ run' = Over("failed")
            /\ UNCHANGED <<file, upgrade>>
    /\ UNCHANGED <<backups, chosen, flaws>>

-----------------------------------------------------------------------------
\* While it serves, the instance is switched to an organization, by AutoMigrate
\* as well, and back; a switch that stops half way may leave a personal instance
\* with the tables.
SwitchMode ==
    /\ At("serving")
    /\ \E m \in Modes, org \in BOOLEAN, f \in Extended(file) :
        /\ m = "organization" => org
        /\ file' = [f EXCEPT !.mode = m, !.org = org]
        /\ run' = [run EXCEPT !.mode = m]
        /\ chosen' = m
    /\ UNCHANGED <<backups, upgrade, flaws>>

\* The process ends, by a failing statement that is fatal or from outside;
\* in the middle of VACUUM INTO it leaves a file that is no database.
Stop ==
    /\ run.pc \notin Ended
    /\ run' = Over("down")
    /\ \/ UNCHANGED <<backups, attempts>>
       \/ /\ At("snapshot") /\ Len(backups) < MaxBackups
          /\ backups' = Append(backups, [version |-> run.version, opens |-> FALSE])
          /\ Attempt
    /\ cut' = (cut \/ (run.pc \in {"rest", "mode", "secret", "org", "migrate"} /\ ~run.existing))
    /\ UNCHANGED <<file, uncovered, chosen, ran, blind, misread>>

BootStep ==
    \/ Inspect \/ TakeSnapshot \/ MigrateUser \/ MigrateRest
    \/ LoadMode \/ EnsureSecret \/ MigrateOrg \/ Migrate \/ Stamp

Next == Start \/ BootStep \/ SwitchMode \/ Stop

\* main runs its steps one after the other and waits for nobody.
Fairness == WF_vars(BootStep)

Spec == Init /\ [][Next]_vars /\ Fairness

-----------------------------------------------------------------------------
\* Types; what needs the row has it, and a boot that is past its first steps
\* has its tables.
TypeOK ==
    /\ file \in File
    /\ ~file.row => file.secret = NoSecret /\ file.version = 0 /\ file.schema = 0
    /\ file.row => file.tables = "all"
    /\ backups \in Seq(Snapshot) /\ Len(backups) <= MaxBackups
    /\ run \in Run
    /\ run.pc = "rest" => file.tables # "none"
    /\ run.pc \in {"mode", "secret", "org", "migrate", "serving"} => file.tables = "all"
    /\ run.pc \in {"org", "migrate", "serving"} => file.row
    /\ attempts \in 0..(BackupsKept + 1)
    /\ uncovered \in BOOLEAN
    /\ chosen \in Modes
    /\ ran \subseteq Steps
    /\ cut \in BOOLEAN /\ blind \in BOOLEAN /\ misread \in BOOLEAN

\* models/appstate.go:18, schema_version is how far the list has been applied:
\* whatever boots of whatever releases were cut short where, the database shows
\* the result of every migration up to it, unless inspect once misread the file.
SchemaIsApplied == ~blind => 1..file.schema \subseteq file.effect

\* config.go:23, README.md:64: the snapshot is the way back from an upgrade.
\* Once the schema has moved past the release that last ran, a whole snapshot
\* that this release can open is there - unless the upgrade began more
\* snapshots than are kept, ran with UPGRADE_BACKUPS off, or misread the file.
WayBack ==
    file.schema > KnownBy(file.version) /\ attempts <= BackupsKept /\ ~uncovered /\ ~blind =>
        \E i \in DOMAIN backups :
            backups[i].version = file.version /\ backups[i].opens

\* db.go:98-99, main.go:28: an instance serves in the mode it was last given, one
\* from before app_state in the one its tables tell, however many boots were cut
\* short on the way and whatever releases they were of; only a boot that could
\* not read the mode, or the ones after it if it has stored another, may not.
ModeSurvives == At("serving") /\ ~misread => run.mode = chosen

\* db.go:65-68: no release writes to a database whose schema is beyond it, by
\* AutoMigrate, by its migrations or by its stamp; only a boot that has read
\* another schema version than the stored one gets that far.
OlderStep ==
    file' # file => file.schema <= Known[run.release] \/ run.schema # file.schema
OlderNeverWrites == [][OlderStep]_vars

\* CONTRIBUTING.md:28, README.md:62: a database migrated by a newer release
\* refuses to boot on an older binary rather than let it write.
NewerStep == file' # file => file.schema <= Known[run.release]
NewerIsRefused == [][NewerStep]_vars

\* CONTRIBUTING.md:26, migrations.go:40-42: no migration is ever run a second
\* time, and none runs on tables that were created with its result, but for
\* those of a first boot that was cut short; a misread schema version excepts
\* both.
MigrationStep ==
    At("migrate") /\ Pending /\ file' # file /\ ~blind =>
        /\ run.schema + 1 \notin ran
        /\ run.schema + 1 \in file.effect => cut
MigratesOnce == [][MigrationStep]_vars

\* CONTRIBUTING.md:28, migrations.go:40-42: historical steps never run against a
\* fresh install, whose tables were built from the models they lead to.
HistoryStep ==
    At("migrate") /\ Pending /\ file' # file /\ ~blind => run.schema + 1 \notin file.effect
HistoryStaysPast == [][HistoryStep]_vars

\* db.go:203: the server secret, once stored, survives every boot.
SecretStep == file.secret # NoSecret => file'.secret = file.secret
SecretSurvives == [][SecretStep]_vars

\* main.go:22-34: a boot that nothing cuts short serves, or refuses a database
\* of a newer release; the order of its steps never fails it.
BootsEnd == At("inspect") ~> run.pc \in {"serving", "refused", "down"}
=============================================================================
