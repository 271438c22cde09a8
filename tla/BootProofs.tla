------------------------------ MODULE BootProofs ------------------------------
(***************************************************************************)
(* Proofs about Boot, for any releases with any migration lists, any       *)
(* number of snapshots kept, and boots that end anywhere.                  *)
(***************************************************************************)
EXTENDS Boot, TLAPS

\* The stages behind inspect, and those behind the first CREATE TABLE.
Built == {"rest", "mode", "secret", "org", "migrate"}
Inside == {"snapshot", "user"} \cup Built

\* What inspect has read of the file is still so: nobody else writes it.
Inspected ==
    /\ run.pc \in Stages \cup {"serving"} => run.release \in Releases
    /\ run.pc \in Inside =>
           run.schema <= Known[run.release] /\ (~blind => run.schema = file.schema)
    /\ run.pc \in Inside /\ run.existing => file.tables # "none"
    /\ run.pc \in {"snapshot", "user"} /\ ~run.existing /\ ~blind => file.tables = "none"
    /\ run.pc \in Built /\ ~run.existing /\ ~blind => file.effect = 1..Known[run.release]
    /\ run.pc = "serving" => file.schema = Known[run.release]

\* Past its first boot, the tables show the migrations up to schema_version alone.
Exact ==
    ~cut /\ ~blind =>
        file.effect = 1..file.schema \/ (run.pc \in Built /\ ~run.existing)

\* What has been run is part of the schema.
Recorded == ~blind => ran \subseteq 1..file.schema

\* Until the row tells the mode, the tables do; then a boot has read it.
ModeKept ==
    ~misread =>
        /\ ModeOf(file) = chosen
        /\ run.pc \in {"secret", "org", "migrate", "serving"} => run.mode = chosen

Inv == TypeOK /\ Inspected /\ SchemaIsApplied /\ Exact /\ Recorded /\ ModeKept

-----------------------------------------------------------------------------
\* The fields of the database and of the process.
LEMMA Fields ==
    ASSUME TypeOK
    PROVE /\ file \in File /\ run \in Run
          /\ file.schema \in Nat /\ run.schema \in Nat
          /\ file.tables \in {"none", "user", "all"} /\ file.effect \subseteq Steps
          /\ file.secret \in Secrets \cup {NoSecret} /\ file.mode \in Modes /\ run.mode \in Modes
          /\ file.version \in Versions /\ run.version \in Versions /\ run.release \in Versions
          /\ file.org \in BOOLEAN /\ file.row \in BOOLEAN /\ run.existing \in BOOLEAN
          /\ run.pc \in Stages \cup Ended \cup {"serving"}
  BY DEF TypeOK, File, Run

\* What a release knows is a natural number.
LEMMA KnownType ==
    \A r \in Releases : Known[r] \in Nat /\ r \in Versions /\ r \in Nat \ {0}
  BY BootAssumption DEF Versions

\* A boot that is over, or begins, is a process.
LEMMA RunType ==
    /\ \A pc \in Ended : Over(pc) \in Run /\ Over(pc).pc = pc
    /\ \A r \in Releases : /\ Fresh(r) \in Run /\ Fresh(r).pc = "inspect"
                           /\ Fresh(r).release = r
    /\ \A r \in Releases, m \in Modes :
           LET serving == [Fresh(r) EXCEPT !.pc = "serving", !.mode = m]
           IN /\ serving \in Run /\ serving.pc = "serving"
              /\ serving.release = r /\ serving.mode = m
  <1>1. 0 \in Versions /\ \A r \in Releases : r \in Versions
    BY DEF Versions
  <1>2. "personal" \in Modes
    BY DEF Modes
  <1>3. \A v \in Versions : Fresh(v) \in Run
    BY <1>1, <1>2 DEF Fresh, Run, Stages
  <1> QED
    BY <1>1, <1>3 DEF Over, Fresh, Run, Ended

-----------------------------------------------------------------------------
(* The steps *)

\* AutoMigrate touches nothing but the effects, of which it takes some back.
LEMMA ExtendedKeeps ==
    ASSUME file \in File, NEW f \in Extended(file)
    PROVE /\ f \in File /\ f.effect \subseteq file.effect
          /\ f.tables = file.tables /\ f.org = file.org /\ f.row = file.row
          /\ f.mode = file.mode /\ f.secret = file.secret
          /\ f.version = file.version /\ f.schema = file.schema
  BY DEF Extended, File

\* It takes back nothing that its release knows.
LEMMA ExtendedShows ==
    ASSUME file \in File, run.release \in Releases, NEW f \in Extended(file),
           NEW n \in Nat, n <= Known[run.release]
    PROVE /\ 1..n \subseteq file.effect => 1..n \subseteq f.effect
          /\ file.effect = 1..n => f.effect = 1..n
  <1>1. Known[run.release] \in Nat
    BY KnownType
  <1>2. PICK undone \in SUBSET {step \in file.effect : step > Known[run.release]} :
            f = [file EXCEPT !.effect = file.effect \ undone]
    BY DEF Extended
  <1>3. f.effect = file.effect \ undone
    BY <1>2 DEF File
  <1>4. \A i \in 1..n : i \notin undone
    BY <1>1, <1>2
  <1> QED
    BY <1>3, <1>4

\* A database of any age, before any boot.
LEMMA InitKeeps == Init => Inv
  <1> SUFFICES ASSUME Init PROVE Inv
    OBVIOUS
  <1>1. Blank \in File /\ Blank.schema = 0 /\ Blank.effect = {} /\ Blank.version = 0
        /\ Blank.row = FALSE /\ Blank.secret = NoSecret /\ Blank.tables = "none"
    BY DEF Blank, File, Modes, Versions, Steps
  <1> DEFINE Old(f) == /\ f \in File /\ f.schema = 0 /\ f.effect = {} /\ f.version = 0
                       /\ ~f.row => f.secret = NoSecret
                       /\ f.row => f.tables = "all"
  <1>2. Old(file)
    <2>1. CASE file = Blank
      BY <2>1, <1>1
    <2>2. ASSUME NEW o \in BOOLEAN, file = [Blank EXCEPT !.tables = "user", !.org = o]
          PROVE Old(file)
      BY <2>2, <1>1 DEF File, Blank, Modes, Versions, Steps
    <2>3. ASSUME NEW o \in BOOLEAN, NEW m \in Modes, NEW s \in Secrets \cup {NoSecret},
                 file = [Blank EXCEPT !.tables = "all", !.row = TRUE, !.org = o, !.mode = m,
                                      !.secret = s]
          PROVE Old(file)
      BY <2>3, <1>1 DEF File, Blank, Versions, Steps
    <2>4. \/ file = Blank
          \/ \E o \in BOOLEAN : file = [Blank EXCEPT !.tables = "user", !.org = o]
          \/ \E o \in BOOLEAN, m \in Modes, s \in Secrets \cup {NoSecret} :
                file = [Blank EXCEPT !.tables = "all", !.row = TRUE, !.org = o, !.mode = m,
                                     !.secret = s]
      BY DEF Init, Older
    <2> HIDE DEF Old
    <2> QED
      BY <2>1, <2>2, <2>3, <2>4
  <1>3. run \in Run /\ run.pc = "down"
    BY RunType DEF Init, Ended
  <1>4. TypeOK
    <2>1. backups \in Seq(Snapshot) /\ Len(backups) = 0
      BY DEF Init
    <2>2. attempts \in 0..(BackupsKept + 1) /\ 0 <= MaxBackups
      BY BootAssumption DEF Init
    <2>3. chosen \in Modes
      BY <1>2 DEF Init, ModeOf, File, Modes
    <2> QED
      BY <1>2, <1>3, <2>1, <2>2, <2>3 DEF Init, TypeOK
  <1>5. Inspected
    BY <1>3 DEF Inspected, Stages, Inside, Built
  <1>6. 1..0 = {}
    OBVIOUS
  <1>7. SchemaIsApplied /\ Exact /\ Recorded
    BY <1>2, <1>6 DEF Init, SchemaIsApplied, Exact, Recorded
  <1>8. ModeKept
    BY <1>3 DEF Init, ModeKept, At
  <1> QED
    BY <1>4, <1>5, <1>7, <1>8 DEF Inv

\* Steps that end the process, and the start of the next one.
LEMMA EdgesKeep ==
    ASSUME Inv, Start \/ Stop
    PROVE Inv'
  <1> USE Fields
  <1>1. /\ run' \in Run
        /\ run'.pc \in {"inspect", "down"}
        /\ run'.pc = "inspect" => run'.release \in Releases
    <2>1. CASE Start
      <3>1. PICK r \in Releases : run' = Fresh(r)
        BY <2>1 DEF Start
      <3> QED
        BY <3>1, RunType
    <2>2. CASE Stop
      <3>1. run' = Over("down") /\ "down" \in Ended
        BY <2>2 DEF Stop, Ended
      <3> QED
        BY <3>1, RunType
    <2> QED
      BY <2>1, <2>2
  <1>2. UNCHANGED <<file, uncovered, chosen, ran, blind>>
    BY DEF Start, Stop, upgrade, flaws
  <1>a. misread' \in BOOLEAN /\ (~misread' => ~misread \/ ModeOf(file) = chosen)
    BY DEF Start, Stop, Inv, TypeOK
  <1>3. /\ backups' \in Seq(Snapshot) /\ Len(backups') <= MaxBackups
        /\ attempts' \in 0..(BackupsKept + 1)
    <2>1. CASE UNCHANGED <<backups, attempts>>
      BY <2>1 DEF Inv, TypeOK
    <2>2. CASE /\ Len(backups) < MaxBackups
               /\ backups' = Append(backups, [version |-> run.version, opens |-> FALSE])
               /\ Attempt
      <3>1. [version |-> run.version, opens |-> FALSE] \in Snapshot
        BY DEF Inv, Snapshot
      <3> QED
        BY <2>2, <3>1, BootAssumption DEF Inv, TypeOK, Attempt
    <2> QED
      BY <2>1, <2>2 DEF Start, Stop, upgrade
  <1>4. cut' \in BOOLEAN /\ (cut => cut')
    BY DEF Start, Stop, Inv, TypeOK, flaws
  <1>5. TypeOK'
    BY <1>1, <1>2, <1>a, <1>3, <1>4 DEF Inv, TypeOK
  <1>6. Inspected'
    BY <1>1, <1>2 DEF Inv, Inspected, Stages, Inside, Built
  <1>7. Exact'
    <2>1. run.pc \in Built /\ ~run.existing => cut'
      BY DEF Start, Stop, Built, Ended
    <2> QED
      BY <1>2, <1>4, <2>1 DEF Inv, Exact
  <1>8. SchemaIsApplied' /\ Recorded' /\ ModeKept'
    BY <1>1, <1>2, <1>a DEF Inv, SchemaIsApplied, Recorded, ModeKept, ModeOf
  <1> QED
    BY <1>5, <1>6, <1>7, <1>8 DEF Inv

\* inspect: what it has read is so, or it has misread the file.
LEMMA InspectKeeps ==
    ASSUME Inv, Inspect
    PROVE Inv'
  <1> USE Fields
  <1>1. PICK r \in Readings, on \in BOOLEAN :
            LET due == r.existing /\ r.stamp[1] # run.release
            IN /\ blind' = (blind \/ Misread(r))
               /\ IF r.stamp[2] > Known[run.release]
                  THEN run' = Over("refused") /\ UNCHANGED uncovered
                  ELSE /\ run' = [run EXCEPT !.pc = IF on /\ due THEN "snapshot" ELSE "user",
                                             !.existing = r.existing, !.version = r.stamp[1],
                                             !.schema = r.stamp[2]]
                       /\ uncovered' = (uncovered \/ (due /\ ~on))
    BY DEF Inspect
  <1>2. run.pc = "inspect" /\ UNCHANGED <<file, backups, attempts, chosen, ran, cut, misread>>
    BY DEF Inspect, At
  <1>3. /\ r.existing \in {file.tables # "none", FALSE}
        /\ r.stamp \in {<<file.version, file.schema>>, <<0, 0>>}
    BY DEF Readings
  <1>4. /\ r.stamp[1] \in Versions /\ r.stamp[2] \in Nat /\ r.existing \in BOOLEAN
        /\ ~Misread(r) => r.existing = (file.tables # "none") /\ r.stamp[2] = file.schema
        /\ r.existing => file.tables # "none"
    <2>1. r.stamp = <<file.version, file.schema>> \/ r.stamp = <<0, 0>>
      BY <1>3
    <2>2. r.stamp[1] \in {file.version, 0} /\ r.stamp[2] \in {file.schema, 0}
      BY <2>1
    <2>3. ~Misread(r) => r.existing = (file.tables # "none") /\ r.stamp[2] = file.schema
      BY DEF Misread
    <2>4. (file.tables # "none") \in BOOLEAN
      OBVIOUS
    <2>5. r.existing \in BOOLEAN
      BY <1>3, <2>4, Zenon
    <2>6. r.stamp[1] \in Versions /\ r.stamp[2] \in Nat
      BY <2>2 DEF Inv, Versions
    <2>7. r.existing => file.tables # "none"
      BY <1>3, <2>4, Zenon
    <2> QED
      BY <2>3, <2>5, <2>6, <2>7
  <1>5. run.release \in Releases /\ Known[run.release] \in Nat
    BY <1>2, KnownType DEF Inv, Inspected, Stages
  <1>6. blind' \in BOOLEAN /\ (~blind' => ~blind /\ ~Misread(r))
    BY <1>1 DEF Inv, TypeOK
  <1>7. CASE r.stamp[2] > Known[run.release]
    <2>1. run' = Over("refused") /\ UNCHANGED uncovered
      BY <1>1, <1>7
    <2>2. run' \in Run /\ run'.pc = "refused"
      BY <2>1, RunType DEF Ended
    <2>3. TypeOK'
      BY <1>2, <1>6, <2>1, <2>2 DEF Inv, TypeOK
    <2>4. Inspected' /\ Exact'
      BY <1>2, <1>6, <2>2 DEF Inv, Inspected, Exact, Stages, Inside, Built
    <2>5. SchemaIsApplied' /\ Recorded' /\ ModeKept'
      BY <1>2, <1>6, <2>2 DEF Inv, SchemaIsApplied, Recorded, ModeKept, ModeOf
    <2> QED
      BY <2>3, <2>4, <2>5 DEF Inv
  <1>8. CASE r.stamp[2] <= Known[run.release]
    <2>1. PICK pc \in {"snapshot", "user"} :
              run' = [run EXCEPT !.pc = pc, !.existing = r.existing, !.version = r.stamp[1],
                                 !.schema = r.stamp[2]]
      <3>1. ~(r.stamp[2] > Known[run.release])
        BY <1>4, <1>5, <1>8
      <3>2. PICK pc : /\ pc = IF on /\ r.existing /\ r.stamp[1] # run.release
                             THEN "snapshot" ELSE "user"
                      /\ run' = [run EXCEPT !.pc = pc, !.existing = r.existing,
                                            !.version = r.stamp[1], !.schema = r.stamp[2]]
        BY <1>1, <3>1, Zenon
      <3> QED
        BY <3>2
    <2>2. /\ run'.pc = pc /\ run'.existing = r.existing /\ run'.schema = r.stamp[2]
          /\ run'.release = run.release
          /\ run' \in Run
      BY <2>1, <1>4 DEF Inv, Run, Stages
    <2>3. uncovered' \in BOOLEAN
      BY <1>1, <1>3, <1>4, <1>5, <1>8 DEF Inv, TypeOK
    <2>4. TypeOK'
      BY <1>2, <1>6, <2>2, <2>3 DEF Inv, TypeOK
    <2>5. Inspected'
      BY <1>2, <1>4, <1>5, <1>6, <1>8, <2>2 DEF Inspected, Inside, Built, Stages
    <2>6. Exact' /\ SchemaIsApplied' /\ Recorded' /\ ModeKept'
      BY <1>2, <1>6, <2>2 DEF Inv, Exact, SchemaIsApplied, Recorded, ModeKept, ModeOf, Built
    <2> QED
      BY <2>4, <2>5, <2>6 DEF Inv
  <1> QED
    BY <1>4, <1>5, <1>7, <1>8

\* A snapshot writes beside the database.
LEMMA SnapshotKeeps ==
    ASSUME Inv, TakeSnapshot
    PROVE Inv'
  <1> USE Fields
  <1> DEFINE s == [version |-> run.version, opens |-> file.schema <= KnownBy(run.version)]
             taken == Append(backups, s)
  <1>1. /\ run.pc = "snapshot"
        /\ backups' = Pruned(taken) \/ (backups' = taken /\ Len(taken) <= MaxBackups)
        /\ Attempt
        /\ run' = [run EXCEPT !.pc = "user", !.version = 0]
        /\ UNCHANGED <<file, uncovered, chosen, ran, cut, blind, misread>>
    BY DEF TakeSnapshot, At, flaws
  <1>2. /\ run'.pc = "user" /\ run'.release = run.release /\ run'.existing = run.existing
        /\ run'.schema = run.schema /\ run' \in Run
    BY <1>1 DEF Inv, Run, Stages, Versions
  <1>3. s \in Snapshot
    BY DEF Inv, Snapshot
  <1>4. backups \in Seq(Snapshot)
    BY DEF Inv, TypeOK
  <1>5. taken \in Seq(Snapshot) /\ Len(taken) = Len(backups) + 1 /\ Len(backups) \in Nat
    BY <1>3, <1>4
  <1>6. Pruned(taken) \in Seq(Snapshot) /\ Len(Pruned(taken)) <= BackupsKept
    <2> HIDE DEF taken
    <2>1. CASE Len(taken) > BackupsKept
      <3>1. Pruned(taken) = SubSeq(taken, Len(taken) - BackupsKept + 1, Len(taken))
        BY <2>1 DEF Pruned
      <3> QED
        BY <3>1, <2>1, <1>5, BootAssumption
    <2>2. CASE ~(Len(taken) > BackupsKept)
      BY <2>2, <1>5, BootAssumption DEF Pruned
    <2> QED
      BY <2>1, <2>2
  <1>7. backups' \in Seq(Snapshot) /\ Len(backups') <= MaxBackups
    <2> HIDE DEF taken
    <2> QED
      BY <1>1, <1>5, <1>6, BootAssumption
  <1>8. attempts' \in 0..(BackupsKept + 1)
    BY <1>1, BootAssumption DEF Attempt, Inv, TypeOK
  <1>9. TypeOK'
    BY <1>1, <1>2, <1>7, <1>8 DEF Inv, TypeOK
  <1>10. Inspected'
    BY <1>1, <1>2 DEF Inv, Inspected, Inside, Built, Stages
  <1>11. Exact' /\ SchemaIsApplied' /\ Recorded' /\ ModeKept'
    BY <1>1, <1>2 DEF Inv, Exact, SchemaIsApplied, Recorded, ModeKept, ModeOf, Built
  <1> QED
    BY <1>9, <1>10, <1>11 DEF Inv

\* A brand-new database gets its tables as this release has them.
LEMMA MigrateUserKeeps ==
    ASSUME Inv, MigrateUser
    PROVE Inv'
  <1> USE Fields
  <1> DEFINE made == [file EXCEPT !.tables = "user", !.effect = 1..Known[run.release]]
  <1>1. /\ run.pc = "user"
        /\ file.tables = "none" => file' = made
        /\ file.tables # "none" => file' \in Extended(file)
        /\ run' = [run EXCEPT !.pc = "rest", !.version = 0]
        /\ UNCHANGED <<backups, attempts, uncovered, chosen, ran, cut, blind, misread>>
    BY DEF MigrateUser, At, upgrade, flaws
  <1>2. /\ run'.pc = "rest" /\ run'.release = run.release /\ run'.existing = run.existing
        /\ run'.schema = run.schema /\ run' \in Run
    BY <1>1 DEF Inv, Run, Stages, Versions
  <1>3. run.release \in Releases /\ Known[run.release] \in Nat
    BY <1>1, KnownType DEF Inv, Inspected, Stages
  <1>4. 1..Known[run.release] \subseteq Steps
    BY <1>3 DEF Steps
  <1>5. /\ file' \in File
        /\ file'.schema = file.schema /\ file'.row = file.row /\ file'.org = file.org
        /\ file'.mode = file.mode /\ file'.secret = file.secret /\ file'.version = file.version
        /\ file'.tables = IF file.tables = "none" THEN "user" ELSE file.tables
    <2>1. CASE file.tables = "none"
      BY <2>1, <1>1, <1>4 DEF Inv, File
    <2>2. CASE file.tables # "none"
      BY <2>2, <1>1, ExtendedKeeps DEF Inv
    <2> QED
      BY <2>1, <2>2
  <1>6. CASE file.tables = "none"
    <2>1. file.schema = 0 /\ file'.effect = 1..Known[run.release]
      BY <1>1, <1>6, <1>4 DEF Inv, TypeOK, File
    <2>2. ~run.existing
      BY <1>1, <1>6 DEF Inv, Inspected, Inside
    <2>3. 1..0 = {}
      OBVIOUS
    <2> QED
      BY <1>1, <1>2, <1>5, <2>1, <2>2, <2>3 DEF Inv, Inspected, SchemaIsApplied, Exact, Recorded,
         ModeKept, ModeOf, TypeOK, Inside, Built, Stages
  <1>7. CASE file.tables # "none"
    <2>1. ~blind => /\ file.schema <= Known[run.release]
                    /\ 1..file.schema \subseteq file.effect
      BY <1>1 DEF Inv, Inspected, SchemaIsApplied, Inside
    <2>2. ASSUME ~blind
          PROVE /\ 1..file.schema \subseteq file'.effect
                /\ ~cut => file'.effect = 1..file.schema
      <3>1. ~cut => file.effect = 1..file.schema
        BY <1>1, <2>2 DEF Inv, Exact, Built
      <3>2. file' \in Extended(file) /\ file.schema \in Nat /\ file \in File
        BY <1>1, <1>7 DEF Inv
      <3> QED
        BY <1>3, <2>1, <2>2, <3>1, <3>2, ExtendedShows
    <2>3. run.existing \/ blind
      BY <1>1, <1>7 DEF Inv, Inspected
    <2> QED
      BY <1>1, <1>2, <1>5, <1>7, <2>2, <2>3 DEF Inv, Inspected, SchemaIsApplied, Exact, Recorded,
         ModeKept, ModeOf, TypeOK, Inside, Built, Stages
  <1> QED
    BY <1>6, <1>7

\* A file that keeps its schema, or is extended by AutoMigrate, and a process that
\* goes on behind the first tables keep what is said of the schema.
LEMMA SchemaKept ==
    ASSUME Inv, run.pc \in {"rest", "mode", "secret", "org"},
           run'.pc \in {"mode", "secret", "org", "migrate"},
           run'.release = run.release, run'.existing = run.existing, run'.schema = run.schema,
           NEW f \in Extended(file) \cup {file},
           file'.schema = file.schema, file'.effect = f.effect,
           file'.tables \in {file.tables, "all"}, UNCHANGED <<ran, cut, blind>>
    PROVE Inspected' /\ SchemaIsApplied' /\ Exact' /\ Recorded'
  <1>1. /\ file \in File /\ file.schema \in Nat /\ run.release \in Releases
        /\ Known[run.release] \in Nat
    BY Fields, KnownType DEF Inv, Inspected, Stages
  <1>2. ASSUME NEW n \in Nat, n <= Known[run.release]
        PROVE /\ 1..n \subseteq file.effect => 1..n \subseteq file'.effect
              /\ file.effect = 1..n => file'.effect = 1..n
    <2>1. CASE f = file
      BY <2>1
    <2>2. CASE f \in Extended(file)
      BY <1>1, <1>2, <2>2, ExtendedShows
    <2> QED
      BY <2>1, <2>2
  <1>3. ~blind => file.schema <= Known[run.release]
    BY DEF Inv, Inspected, Inside, Built
  <1>4. Inspected'
    <2>1. ~run.existing /\ ~blind => file'.effect = 1..Known[run.release]
      BY <1>1, <1>2 DEF Inv, Inspected, Built
    <2> QED
      BY <2>1 DEF Inv, Inspected, Inside, Built, Stages
  <1>5. SchemaIsApplied'
    BY <1>1, <1>2, <1>3 DEF Inv, SchemaIsApplied
  <1>6. Exact' /\ Recorded'
    BY <1>1, <1>2, <1>3 DEF Inv, Exact, Recorded, Built
  <1> QED
    BY <1>4, <1>5, <1>6

\* The other tables.
LEMMA MigrateRestKeeps ==
    ASSUME Inv, MigrateRest
    PROVE Inv'
  <1> USE Fields
  <1>1. PICK f \in Extended(file) :
          /\ run.pc = "rest" /\ file' = [f EXCEPT !.tables = "all"]
          /\ run' = [run EXCEPT !.pc = "mode"]
          /\ UNCHANGED <<backups, attempts, uncovered, chosen, ran, cut, blind, misread>>
    BY DEF MigrateRest, At, Goto, upgrade, flaws
  <1>2. /\ run'.pc = "mode" /\ run'.release = run.release /\ run'.existing = run.existing
        /\ run'.schema = run.schema /\ run' \in Run
    BY <1>1 DEF Inv, Run, Stages
  <1>3. run.release \in Releases
    BY <1>1 DEF Inv, Inspected, Stages
  <1>4. /\ file' \in File
        /\ file'.schema = file.schema /\ file'.row = file.row /\ file'.org = file.org
        /\ file'.mode = file.mode /\ file'.secret = file.secret /\ file'.version = file.version
        /\ file'.tables = "all" /\ file'.effect = f.effect
    BY <1>1, ExtendedKeeps DEF Inv, File
  <1>5. TypeOK'
    BY <1>1, <1>2, <1>4 DEF Inv, TypeOK
  <1>6. ModeKept'
    BY <1>1, <1>2, <1>4 DEF Inv, ModeKept, ModeOf
  <1>7. Inspected' /\ SchemaIsApplied' /\ Exact' /\ Recorded'
    BY <1>1, <1>2, <1>4, SchemaKept
  <1> QED
    BY <1>5, <1>6, <1>7 DEF Inv

\* appmode.New reads the mode, or what the tables tell, or misreads it.
LEMMA LoadModeKeeps ==
    ASSUME Inv, LoadMode
    PROVE Inv'
  <1> USE Fields
  <1>1. run.pc = "mode" /\ UNCHANGED <<backups, attempts, uncovered, chosen, ran, cut, blind>>
    BY DEF LoadMode, At, upgrade
  <1>2. PICK m \in Modes :
            /\ run' = [run EXCEPT !.pc = "secret", !.mode = m]
            /\ file' = file \/ (file.org /\ file' = Persisted(file, "organization"))
            /\ misread' \in BOOLEAN /\ (~misread' => ~misread /\ m = ModeOf(file))
            /\ file' # file => (misread' \/ ~file.row)
    <2>1. "organization" \in Modes /\ "personal" \in Modes
      BY DEF Modes
    <2>2. misread \in BOOLEAN
      BY DEF Inv, TypeOK
    <2>3. CASE /\ file.row
               /\ run' = [run EXCEPT !.pc = "secret", !.mode = file.mode]
               /\ UNCHANGED <<file, misread>>
      BY <2>2, <2>3 DEF ModeOf, Inv
    <2>4. CASE /\ file.org
               /\ run' = [run EXCEPT !.pc = "secret", !.mode = "organization"]
               /\ file' = Persisted(file, "organization") \/ UNCHANGED file
               /\ misread' = (misread \/ file.row)
      BY <2>1, <2>2, <2>4 DEF ModeOf, Inv
    <2>5. CASE /\ run' = [run EXCEPT !.pc = "secret", !.mode = "personal"]
               /\ UNCHANGED file
               /\ misread' = (misread \/ file.row \/ file.org)
      BY <2>1, <2>2, <2>5 DEF ModeOf, Inv
    <2> QED
      BY <2>3, <2>4, <2>5 DEF LoadMode
  <1>3. /\ run'.pc = "secret" /\ run'.release = run.release /\ run'.existing = run.existing
        /\ run'.schema = run.schema /\ run'.mode = m /\ run' \in Run
    BY <1>2 DEF Inv, Run, Stages
  <1>4. /\ file' \in File
        /\ file'.schema = file.schema /\ file'.effect = file.effect /\ file'.tables = file.tables
        /\ file'.secret = file.secret /\ file'.version = file.version /\ file'.org = file.org
        /\ file' # file => file.org /\ file'.row = TRUE /\ file'.mode = "organization"
    BY <1>2 DEF Inv, Persisted, File, Modes
  <1>5. TypeOK'
    BY <1>1, <1>2, <1>3, <1>4 DEF Inv, TypeOK
  <1>6. ModeKept'
    BY <1>1, <1>2, <1>3, <1>4 DEF Inv, ModeKept, ModeOf
  <1>7. Inspected' /\ SchemaIsApplied' /\ Exact' /\ Recorded'
    BY <1>1, <1>3, <1>4, SchemaKept
  <1> QED
    BY <1>5, <1>6, <1>7 DEF Inv

\* The secret is stored in the row, which is made with the mode that was read.
LEMMA EnsureSecretKeeps ==
    ASSUME Inv, EnsureSecret
    PROVE Inv'
  <1> USE Fields
  <1>1. PICK s \in Secrets :
            file' = IF ~file.row THEN [Persisted(file, run.mode) EXCEPT !.secret = s]
                    ELSE IF file.secret = NoSecret THEN [file EXCEPT !.secret = s]
                    ELSE file
    BY DEF EnsureSecret
  <1>2. PICK pc \in {"org", "migrate"} : run' = [run EXCEPT !.pc = pc]
    BY DEF EnsureSecret, Goto
  <1>3. /\ run.pc = "secret"
        /\ UNCHANGED <<backups, attempts, uncovered, chosen, ran, cut, blind, misread>>
    BY DEF EnsureSecret, At, upgrade, flaws
  <1>4. /\ run'.pc = pc /\ run'.release = run.release /\ run'.existing = run.existing
        /\ run'.schema = run.schema /\ run'.mode = run.mode /\ run' \in Run
    BY <1>2 DEF Inv, Run, Stages
  <1>5. /\ file' \in File /\ file'.row
        /\ file'.schema = file.schema /\ file'.effect = file.effect /\ file'.tables = file.tables
        /\ file'.version = file.version /\ file'.org = file.org
        /\ file'.mode = IF file.row THEN file.mode ELSE run.mode
    BY <1>1 DEF Inv, Persisted, File
  <1>6. TypeOK'
    BY <1>3, <1>4, <1>5 DEF Inv, TypeOK
  <1>7. ModeKept'
    BY <1>3, <1>4, <1>5 DEF Inv, ModeKept, ModeOf
  <1>8. Inspected' /\ SchemaIsApplied' /\ Exact' /\ Recorded'
    BY <1>3, <1>4, <1>5, SchemaKept
  <1> QED
    BY <1>6, <1>7, <1>8 DEF Inv

\* The organization's tables say nothing once the row is there.
LEMMA MigrateOrgKeeps ==
    ASSUME Inv, MigrateOrg
    PROVE Inv'
  <1> USE Fields
  <1>1. PICK f \in Extended(file) :
          /\ run.pc = "org" /\ file' = [f EXCEPT !.org = TRUE]
          /\ run' = [run EXCEPT !.pc = "migrate"]
          /\ UNCHANGED <<backups, attempts, uncovered, chosen, ran, cut, blind, misread>>
    BY DEF MigrateOrg, At, Goto, upgrade, flaws
  <1>2. /\ run'.pc = "migrate" /\ run'.release = run.release /\ run'.existing = run.existing
        /\ run'.schema = run.schema /\ run'.mode = run.mode /\ run' \in Run
    BY <1>1 DEF Inv, Run, Stages
  <1>3. run.release \in Releases
    BY <1>1 DEF Inv, Inspected, Stages
  <1>4. /\ file' \in File
        /\ file'.schema = file.schema /\ file'.effect = f.effect /\ file'.tables = file.tables
        /\ file'.version = file.version /\ file'.row = file.row /\ file'.mode = file.mode
        /\ file'.secret = file.secret
    BY <1>1, ExtendedKeeps DEF Inv, File
  <1>5. TypeOK' /\ file.row
    BY <1>1, <1>2, <1>4 DEF Inv, TypeOK
  <1>6. ModeKept'
    BY <1>1, <1>2, <1>4, <1>5 DEF Inv, ModeKept, ModeOf
  <1>7. Inspected' /\ SchemaIsApplied' /\ Exact' /\ Recorded'
    BY <1>1, <1>2, <1>4, SchemaKept
  <1> QED
    BY <1>5, <1>6, <1>7 DEF Inv

\* One migration of those that the file, as inspect has read it, still lacks.
LEMMA MigrateKeeps ==
    ASSUME Inv, Migrate
    PROVE Inv'
  <1> USE Fields
  <1> DEFINE next == run.schema + 1
  <1>1. /\ run.pc = "migrate" /\ run.existing /\ run.schema < Known[run.release]
        /\ file' = [file EXCEPT !.schema = next, !.effect = file.effect \cup {next}]
        /\ run' = [run EXCEPT !.schema = next]
        /\ ran' = ran \cup {next}
        /\ UNCHANGED <<backups, attempts, uncovered, chosen, cut, blind, misread>>
    BY DEF Migrate, Pending, At, upgrade, flaws
  <1>2. run.release \in Releases /\ Known[run.release] \in Nat
    BY <1>1, KnownType DEF Inv, Inspected, Stages
  <1>3. next \in Nat /\ next \in Steps
    BY DEF Inv, Steps
  <1>4. /\ run'.pc = "migrate" /\ run'.release = run.release /\ run'.existing = run.existing
        /\ run'.schema = next /\ run'.mode = run.mode /\ run' \in Run
    BY <1>1, <1>3 DEF Inv, Run, Stages
  <1>5. /\ file' \in File
        /\ file'.schema = next /\ file'.effect = file.effect \cup {next}
        /\ file'.tables = file.tables /\ file'.org = file.org /\ file'.mode = file.mode
        /\ file'.version = file.version /\ file'.row = file.row /\ file'.secret = file.secret
    BY <1>1, <1>3 DEF Inv, File
  <1>6. TypeOK' /\ file.row
    BY <1>1, <1>3, <1>4, <1>5 DEF Inv, TypeOK
  <1>7. Inspected'
    BY <1>1, <1>2, <1>4, <1>5 DEF Inv, Inspected, Inside, Built, Stages
  <1>8. ~blind => run.schema = file.schema /\ 1..next = (1..file.schema) \cup {next}
    <2> SUFFICES ASSUME ~blind PROVE run.schema = file.schema
                                     /\ 1..next = (1..file.schema) \cup {next}
      OBVIOUS
    <2>1. run.schema = file.schema
      BY <1>1 DEF Inv, Inspected, Inside, Built
    <2> QED
      BY <2>1 DEF Inv
  <1>9. SchemaIsApplied'
    BY <1>1, <1>5, <1>8 DEF Inv, SchemaIsApplied
  <1>10. Exact' /\ Recorded'
    BY <1>1, <1>4, <1>5, <1>8 DEF Inv, Exact, Recorded
  <1>11. ModeKept'
    BY <1>1, <1>4, <1>5, <1>6 DEF Inv, ModeKept, ModeOf
  <1> QED
    BY <1>6, <1>7, <1>9, <1>10, <1>11 DEF Inv

\* A release signs a database that shows all of its migrations.
LEMMA StampKeeps ==
    ASSUME Inv, Stamp
    PROVE Inv'
  <1> USE Fields
  <1> DEFINE r == run.release
             full == [file EXCEPT !.schema = Known[r], !.version = r]
  <1>1. /\ run.pc = "migrate" /\ ~Pending
        /\ UNCHANGED <<backups, chosen, ran, cut, blind, misread>>
    BY DEF Stamp, At, flaws
  <1>2. file.row
    BY <1>1 DEF Inv, TypeOK
  <1>3. /\ file' = full
        /\ run' = [Fresh(r) EXCEPT !.pc = "serving", !.mode = run.mode]
        /\ attempts' = 0 /\ uncovered' = FALSE
    BY <1>2 DEF Stamp
  <1>4. r \in Releases /\ Known[r] \in Nat /\ r \in Versions
    BY <1>1, KnownType DEF Inv, Inspected, Stages
  <1>5. run' \in Run /\ run'.pc = "serving" /\ run'.release = r /\ run'.mode = run.mode
    <2>1. run.mode \in Modes
      BY DEF Inv
    <2> QED
      BY <1>3, <1>4, <2>1, RunType
  <1>6. /\ file' \in File
        /\ file'.schema = Known[r] /\ file'.effect = file.effect
        /\ file'.tables = file.tables /\ file'.org = file.org /\ file'.mode = file.mode
        /\ file'.row = file.row /\ file'.secret = file.secret
    BY <1>3, <1>4 DEF Inv, File
  <1>7. 0 \in 0..(BackupsKept + 1)
    BY BootAssumption
  <1>8. TypeOK'
    BY <1>1, <1>2, <1>3, <1>5, <1>6, <1>7 DEF Inv, TypeOK
  <1>9. Inspected'
    BY <1>4, <1>5, <1>6 DEF Inspected, Inside, Built
  <1>10. ~blind => \/ file.effect = 1..Known[r]
                   \/ run.existing /\ file.schema = Known[r]
    <2> SUFFICES ASSUME ~blind, run.existing PROVE file.schema = Known[r]
      BY <1>1 DEF Inv, Inspected, Built
    <2>1. run.schema = file.schema /\ run.schema <= Known[r]
      BY <1>1 DEF Inv, Inspected, Inside, Built
    <2>2. ~(run.schema < Known[r]) /\ file.schema \in Nat
      BY <1>1 DEF Inv, Pending
    <2> QED
      BY <2>1, <2>2, <1>4
  <1>11. SchemaIsApplied'
    BY <1>1, <1>6, <1>10 DEF Inv, SchemaIsApplied
  <1>12. Exact' /\ Recorded'
    <2>1. Exact'
      BY <1>1, <1>6, <1>10 DEF Inv, Exact
    <2>2. ~blind => file.schema <= Known[r] /\ file.schema \in Nat
      BY <1>1 DEF Inv, Inspected, Inside, Built
    <2>3. ~blind => ran \subseteq 1..Known[r]
      BY <1>4, <2>2 DEF Inv, Recorded
    <2> QED
      BY <1>1, <1>6, <2>1, <2>3 DEF Recorded
  <1>13. ModeKept'
    BY <1>1, <1>2, <1>5, <1>6 DEF Inv, ModeKept, ModeOf
  <1> QED
    BY <1>8, <1>9, <1>11, <1>12, <1>13 DEF Inv

\* A switch of the mode leaves the schema alone.
LEMMA SwitchModeKeeps ==
    ASSUME Inv, SwitchMode
    PROVE Inv'
  <1> USE Fields
  <1>1. PICK m \in Modes, o \in BOOLEAN, f \in Extended(file) :
          file' = [f EXCEPT !.mode = m, !.org = o] /\ run' = [run EXCEPT !.mode = m] /\ chosen' = m
    BY DEF SwitchMode
  <1>2. run.pc = "serving" /\ UNCHANGED <<backups, attempts, uncovered, ran, cut, blind, misread>>
    BY DEF SwitchMode, At, upgrade, flaws
  <1>3. /\ run'.pc = "serving" /\ run'.release = run.release /\ run'.existing = run.existing
        /\ run'.schema = run.schema /\ run'.mode = m /\ run' \in Run
    BY <1>1, <1>2 DEF Inv, Run
  <1>4. run.release \in Releases /\ Known[run.release] \in Nat /\ file.schema = Known[run.release]
    BY <1>2, KnownType DEF Inv, Inspected
  <1>5. /\ file' \in File
        /\ file'.schema = file.schema /\ file'.effect = f.effect /\ file'.mode = m
        /\ file'.tables = file.tables /\ file'.version = file.version
        /\ file'.row = file.row /\ file'.secret = file.secret
    BY <1>1, ExtendedKeeps DEF Inv, File
  <1>6. TypeOK' /\ file.row
    BY <1>1, <1>2, <1>3, <1>5 DEF Inv, TypeOK
  <1>7. Inspected'
    BY <1>2, <1>3, <1>4, <1>5 DEF Inv, Inspected, Inside, Built
  <1>8. SchemaIsApplied' /\ Exact' /\ Recorded'
    <2>1. /\ 1..file.schema \subseteq file.effect => 1..file.schema \subseteq f.effect
          /\ file.effect = 1..file.schema => f.effect = 1..file.schema
      BY <1>4, ExtendedShows DEF Inv
    <2> QED
      BY <1>2, <1>3, <1>5, <2>1 DEF Inv, SchemaIsApplied, Exact, Recorded, Built
  <1>9. ModeKept'
    BY <1>1, <1>3, <1>5, <1>6 DEF ModeKept, ModeOf
  <1> QED
    BY <1>6, <1>7, <1>8, <1>9 DEF Inv

\* Every step keeps the invariant.
LEMMA NextKeeps == Inv /\ [Next]_vars => Inv'
  <1> SUFFICES ASSUME Inv, [Next]_vars PROVE Inv'
    OBVIOUS
  <1>1. CASE UNCHANGED vars
    BY <1>1 DEF vars, upgrade, flaws, Inv, TypeOK, Inspected, SchemaIsApplied, Exact, Recorded,
       ModeKept, ModeOf, At
  <1> QED
    BY <1>1, EdgesKeep, InspectKeeps, SnapshotKeeps, MigrateUserKeeps, MigrateRestKeeps,
       LoadModeKeeps, EnsureSecretKeeps, MigrateOrgKeeps, MigrateKeeps, StampKeeps,
       SwitchModeKeeps DEF Next, BootStep

\* Every step of Boot keeps the invariant.
LEMMA Invariance == Spec => []Inv
  BY InitKeeps, NextKeeps, PTL DEF Spec

-----------------------------------------------------------------------------
(* The properties *)

\* Types, for any releases.
THEOREM TypeCorrect == Spec => []TypeOK
  <1>1. Inv => TypeOK
    BY DEF Inv
  <1> QED
    BY Invariance, <1>1, PTL

\* Whatever boots of whatever releases end where, the tables show every migration
\* up to schema_version, as long as inspect reads the file right.
THEOREM SchemaIsAppliedHolds == Spec => []SchemaIsApplied
  <1>1. Inv => SchemaIsApplied
    BY DEF Inv
  <1> QED
    BY Invariance, <1>1, PTL

\* An instance serves in the mode it was last given, whatever boots of whatever
\* releases ended where, unless this boot could not read the mode or an earlier
\* one that could not has stored another.
THEOREM ModeSurvivesHolds == Spec => []ModeSurvives
  <1>1. Inv => ModeSurvives
    BY DEF Inv, ModeKept, ModeSurvives, At
  <1> QED
    BY Invariance, <1>1, PTL

\* No release writes to a database whose schema is beyond it, with the one exception
\* of a boot that has read another schema version than the stored one.
THEOREM OlderNeverWritesHolds == Spec => OlderNeverWrites
  <1>1. Inv /\ [Next]_vars => [OlderStep]_vars
    <2> SUFFICES ASSUME Inv, Next, file' # file, run.schema = file.schema
                 PROVE file.schema <= Known[run.release]
      BY DEF OlderStep, vars
    <2>1. CASE run.pc \in Inside
      BY <2>1 DEF Inv, Inspected
    <2>2. CASE run.pc = "serving"
      <3>1. Known[run.release] \in Nat
        BY <2>2, KnownType DEF Inv, Inspected
      <3> QED
        BY <2>2, <3>1 DEF Inv, Inspected
    <2>3. run.pc \in Inside \cup {"serving"}
      BY DEF Next, BootStep, Start, Stop, Inspect, TakeSnapshot, MigrateUser, MigrateRest, LoadMode,
             EnsureSecret, MigrateOrg, Migrate, Stamp, SwitchMode, At, Inside, Built
    <2> QED
      BY <2>1, <2>2, <2>3
  <1> QED
    BY Invariance, <1>1, PTL DEF Spec, OlderNeverWrites

\* No migration is run a second time, and none on tables created with its result,
\* but for those of a first boot that was cut short; a misread schema version
\* excepts both.
THEOREM MigratesOnceHolds == Spec => MigratesOnce
  <1>1. Inv /\ [Next]_vars => [MigrationStep]_vars
    <2> SUFFICES ASSUME Inv, At("migrate"), Pending, ~blind
                 PROVE /\ run.schema + 1 \notin ran
                       /\ run.schema + 1 \in file.effect => cut
      BY DEF MigrationStep, vars
    <2>1. run.schema = file.schema /\ file.schema \in Nat /\ run.existing
      BY Fields DEF Inv, Inspected, At, Pending, Inside, Built
    <2>2. ran \subseteq 1..file.schema /\ (~cut => file.effect = 1..file.schema)
      BY <2>1 DEF Inv, Exact, Recorded
    <2> QED
      BY <2>1, <2>2
  <1> QED
    BY Invariance, <1>1, PTL DEF Spec, MigratesOnce

\* The server secret is stored once and never replaced.
THEOREM SecretSurvivesHolds == Spec => SecretSurvives
  <1>1. Inv /\ [Next]_vars => [SecretStep]_vars
    <2> SUFFICES ASSUME Inv, Next, file.secret # NoSecret
                 PROVE file'.secret = file.secret
      BY DEF SecretStep, vars
    <2>1. file \in File /\ file.row /\ file.tables = "all"
      BY DEF Inv, TypeOK
    <2>a. run.pc \in Stages \cup {"serving"} => run.release \in Releases
      BY DEF Inv, Inspected
    <2>2. CASE Start \/ Stop \/ Inspect \/ TakeSnapshot
      BY <2>1, <2>2 DEF Start, Stop, Inspect, TakeSnapshot
    <2>9. CASE MigrateUser
      BY <2>1, <2>a, <2>9, ExtendedKeeps DEF MigrateUser, At, Stages
    <2>10. CASE MigrateRest
      <3>1. PICK f \in Extended(file) : file' = [f EXCEPT !.tables = "all"] /\ At("rest")
        BY <2>10 DEF MigrateRest
      <3> QED
        BY <2>1, <2>a, <3>1, ExtendedKeeps DEF At, Stages, File
    <2>3. CASE LoadMode
      BY <2>1, <2>3 DEF LoadMode, Persisted, File
    <2>4. CASE EnsureSecret
      BY <2>1, <2>4 DEF EnsureSecret
    <2>5. CASE MigrateOrg
      <3>1. PICK f \in Extended(file) : file' = [f EXCEPT !.org = TRUE] /\ At("org")
        BY <2>5 DEF MigrateOrg
      <3> QED
        BY <2>1, <2>a, <3>1, ExtendedKeeps DEF At, Stages, File
    <2>6. CASE Migrate
      BY <2>1, <2>6 DEF Migrate, File
    <2>7. CASE Stamp
      BY <2>1, <2>7 DEF Stamp, File
    <2>8. CASE SwitchMode
      <3>1. PICK m \in Modes, o \in BOOLEAN, f \in Extended(file) :
              file' = [f EXCEPT !.mode = m, !.org = o] /\ At("serving")
        BY <2>8 DEF SwitchMode
      <3> QED
        BY <2>1, <2>a, <3>1, ExtendedKeeps DEF At, File
    <2> QED
      BY <2>2, <2>9, <2>10, <2>3, <2>4, <2>5, <2>6, <2>7, <2>8 DEF Next, BootStep
  <1> QED
    BY Invariance, <1>1, PTL DEF Spec, SecretSurvives

-----------------------------------------------------------------------------
(* The way back *)

\* A whole snapshot for release v is among those begun since a boot completed.
Kept(v) ==
    \E i \in DOMAIN backups :
        i > Len(backups) - attempts /\ backups[i].version = v /\ backups[i].opens

\* An upgrade has taken its snapshot before it goes on, and a schema is beyond
\* the release that signed it only in the middle of an upgrade.
Covered ==
    /\ run.pc = "snapshot" /\ ~blind => run.version = file.version
    /\ ~uncovered /\ ~blind /\ attempts <= BackupsKept =>
        /\ file.schema > KnownBy(file.version) => Kept(file.version)
        /\ run.pc \in {"user"} \cup Built /\ run.existing /\ file.version # run.release =>
               Kept(file.version)

WInv == Inv /\ Covered

\* Steps that leave the backups, the schema and its signature alone.
LEMMA CoveredKept ==
    ASSUME WInv,
           file'.schema = file.schema, file'.version = file.version,
           UNCHANGED <<backups, attempts, uncovered, blind>>,
           run'.pc # "snapshot",
           run'.pc \in {"user"} \cup Built =>
               run.pc \in {"user"} \cup Built /\ run'.existing = run.existing
               /\ run'.release = run.release
    PROVE Covered'
  BY DEF WInv, Covered, Kept

\* inspect sends an upgrade to its snapshot, or it goes without and is uncovered.
LEMMA InspectCovers ==
    ASSUME WInv, Inspect
    PROVE Covered'
  <1>1. PICK r \in Readings, on \in BOOLEAN :
            LET due == r.existing /\ r.stamp[1] # run.release
            IN /\ blind' = (blind \/ Misread(r))
               /\ IF r.stamp[2] > Known[run.release]
                  THEN run' = Over("refused") /\ UNCHANGED uncovered
                  ELSE /\ run' = [run EXCEPT !.pc = IF on /\ due THEN "snapshot" ELSE "user",
                                             !.existing = r.existing, !.version = r.stamp[1],
                                             !.schema = r.stamp[2]]
                       /\ uncovered' = (uncovered \/ (due /\ ~on))
    BY DEF Inspect
  <1>2. UNCHANGED <<file, backups, attempts>> /\ run \in Run
    BY Fields DEF Inspect, WInv, Inv
  <1>3. ~blind' => ~blind /\ r.stamp[1] = file.version
    <2> SUFFICES ASSUME ~blind' PROVE ~blind /\ r.stamp[1] = file.version
      OBVIOUS
    <2>1. ~blind /\ ~Misread(r)
      BY <1>1
    <2>2. r.stamp = <<file.version, file.schema>>
      BY <2>1 DEF Misread
    <2> QED
      BY <2>1, <2>2
  <1>4. CASE r.stamp[2] > Known[run.release]
    <2>1. run' = Over("refused") /\ UNCHANGED uncovered
      BY <1>1, <1>4
    <2>2. run'.pc = "refused"
      BY <2>1, RunType DEF Ended
    <2> QED
      BY <1>2, <1>3, <2>1, <2>2 DEF WInv, Covered, Kept, Built
  <1>5. CASE ~(r.stamp[2] > Known[run.release])
    <2> DEFINE due == r.existing /\ r.stamp[1] # run.release
    <2>1. /\ run' = [run EXCEPT !.pc = IF on /\ due THEN "snapshot" ELSE "user",
                                !.existing = r.existing, !.version = r.stamp[1],
                                !.schema = r.stamp[2]]
          /\ uncovered' = (uncovered \/ (due /\ ~on))
      BY <1>1, <1>5, Zenon
    <2>2. /\ run'.pc = IF on /\ due THEN "snapshot" ELSE "user"
          /\ run'.existing = r.existing /\ run'.version = r.stamp[1]
          /\ run'.release = run.release
      BY <1>2, <2>1 DEF Run
    <2>3. run'.pc = "snapshot" /\ ~blind' => run'.version = file'.version
      BY <1>2, <1>3, <2>2
    <2>4. ~uncovered' => ~uncovered /\ (due => on)
      BY <2>1
    <2>5. run'.pc # "snapshot" => ~(on /\ due)
      BY <2>2
    <2>6. ASSUME ~uncovered', ~blind', run'.pc \in {"user"} \cup Built, run'.existing
          PROVE file'.version = run'.release
      <3>1. ~due
        BY <2>4, <2>5, <2>6 DEF Built
      <3> QED
        BY <3>1, <1>2, <1>3, <2>2, <2>6
    <2>7. ~uncovered' /\ ~blind' /\ attempts' <= BackupsKept =>
              (file'.schema > KnownBy(file'.version) => Kept(file.version)')
      BY <1>2, <1>3, <2>4 DEF WInv, Covered, Kept
    <2> QED
      BY <2>3, <2>6, <2>7 DEF Covered
  <1> QED
    BY <1>4, <1>5

\* A snapshot is whole and its release's own, or the schema has moved before and
\* one that is so was taken; pruning keeps as many as have been begun.
LEMMA SnapshotCovers ==
    ASSUME WInv, TakeSnapshot
    PROVE Covered'
  <1> DEFINE s == [version |-> run.version, opens |-> file.schema <= KnownBy(run.version)]
             taken == Append(backups, s)
  <1>1. /\ run.pc = "snapshot"
        /\ backups' = Pruned(taken) \/ backups' = taken
        /\ attempts' = IF attempts > BackupsKept THEN attempts ELSE attempts + 1
        /\ run' = [run EXCEPT !.pc = "user", !.version = 0]
        /\ UNCHANGED <<file, uncovered, blind>>
    BY DEF TakeSnapshot, At, flaws, Attempt
  <1>2. run'.pc = "user" /\ run \in Run
    BY <1>1, Fields DEF WInv, Inv, Run
  <1>3. /\ backups \in Seq(Snapshot) /\ attempts \in 0..(BackupsKept + 1)
        /\ file.schema \in Nat /\ run.version \in Versions
    BY Fields DEF WInv, Inv, TypeOK
  <1>4. BackupsKept \in Nat \ {0}
    BY BootAssumption
  <1>5. KnownBy(run.version) \in Nat
    BY <1>3, KnownType DEF KnownBy
  <1>6. s \in Snapshot
    BY <1>3 DEF Snapshot
  <1> SUFFICES ASSUME ~uncovered, ~blind, attempts' <= BackupsKept
               PROVE Kept(file.version)'
    BY <1>1, <1>2 DEF Covered
  <1>7. attempts' = attempts + 1 /\ attempts <= BackupsKept
    BY <1>1, <1>3, <1>4
  <1>8. run.version = file.version
    BY <1>1 DEF WInv, Covered
  <1>9. /\ taken \in Seq(Snapshot) /\ Len(taken) = Len(backups) + 1 /\ Len(backups) \in Nat
        /\ DOMAIN taken = 1..Len(taken) /\ DOMAIN backups = 1..Len(backups)
        /\ taken[Len(taken)] = s
        /\ \A i \in DOMAIN backups : taken[i] = backups[i]
    BY <1>3, <1>6
  <1>10. PICK i \in DOMAIN taken :
             /\ i > Len(taken) - attempts'
             /\ taken[i].version = file.version /\ taken[i].opens
    <2>1. CASE file.schema <= KnownBy(run.version)
      <3>1. s.version = file.version /\ s.opens
        BY <2>1, <1>8
      <3>2. Len(taken) \in DOMAIN taken /\ Len(taken) > Len(taken) - attempts'
        BY <1>3, <1>7, <1>9
      <3> QED
        BY <3>1, <3>2, <1>9
    <2>2. CASE ~(file.schema <= KnownBy(run.version))
      <3>1. file.schema > KnownBy(file.version)
        BY <2>2, <1>3, <1>5, <1>8
      <3>2. Kept(file.version)
        BY <3>1, <1>7 DEF WInv, Covered
      <3>3. PICK i \in DOMAIN backups :
                i > Len(backups) - attempts /\ backups[i].version = file.version
                /\ backups[i].opens
        BY <3>2 DEF Kept
      <3>4. i \in DOMAIN taken /\ taken[i] = backups[i] /\ i > Len(taken) - attempts'
        BY <3>3, <1>3, <1>7, <1>9
      <3> QED
        BY <3>3, <3>4
    <2> QED
      BY <2>1, <2>2
  <1> HIDE DEF taken
  <1> SUFFICES \E k \in DOMAIN backups' :
                   /\ k > Len(backups') - attempts'
                   /\ backups'[k].version = file.version /\ backups'[k].opens
    BY <1>1 DEF Kept
  <1>11. CASE backups' = taken
    BY <1>10, <1>11
  <1>12. CASE backups' = Pruned(taken) /\ Len(taken) > BackupsKept
    <2>1. backups' = SubSeq(taken, Len(taken) - BackupsKept + 1, Len(taken))
      BY <1>12 DEF Pruned
    <2> DEFINE j == i - (Len(taken) - BackupsKept)
    <2>2. /\ Len(backups') = BackupsKept /\ DOMAIN backups' = 1..BackupsKept
          /\ \A k \in 1..BackupsKept : backups'[k] = taken[k + (Len(taken) - BackupsKept)]
      BY <2>1, <1>4, <1>9, <1>12
    <2>3. j \in 1..BackupsKept /\ j > BackupsKept - attempts'
          /\ j + (Len(taken) - BackupsKept) = i
      BY <1>3, <1>4, <1>7, <1>9, <1>10, <1>12
    <2> HIDE DEF j
    <2>4. backups'[j] = taken[i]
      BY <2>2, <2>3
    <2> QED
      BY <1>10, <2>2, <2>3, <2>4
  <1>13. CASE backups' = Pruned(taken) /\ ~(Len(taken) > BackupsKept)
    BY <1>10, <1>13 DEF Pruned
  <1> QED
    BY <1>1, <1>11, <1>12, <1>13

\* A process that ends in the middle of a snapshot leaves a torn file behind the
\* whole ones; it counts as begun.
LEMMA EdgesCover ==
    ASSUME WInv, Start \/ Stop
    PROVE Covered'
  <1>1. UNCHANGED <<file, uncovered, blind>> /\ run'.pc \in {"inspect", "down"}
    <2>1. CASE Start
      <3>1. PICK r \in Releases : run' = Fresh(r)
        BY <2>1 DEF Start
      <3> QED
        BY <2>1, <3>1, RunType DEF Start, upgrade
    <2>2. CASE Stop
      <3>1. run' = Over("down") /\ "down" \in Ended
        BY <2>2 DEF Stop, Ended
      <3> QED
        BY <3>1, <2>2, RunType DEF Stop, Ended
    <2> QED
      BY <2>1, <2>2
  <1>2. CASE UNCHANGED <<backups, attempts>>
    BY <1>1, <1>2, CoveredKept DEF Built
  <1>3. CASE /\ backups' = Append(backups, [version |-> run.version, opens |-> FALSE])
             /\ Attempt
    <2>1. /\ backups \in Seq(Snapshot) /\ attempts \in 0..(BackupsKept + 1)
          /\ BackupsKept \in Nat
          /\ [version |-> run.version, opens |-> FALSE] \in Snapshot
      BY Fields, BootAssumption DEF WInv, Inv, TypeOK, Snapshot
    <2>2. /\ Len(backups') = Len(backups) + 1 /\ Len(backups) \in Nat
          /\ DOMAIN backups' = 1..Len(backups') /\ DOMAIN backups = 1..Len(backups)
          /\ \A i \in DOMAIN backups : backups'[i] = backups[i]
      BY <1>3, <2>1
    <2>3. attempts' <= BackupsKept => attempts' = attempts + 1 /\ attempts <= BackupsKept
      BY <1>3, <2>1 DEF Attempt
    <2>4. ASSUME attempts' <= BackupsKept, Kept(file.version) PROVE Kept(file.version)'
      <3>1. PICK i \in DOMAIN backups :
                i > Len(backups) - attempts /\ backups[i].version = file.version
                /\ backups[i].opens
        BY <2>4 DEF Kept
      <3>2. i \in DOMAIN backups' /\ backups'[i] = backups[i] /\ i > Len(backups') - attempts'
        BY <3>1, <2>1, <2>2, <2>3, <2>4
      <3> QED
        BY <3>1, <3>2, <1>1 DEF Kept
    <2> QED
      BY <1>1, <2>3, <2>4 DEF WInv, Covered, Built
  <1> QED
    BY <1>2, <1>3 DEF Start, Stop, upgrade

\* A migration goes beyond the release that last signed only in an upgrade, which
\* has its snapshot; a release that signs is not behind the schema.
LEMMA MigrationsCover ==
    ASSUME WInv, Migrate \/ Stamp
    PROVE Covered'
  <1> USE Fields
  <1>1. /\ run.pc = "migrate" /\ run.release \in Releases /\ Known[run.release] \in Nat
        /\ file \in File /\ run \in Run /\ TypeOK /\ Inv
    BY KnownType DEF Migrate, Stamp, At, WInv, Inv, Inspected, Stages
  <1>2. CASE Migrate
    <2>1. /\ run.existing /\ run.schema < Known[run.release]
          /\ file' = [file EXCEPT !.schema = run.schema + 1,
                                  !.effect = file.effect \cup {run.schema + 1}]
          /\ run' = [run EXCEPT !.schema = run.schema + 1]
          /\ UNCHANGED <<backups, attempts, uncovered, blind>>
      BY <1>2 DEF Migrate, Pending, upgrade, flaws
    <2>2. /\ file'.schema = run.schema + 1 /\ file'.version = file.version
          /\ run'.pc = "migrate" /\ run'.existing /\ run'.release = run.release
          /\ run.schema \in Nat
      BY <1>1, <2>1 DEF File, Run
    <2>3. file.version = run.release => ~(file'.schema > KnownBy(file'.version))
      BY <1>1, <2>1, <2>2 DEF KnownBy
    <2> QED
      BY <1>1, <2>1, <2>2, <2>3 DEF WInv, Covered, Kept, Built
  <1>3. CASE Stamp
    <2>1. /\ file' = [file EXCEPT !.schema = Known[run.release], !.version = run.release]
          /\ run' = [Fresh(run.release) EXCEPT !.pc = "serving", !.mode = run.mode]
      BY <1>1, <1>3 DEF Stamp, TypeOK
    <2>2. file'.schema = Known[run.release] /\ file'.version = run.release
          /\ run'.pc = "serving"
      <3>1. run.mode \in Modes
        BY <1>1 DEF Run
      <3> QED
        BY <1>1, <2>1, <3>1, RunType DEF File
    <2>3. ~(file'.schema > KnownBy(file'.version))
      BY <1>1, <2>2 DEF KnownBy
    <2> QED
      BY <2>2, <2>3 DEF Covered, Built
  <1> QED
    BY <1>2, <1>3

\* The other steps of a boot, and the mode switch.
LEMMA OthersCover ==
    ASSUME WInv, MigrateUser \/ MigrateRest \/ LoadMode \/ EnsureSecret \/ MigrateOrg \/ SwitchMode
    PROVE Covered'
  <1> USE Fields
  <1>1. file \in File /\ run \in Run
    BY DEF WInv, Inv
  <1>2. UNCHANGED <<backups, attempts, uncovered, blind>>
    BY DEF MigrateUser, MigrateRest, LoadMode, EnsureSecret, MigrateOrg, SwitchMode, upgrade, flaws
  <1>3. CASE MigrateUser
    <2>1. file'.schema = file.schema /\ file'.version = file.version
      <3>1. CASE file.tables = "none"
        BY <1>1, <1>3, <3>1 DEF MigrateUser, File
      <3>2. CASE file.tables # "none"
        BY <1>1, <1>3, <3>2, ExtendedKeeps DEF MigrateUser
      <3> QED
        BY <3>1, <3>2
    <2>2. run.pc = "user" /\ run'.pc = "rest" /\ run'.existing = run.existing
          /\ run'.release = run.release
      BY <1>1, <1>3 DEF MigrateUser, At, Run
    <2> QED
      BY <1>2, <2>1, <2>2, CoveredKept
  <1>4. CASE MigrateRest
    <2>1. file'.schema = file.schema /\ file'.version = file.version
      <3>1. PICK f \in Extended(file) : file' = [f EXCEPT !.tables = "all"]
        BY <1>4 DEF MigrateRest
      <3> QED
        BY <1>1, <3>1, ExtendedKeeps DEF File
    <2>2. run.pc = "rest" /\ run'.pc = "mode" /\ run'.existing = run.existing
          /\ run'.release = run.release
      BY <1>1, <1>4 DEF MigrateRest, At, Goto, Run
    <2> QED
      BY <1>2, <2>1, <2>2, CoveredKept DEF Built
  <1>5. CASE LoadMode
    <2>1. file'.schema = file.schema /\ file'.version = file.version
      BY <1>1, <1>5 DEF LoadMode, Persisted, File
    <2>2. run.pc = "mode" /\ run'.pc = "secret" /\ run'.existing = run.existing
          /\ run'.release = run.release
      BY <1>1, <1>5 DEF LoadMode, At, Run
    <2> QED
      BY <1>2, <2>1, <2>2, CoveredKept DEF Built
  <1>6. CASE EnsureSecret
    <2>1. PICK s \in Secrets :
              file' = IF ~file.row THEN [Persisted(file, run.mode) EXCEPT !.secret = s]
                      ELSE IF file.secret = NoSecret THEN [file EXCEPT !.secret = s]
                      ELSE file
      BY <1>6 DEF EnsureSecret
    <2>2. file'.schema = file.schema /\ file'.version = file.version
      BY <1>1, <2>1 DEF Persisted, File
    <2>3. PICK pc \in {"org", "migrate"} : run' = [run EXCEPT !.pc = pc]
      BY <1>6 DEF EnsureSecret, Goto
    <2>4. run.pc = "secret" /\ run'.pc \in {"org", "migrate"} /\ run'.existing = run.existing
          /\ run'.release = run.release
      BY <1>1, <1>6, <2>3 DEF EnsureSecret, At, Run
    <2> QED
      BY <1>2, <2>2, <2>4, CoveredKept DEF Built
  <1>7. CASE MigrateOrg
    <2>1. file'.schema = file.schema /\ file'.version = file.version
      <3>1. PICK f \in Extended(file) : file' = [f EXCEPT !.org = TRUE]
        BY <1>7 DEF MigrateOrg
      <3> QED
        BY <1>1, <3>1, ExtendedKeeps DEF File
    <2>2. run.pc = "org" /\ run'.pc = "migrate" /\ run'.existing = run.existing
          /\ run'.release = run.release
      BY <1>1, <1>7 DEF MigrateOrg, At, Goto, Run
    <2> QED
      BY <1>2, <2>1, <2>2, CoveredKept DEF Built
  <1>8. CASE SwitchMode
    <2>1. PICK m \in Modes, o \in BOOLEAN, f \in Extended(file) :
              file' = [f EXCEPT !.mode = m, !.org = o] /\ run' = [run EXCEPT !.mode = m]
      BY <1>8 DEF SwitchMode
    <2>2. file'.schema = file.schema /\ file'.version = file.version
      BY <1>1, <2>1, ExtendedKeeps DEF File
    <2>3. run'.pc = "serving" /\ run.pc = "serving"
      BY <1>1, <1>8, <2>1 DEF SwitchMode, At, Run
    <2> QED
      BY <1>2, <2>2, <2>3, CoveredKept DEF Built
  <1> QED
    BY <1>3, <1>4, <1>5, <1>6, <1>7, <1>8

\* Once the schema has moved past the release that last ran, a whole snapshot for
\* that release is there, with the exceptions that WayBack names.
THEOREM WayBackHolds == Spec => []WayBack
  <1>1. Init => WInv
    <2> SUFFICES ASSUME Init PROVE WInv
      OBVIOUS
    <2>1. Inv
      BY InitKeeps
    <2>2. run.pc = "down"
      BY RunType DEF Init, Ended
    <2>3. file.schema = 0 /\ file.version = 0
      <3>1. Blank.schema = 0 /\ Blank.version = 0
        BY DEF Blank
      <3>2. CASE Older(file)
        BY <3>2 DEF Older, Blank
      <3> QED
        BY <3>1, <3>2 DEF Init
    <2>4. ~(file.schema > KnownBy(file.version))
      BY <2>3, BootAssumption DEF KnownBy
    <2> QED
      BY <2>1, <2>2, <2>4 DEF WInv, Covered, Built
  <1>2. WInv /\ [Next]_vars => WInv'
    <2> SUFFICES ASSUME WInv, [Next]_vars PROVE WInv'
      OBVIOUS
    <2>1. Inv'
      BY NextKeeps DEF WInv
    <2>2. ASSUME UNCHANGED vars PROVE Covered'
      BY <2>2 DEF vars, upgrade, flaws, WInv, Covered, Kept
    <2>3. ASSUME Next PROVE Covered'
      BY <2>3, EdgesCover, InspectCovers, SnapshotCovers, MigrationsCover, OthersCover
         DEF Next, BootStep
    <2>4. Covered'
      BY <2>2, <2>3
    <2> QED
      BY <2>1, <2>4 DEF WInv
  <1>3. WInv => WayBack
    BY DEF WInv, Covered, Kept, WayBack
  <1> QED
    BY <1>1, <1>2, <1>3, PTL DEF Spec

-----------------------------------------------------------------------------
(* What BootsEnd rests on: a boot does not fail and has only so many steps *)

\* Past inspect, or at it: the stages that are left, and the migrations that are.
Rank == [inspect |-> 9, snapshot |-> 8, user |-> 7, rest |-> 6,
         mode |-> 5, secret |-> 4, org |-> 3, migrate |-> 2]
Lacking(r) == IF r.pc = "inspect" THEN Known[r.release]
              ELSE IF r.schema < Known[r.release] THEN Known[r.release] - r.schema ELSE 0
Left(r) == IF r.pc \in Stages THEN Rank[r.pc] + Lacking(r) ELSE 0

ShrinkStep == BootStep => Left(run)' < Left(run) /\ Left(run)' \in Nat

\* What is left of a boot of a known release is a number.
LEMMA LeftType ==
    ASSUME NEW r \in Run, r.pc \in Stages => r.release \in Releases
    PROVE /\ Left(r) \in Nat
          /\ r.pc \in Stages => Left(r) > 0 /\ Lacking(r) \in Nat /\ Known[r.release] \in Nat
  <1>1. r.schema \in Nat
    BY DEF Run
  <1>2. CASE r.pc \in Stages
    <2>1. Known[r.release] \in Nat
      BY <1>2, KnownType
    <2>2. Lacking(r) \in Nat
      BY <1>1, <2>1 DEF Lacking
    <2>3. Rank[r.pc] \in Nat /\ Rank[r.pc] > 0
      BY <1>2 DEF Rank, Stages
    <2> QED
      BY <1>2, <2>1, <2>2, <2>3 DEF Left
  <1>3. CASE r.pc \notin Stages
    BY <1>3 DEF Left
  <1> QED
    BY <1>2, <1>3

\* A process that is further, or that is over, has less left to do.
LEMMA FurtherIsLess ==
    ASSUME Inv, run.pc \in Stages, run' \in Run,
           \/ run'.pc \notin Stages
           \/ /\ run'.pc \in Stages /\ run'.release = run.release
              /\ Rank[run'.pc] < Rank[run.pc]
              /\ run'.schema = run.schema \/ run.pc = "inspect"
              /\ run.pc # "inspect" => run'.pc # "inspect"
           \/ run.pc = "migrate" /\ run.schema < Known[run.release]
              /\ run' = [run EXCEPT !.schema = @ + 1]
    PROVE Left(run') < Left(run) /\ Left(run') \in Nat
  <1>1. /\ run \in Run /\ run.release \in Releases /\ Known[run.release] \in Nat
        /\ run.schema \in Nat /\ run'.schema \in Nat
    BY KnownType DEF Inv, TypeOK, Inspected, Run
  <1>2. Left(run) > 0 /\ Left(run) \in Nat
    BY <1>1, LeftType
  <1>3. CASE run'.pc \notin Stages
    BY <1>2, <1>3 DEF Left
  <1>4. CASE /\ run'.pc \in Stages /\ run'.release = run.release
             /\ Rank[run'.pc] < Rank[run.pc]
             /\ run'.schema = run.schema \/ run.pc = "inspect"
             /\ run.pc # "inspect" => run'.pc # "inspect"
    <2>1. Lacking(run') <= Lacking(run) /\ Lacking(run') \in Nat /\ Lacking(run) \in Nat
      BY <1>1, <1>4 DEF Lacking
    <2>2. Rank[run'.pc] \in Nat /\ Rank[run.pc] \in Nat
      BY <1>4 DEF Rank, Stages
    <2> QED
      BY <1>4, <2>1, <2>2 DEF Left
  <1>5. CASE /\ run.pc = "migrate" /\ run.schema < Known[run.release]
             /\ run' = [run EXCEPT !.schema = @ + 1]
    <2>1. run'.pc = "migrate" /\ run'.release = run.release /\ run'.schema = run.schema + 1
      BY <1>1, <1>5 DEF Run
    <2>2. Lacking(run) = Known[run.release] - run.schema
      BY <1>5 DEF Lacking
    <2>3. Lacking(run') \in Nat /\ Lacking(run') < Lacking(run)
      BY <1>1, <1>5, <2>1, <2>2 DEF Lacking
    <2>4. Rank["migrate"] = 2
      BY DEF Rank
    <2> QED
      BY <1>1, <1>5, <2>1, <2>2, <2>3, <2>4 DEF Left
  <1> QED
    BY <1>3, <1>4, <1>5

\* main.go:22-34: every step of a boot leaves less of it to do, and what is left
\* of it is a number: with nothing to wait for, a boot is over after as many
\* steps as main has and its release knows migrations.
THEOREM BootShrinks == Spec => [][ShrinkStep]_vars
  <1>1. Inv /\ Inv' /\ [Next]_vars => [ShrinkStep]_vars
    <2> SUFFICES ASSUME Inv, Inv', BootStep
                 PROVE Left(run') < Left(run) /\ Left(run') \in Nat
      BY DEF ShrinkStep
    <2>1. run \in Run /\ run' \in Run
      BY DEF Inv, TypeOK
    <2>2. CASE Inspect
      <3>1. run.pc = "inspect" /\ run.pc \in Stages
        BY <2>2 DEF Inspect, At, Stages
      <3>2. \/ run' = Over("refused")
            \/ \E pc \in {"snapshot", "user"} : \E e, v, n :
                   run' = [run EXCEPT !.pc = pc, !.existing = e, !.version = v, !.schema = n]
        BY <2>2 DEF Inspect
      <3>3. \/ run'.pc \notin Stages
            \/ run'.pc \in {"snapshot", "user"} /\ run'.release = run.release
        BY <2>1, <3>2, RunType DEF Run, Ended, Stages
      <3> QED
        BY <2>1, <3>1, <3>3, FurtherIsLess DEF Rank, Stages
    <2>3. CASE TakeSnapshot \/ MigrateUser \/ MigrateRest \/ LoadMode \/ EnsureSecret \/ MigrateOrg
      <3> DEFINE Goes(from, to) == run.pc = from /\ run'.pc = to
      <3>1. /\ \/ Goes("snapshot", "user") \/ Goes("user", "rest") \/ Goes("rest", "mode")
               \/ Goes("mode", "secret") \/ Goes("secret", "org") \/ Goes("secret", "migrate")
               \/ Goes("org", "migrate")
            /\ run'.release = run.release /\ run'.schema = run.schema
        <4>1. CASE TakeSnapshot
          BY <2>1, <4>1 DEF TakeSnapshot, At, Run
        <4>2. CASE MigrateUser
          BY <2>1, <4>2 DEF MigrateUser, At, Run
        <4>3. CASE MigrateRest
          BY <2>1, <4>3 DEF MigrateRest, At, Goto, Run
        <4>4. CASE LoadMode
          BY <2>1, <4>4 DEF LoadMode, At, Run
        <4>5. CASE EnsureSecret
          BY <2>1, <4>5 DEF EnsureSecret, At, Goto, Run
        <4>6. CASE MigrateOrg
          BY <2>1, <4>6 DEF MigrateOrg, At, Goto, Run
        <4> QED
          BY <2>3, <4>1, <4>2, <4>3, <4>4, <4>5, <4>6
      <3>2. /\ run.pc \in Stages /\ run'.pc \in Stages
            /\ run.pc # "inspect" /\ run'.pc # "inspect"
            /\ Rank[run'.pc] < Rank[run.pc]
        BY <3>1 DEF Rank, Stages
      <3> QED
        BY <2>1, <3>1, <3>2, FurtherIsLess
    <2>4. CASE Migrate
      BY <2>1, <2>4, FurtherIsLess DEF Migrate, At, Pending, Stages
    <2>5. CASE Stamp
      <3>1. run.pc \in Stages /\ run.release \in Releases
        BY <2>5 DEF Stamp, At, Stages, Inv, Inspected
      <3>2. run'.pc \in {"serving", "failed"}
        <4>1. \/ run' = [Fresh(run.release) EXCEPT !.pc = "serving", !.mode = run.mode]
              \/ run' = Over("failed")
          BY <2>5 DEF Stamp
        <4>2. run.release \in Releases /\ run.mode \in Modes
          BY <2>1, <3>1 DEF Run
        <4>4. [Fresh(run.release) EXCEPT !.pc = "serving", !.mode = run.mode].pc = "serving"
          BY <4>2 DEF Fresh
        <4>3. Over("failed").pc = "failed"
          BY RunType DEF Ended
        <4> QED
          BY <4>1, <4>4, <4>3
      <3> QED
        BY <2>1, <3>1, <3>2, FurtherIsLess DEF Stages
    <2> QED
      BY <2>2, <2>3, <2>4, <2>5 DEF BootStep
  <1> QED
    BY Invariance, <1>1, PTL DEF Spec

\* main.go:28-34: the row that RunMigrations signs is there by then, whatever
\* errors appmode.New drops and wherever earlier boots ended: no boot fails at it.
THEOREM NeverFails == Spec => [](run.pc # "failed")
  <1>1. Init => run.pc # "failed"
    BY RunType DEF Init, Ended
  <1>2. Inv /\ run.pc # "failed" /\ [Next]_vars => (run.pc # "failed")'
    <2> SUFFICES ASSUME Inv, run.pc # "failed", Next PROVE run'.pc # "failed"
      BY DEF vars
    <2>1. run \in Run
      BY DEF Inv, TypeOK
    <2>2. CASE Start \/ Stop
      BY <2>2, RunType DEF Start, Stop, Ended
    <2>3. CASE Inspect
      <3>1. \/ run' = Over("refused")
            \/ \E pc \in {"snapshot", "user"} : \E e, v, n :
                   run' = [run EXCEPT !.pc = pc, !.existing = e, !.version = v, !.schema = n]
        BY <2>3 DEF Inspect
      <3> QED
        BY <2>1, <3>1, RunType DEF Run, Ended
    <2>4. CASE TakeSnapshot \/ MigrateUser \/ MigrateRest \/ LoadMode \/ EnsureSecret \/ MigrateOrg
      BY <2>1, <2>4 DEF TakeSnapshot, MigrateUser, MigrateRest, LoadMode, EnsureSecret, MigrateOrg,
                        Goto, Run
    <2>5. CASE Migrate \/ SwitchMode
      BY <2>1, <2>5 DEF Migrate, SwitchMode, Run
    <2>6. CASE Stamp
      <3>1. file.row /\ run.release \in Releases
        BY <2>6 DEF Stamp, At, Inv, TypeOK, Inspected, Stages
      <3>2. run' = [Fresh(run.release) EXCEPT !.pc = "serving", !.mode = run.mode]
        BY <2>6, <3>1 DEF Stamp
      <3>3. run.mode \in Modes
        BY <2>1 DEF Run
      <3> QED
        BY <3>1, <3>2, <3>3, RunType
    <2> QED
      BY <2>2, <2>3, <2>4, <2>5, <2>6 DEF Next, BootStep
  <1> QED
    BY Invariance, <1>1, <1>2, PTL DEF Spec

=============================================================================
