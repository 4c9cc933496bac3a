---------------------------- MODULE Deployment -----------------------------
(***************************************************************************)
(* Upgrades, rollbacks, backups and restores of one Gateway database       *)
(* (packages/db, packages/service, apps/cli backup.ts and the backup and   *)
(* restore scripts): the deployment lock that keeps migrations and         *)
(* services apart, the certificates that say which releases may run on a   *)
(* schema, the backup whose manifest describes its archive, and the        *)
(* restore test that empties a database it must first prove not to be the  *)
(* live one.                                                               *)
(***************************************************************************)
EXTENDS Integers, Sequences, FiniteSets, SequencesExt

CONSTANTS
    Builds,        \* the builds that may be deployed
    Development,   \* the ones that are no release
    Shipped,       \* the migrations each ships, in order
    Expanding,     \* the migrations of kind "expand"
    QueueSchema,   \* the pg-boss schema each build runs on
    Published,     \* the earlier releases each build's manifest names
    Programs,      \* services, and commands that write
    MaxAccidents,    \* bound: crashes, lost connections, damaged files
    MaxArchives    \* bound: backups

ASSUME DeploymentAssumption ==
    /\ Development \subseteq Builds /\ {MaxAccidents, MaxArchives} \subseteq Nat
    /\ Builds # {} /\ DOMAIN Shipped = Builds /\ DOMAIN QueueSchema = Builds
    /\ \A b \in Builds : /\ Published[b] \subseteq Builds \ Development
                         /\ Shipped[b] # <<>> /\ Shipped[b] \in Seq(Range(Shipped[b]))
                         /\ QueueSchema[b] \in Nat \ {0}
                         /\ \A r \in Published[b] : IsPrefix(Shipped[r], Shipped[b])

VARIABLES
    gatewayDb,       \* the database: its migrations, its queue schema, its certificates
    program,    \* services, with the deployment lock each holds shared
    migration,  \* db migrate of each build
    dumping,    \* backup-gateway-db.sh
    archives,   \* the backup directory, oldest first
    audit,      \* backup check --restore-test
    accidents

deploymentVars == <<gatewayDb, program, migration, dumping, archives, audit, accidents>>

Accident == accidents < MaxAccidents /\ accidents' = accidents + 1

Unmigrated == [history |-> <<>>, queue |-> 0, certificates |-> {}]
NoDump == [pc |-> "idle", count |-> 0, latest |-> <<>>, archive |-> Unmigrated]
NoAudit == [pc |-> "idle", target |-> "other", reach |-> "primary"]

\* schemaVersion: how many migrations, and the last one.
LatestOf(history) == IF history = <<>> THEN <<>> ELSE <<Last(history)>>

-----------------------------------------------------------------------------
(* Which build may run where. *)

\* gateway_schema_state: the certificates for exactly the schema the database has.
Certified(database) ==
    {c.release : c \in {d \in database.certificates : /\ d.history = database.history
                                                      /\ d.queue = database.queue}}

\* loadLocalSchema: what a build ships.
LocalSchema(b) == [migrations |-> Shipped[b], queue |-> QueueSchema[b], releases |-> Published[b]]

\* checkCompatibility.
DomainCheck(b, history) ==
    LET shipped == LocalSchema(b).migrations
    IN  IF history = <<>> THEN "not-migrated"
        ELSE IF \E i \in DOMAIN history \cap DOMAIN shipped : history[i] # shipped[i] THEN "diverged"
        ELSE IF Len(history) < Len(shipped) THEN "pending"
        ELSE "ok"
CheckCompatibility(b, database) ==
    LET domain == DomainCheck(b, database.history)
        certified == IF b \in Development THEN database.history = Shipped[b]
                     ELSE b \in Certified(database)
    IN  IF domain # "ok" THEN domain
        ELSE IF database.queue < QueueSchema[b] THEN "pending"
        ELSE IF database.queue = QueueSchema[b] /\ certified THEN "ok" ELSE "uncertified"

\* Mutant: a migration that breaks an earlier release does not stop its certificate.
CertifiesAll(b) == {b} \cup Published[b]

\* releasesToCertify: the build itself, and the published releases on the same queue schema that
\* every later migration left working.
ReleasesToCertify(b) ==
    LET local == LocalSchema(b)
    IN  {b} \cup {r \in local.releases :
                    /\ QueueSchema[r] = local.queue
                    /\ \A i \in (Len(Shipped[r]) + 1)..Len(local.migrations) :
                            local.migrations[i] \in Expanding}

-----------------------------------------------------------------------------
(* Services. *)

SharedHeld == {p \in Programs : program[p].lock} # {}
ExclusiveHeld == \E b \in Builds : migration[b] # "idle"

\* claimDeployment: refused while a migration runs.
ClaimDeployment(p, b) ==
    /\ program[p].pc = "down" /\ ~ExclusiveHeld
    /\ program' = [program EXCEPT ![p] = [pc |-> "claimed", build |-> b, lock |-> TRUE]]
    /\ UNCHANGED <<gatewayDb, migration, dumping, archives, audit, accidents>>

Stopped(p) == [program EXCEPT ![p] = [@ EXCEPT !.pc = "down", !.lock = FALSE]]

\* requireCompatibleSchema.
RequireCompatible(p) ==
    /\ program[p].pc = "claimed"
    /\ program' = IF CheckCompatibility(program[p].build, gatewayDb) = "ok"
                  THEN [program EXCEPT ![p].pc = "up"] ELSE Stopped(p)
    /\ UNCHANGED <<gatewayDb, migration, dumping, archives, audit, accidents>>

\* The lock's connection is gone; the heartbeat notices later and the process exits.
LoseLock(p) ==
    /\ program[p].lock /\ Accident
    /\ program' = [program EXCEPT ![p].lock = FALSE]
    /\ UNCHANGED <<gatewayDb, migration, dumping, archives, audit>>
ExitOnLostLock(p) ==
    /\ program[p].pc # "down" /\ ~program[p].lock
    /\ program' = Stopped(p)
    /\ UNCHANGED <<gatewayDb, migration, dumping, archives, audit, accidents>>
Shutdown(p) ==
    /\ program[p].pc = "up"
    /\ program' = Stopped(p)
    /\ UNCHANGED <<gatewayDb, migration, dumping, archives, audit, accidents>>

-----------------------------------------------------------------------------
(* gateway db migrate. *)

Migrates(b, pc) == migration' = [migration EXCEPT ![b] = pc]

BeginMigration(b) ==
    /\ ~SharedHeld /\ ~ExclusiveHeld
    /\ Migrates(b, "check")
    /\ UNCHANGED <<gatewayDb, program, dumping, archives, audit, accidents>>

\* An older build never rewrites a newer schema, nor another history.
CheckHistory(b) ==
    /\ migration[b] = "check"
    /\ Migrates(b, IF \/ DomainCheck(b, gatewayDb.history) = "diverged"
                   \/ Len(gatewayDb.history) > Len(Shipped[b])
                   \/ gatewayDb.queue > QueueSchema[b]
                THEN "idle" ELSE "apply")
    /\ UNCHANGED <<gatewayDb, program, dumping, archives, audit, accidents>>

\* The migrator applies what is pending in one transaction.
ApplyMigrations(b) ==
    /\ migration[b] = "apply"
    /\ gatewayDb' = [gatewayDb EXCEPT !.history = Shipped[b]]
    /\ Migrates(b, "queues")
    /\ UNCHANGED <<program, dumping, archives, audit, accidents>>
MigrateQueues(b) ==
    /\ migration[b] = "queues"
    /\ gatewayDb' = [gatewayDb EXCEPT !.queue = QueueSchema[b]]
    /\ Migrates(b, "certify")
    /\ UNCHANGED <<program, dumping, archives, audit, accidents>>

\* Certificates come last; the fingerprint is the build's own.
CertifyReleases(b) ==
    /\ migration[b] = "certify"
    /\ gatewayDb' = [gatewayDb EXCEPT !.certificates =
                   @ \cup {[release |-> r, history |-> Shipped[b], queue |-> QueueSchema[b]] :
                           r \in ReleasesToCertify(b)}]
    /\ Migrates(b, "idle")
    /\ UNCHANGED <<program, dumping, archives, audit, accidents>>

MigrationDies(b) ==
    /\ migration[b] # "idle" /\ Accident
    /\ Migrates(b, "idle")
    /\ UNCHANGED <<gatewayDb, program, dumping, archives, audit>>

-----------------------------------------------------------------------------
(* backup-gateway-db.sh takes no lock: a migration may run under it. *)

CountMigrations ==
    /\ dumping.pc = "idle" /\ Len(archives) < MaxArchives /\ gatewayDb.history # <<>>
    /\ dumping' = [NoDump EXCEPT !.pc = "counted", !.count = Len(gatewayDb.history)]
    /\ UNCHANGED <<gatewayDb, program, migration, archives, audit, accidents>>
NoteLatest ==
    /\ dumping.pc = "counted"
    /\ dumping' = [dumping EXCEPT !.pc = "noted", !.latest = LatestOf(gatewayDb.history)]
    /\ UNCHANGED <<gatewayDb, program, migration, archives, audit, accidents>>
DumpDatabase ==
    /\ dumping.pc = "noted"
    /\ dumping' = [dumping EXCEPT !.pc = "dumped", !.archive = gatewayDb]
    /\ UNCHANGED <<gatewayDb, program, migration, archives, audit, accidents>>

\* The schema changed while the backup ran: refused.
Unchanged == dumping.count = Len(gatewayDb.history) /\ dumping.latest = LatestOf(gatewayDb.history)

\* Mutant: the schema is not looked at again.
PublishAnyway ==
    /\ dumping.pc = "dumped"
    /\ archives' = Append(archives, [count |-> dumping.count, latest |-> dumping.latest,
                                     data |-> dumping.archive, whole |-> TRUE])
    /\ dumping' = NoDump
    /\ UNCHANGED <<gatewayDb, program, migration, audit, accidents>>

\* The manifest is written last: a dump without one is never picked.
PublishManifest ==
    /\ dumping.pc = "dumped"
    /\ archives' = IF Unchanged
                   THEN Append(archives, [count |-> dumping.count, latest |-> dumping.latest,
                                          data |-> dumping.archive, whole |-> TRUE])
                   ELSE archives
    /\ dumping' = NoDump
    /\ UNCHANGED <<gatewayDb, program, migration, audit, accidents>>
DumpDies ==
    /\ dumping.pc # "idle" /\ Accident
    /\ dumping' = NoDump
    /\ UNCHANGED <<gatewayDb, program, migration, archives, audit>>
DamageArchive ==
    /\ archives # <<>> /\ Last(archives).whole /\ Accident
    /\ archives' = [archives EXCEPT ![Len(archives)].whole = FALSE]
    /\ UNCHANGED <<gatewayDb, program, migration, dumping, audit>>

\* restore.sh, onto a host of its own: it refuses an archive whose checksums differ.
RestoreArchive ==
    /\ archives # <<>> /\ Last(archives).whole
    /\ \A p \in Programs : program[p].pc = "down"
    /\ ~ExclusiveHeld /\ dumping.pc = "idle" /\ audit.pc = "idle"
    /\ gatewayDb' = Last(archives).data
    /\ UNCHANGED <<program, migration, dumping, archives, audit, accidents>>

-----------------------------------------------------------------------------
(* gateway backup check --restore-test. *)

\* dumpChecks, liveChecks and tocChecks of the newest archive.
BackupChecks(a) ==
    /\ a.whole
    /\ a.count <= Len(gatewayDb.history)
    /\ a.count = Len(gatewayDb.history) => a.latest = LatestOf(gatewayDb.history)

\* The scratch URL may reach the live database under another name; the live URL may reach its
\* primary, a standby or nothing.
BeginRestoreTest(target, reach) ==
    /\ audit.pc = "idle" /\ archives # <<>> /\ BackupChecks(Last(archives))
    /\ audit' = [pc |-> "prove", target |-> target, reach |-> reach]
    /\ UNCHANGED <<gatewayDb, program, migration, dumping, archives, accidents>>

\* Mutant: whoever answers is believed.
ProvenByAnyone == CASE audit.reach = "nothing" -> {FALSE}
                    [] audit.reach = "standby" -> {audit.target # "live", TRUE}
                    [] OTHER -> {audit.target # "live"}

\* provesDistinct: a standby's answer, which may lag, proves nothing.
ProvesDistinct == {audit.target # "live" /\ audit.reach = "primary"}

ProbeScratch ==
    /\ audit.pc = "prove"
    /\ \E proven \in ProvesDistinct :
        audit' = IF proven THEN [audit EXCEPT !.pc = "reset"] ELSE NoAudit
    /\ UNCHANGED <<gatewayDb, program, migration, dumping, archives, accidents>>

\* resetScratch, then the restore and its checks.
RestoreScratch ==
    /\ audit.pc = "reset"
    /\ gatewayDb' = IF audit.target = "live" THEN Unmigrated ELSE gatewayDb
    /\ audit' = NoAudit
    /\ UNCHANGED <<program, migration, dumping, archives, accidents>>

-----------------------------------------------------------------------------
DeploymentTypeOK ==
    /\ gatewayDb.history \in Range(Shipped) \cup {<<>>}
    /\ gatewayDb.queue \in Range(QueueSchema) \cup {0}
    /\ \A p \in Programs : /\ program[p].pc \in {"down", "claimed", "up"}
                           /\ program[p].build \in Builds /\ program[p].lock \in BOOLEAN
    /\ migration \in [Builds -> {"idle", "check", "apply", "queues", "certify"}]
    /\ dumping.pc \in {"idle", "counted", "noted", "dumped"}
    /\ audit \in [pc: {"idle", "prove", "reset"}, target: {"live", "other"},
                  reach: {"primary", "standby", "nothing"}]
    /\ Len(archives) <= MaxArchives /\ accidents \in 0..MaxAccidents

DeploymentInit ==
    /\ gatewayDb = Unmigrated
    /\ program = [p \in Programs |->
                    [pc |-> "down", build |-> CHOOSE b \in Builds : TRUE, lock |-> FALSE]]
    /\ migration = [b \in Builds |-> "idle"]
    /\ dumping = NoDump /\ archives = <<>> /\ audit = NoAudit /\ accidents = 0

DeploymentNext ==
    \/ \E p \in Programs, b \in Builds : ClaimDeployment(p, b)
    \/ \E p \in Programs : RequireCompatible(p) \/ LoseLock(p) \/ ExitOnLostLock(p) \/ Shutdown(p)
    \/ \E b \in Builds :
        \/ BeginMigration(b) \/ CheckHistory(b) \/ ApplyMigrations(b) \/ MigrateQueues(b)
        \/ CertifyReleases(b) \/ MigrationDies(b)
    \/ CountMigrations \/ NoteLatest \/ DumpDatabase \/ PublishManifest \/ DumpDies
    \/ DamageArchive \/ RestoreArchive
    \/ \E target \in {"live", "other"}, reach \in {"primary", "standby", "nothing"} :
        BeginRestoreTest(target, reach)
    \/ ProbeScratch \/ RestoreScratch

DeploymentSpec == DeploymentInit /\ [][DeploymentNext]_deploymentVars

-----------------------------------------------------------------------------
\* A service that holds its lock runs on a schema its build works on: its own migrations, after
\* them only ones that kept earlier releases working, and its own queue schema.  So it is
\* through interrupted upgrades, rollbacks and restores.
RunsOnItsSchema ==
    \A p \in Programs : program[p].pc = "up" /\ program[p].lock =>
        LET own == Shipped[program[p].build]
        IN  /\ IsPrefix(own, gatewayDb.history)
            /\ \A i \in (Len(own) + 1)..Len(gatewayDb.history) : gatewayDb.history[i] \in Expanding
            /\ gatewayDb.queue = QueueSchema[program[p].build]

\* A backup that has its manifest holds the schema the manifest names, whatever migration ran
\* under the dump.
ManifestsAreTrue ==
    \A i \in DOMAIN archives :
        /\ archives[i].count = Len(archives[i].data.history)
        /\ archives[i].latest = LatestOf(archives[i].data.history)

\* No restore test ever empties the live database, whatever its two URLs reach.
LiveIsNeverEmptied == [][gatewayDb.history # <<>> => gatewayDb'.history # <<>>]_deploymentVars

=============================================================================
