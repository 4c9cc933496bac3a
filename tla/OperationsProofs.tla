-------------------------- MODULE OperationsProofs --------------------------
(***************************************************************************)
(* Proofs about the components behind the conversations, for every value   *)
(* of the constants.                                                       *)
(*   Deployment: a service runs only on the schema it was built for, a     *)
(*   manifest tells what its archive holds, and a restore never empties    *)
(*   the database that is live.                                            *)
(*   RuntimeHealth: an outage is settled in time, and only a change that   *)
(*   lasted is.                                                            *)
(*   Alerts: what lasts is alerted in time, and a flapping connection is   *)
(*   one outage.                                                           *)
(***************************************************************************)
EXTENDS Deployment, RuntimeHealth, Alerts, TLAPS

(* Deployment. *)

\* The histories a database may have.
Versions == {<<>>} \cup {Shipped[b] : b \in Builds}

\* A certificate that CertifyReleases of some build wrote.
Certificates ==
    {c \in [release: Builds, history: Versions, queue: Nat] :
        \E b \in Builds : /\ c.release \in ReleasesToCertify(b)
                          /\ c.history = Shipped[b] /\ c.queue = QueueSchema[b]}

Databases == [history: Versions, queue: {0} \cup {QueueSchema[b] : b \in Builds},
              certificates: SUBSET Certificates]

\* An archive whose manifest describes it.
Archives ==
    {a \in [count: Nat, latest: {LatestOf(h) : h \in Versions}, data: Databases, whole: BOOLEAN] :
        /\ a.data.history # <<>>
        /\ a.count = Len(a.data.history) /\ a.latest = LatestOf(a.data.history)}

\* What is stored has its type, and what it certifies and describes is so.
StoredIsSound ==
    /\ gatewayDb \in Databases
    /\ program \in [Programs -> [pc: {"down", "claimed", "up"}, build: Builds, lock: BOOLEAN]]
    /\ migration \in [Builds -> {"idle", "check", "apply", "queues", "certify"}]
    /\ dumping \in [pc: {"idle", "counted", "noted", "dumped"}, count: Nat,
                    latest: {LatestOf(h) : h \in Versions}, archive: Databases]
    /\ archives \in Seq(Archives) /\ Len(archives) <= MaxArchives
    /\ audit \in [pc: {"idle", "prove", "reset"}, target: {"live", "other"},
                  reach: {"primary", "standby", "nothing"}]
    /\ accidents \in 0..MaxAccidents

\* The deployment lock: a migration runs alone.
LockExcludes ==
    \A b \in Builds : migration[b] # "idle" =>
        /\ \A p \in Programs : ~program[p].lock
        /\ \A c \in Builds : migration[c] # "idle" => c = b

\* h continues g.
Continues(g, h) == Len(g) <= Len(h) /\ \A i \in 1..Len(g) : g[i] = h[i]

\* A migration that passed its check continues the database's history.
MigrationContinues ==
    \A b \in Builds : migration[b] = "apply" => Continues(gatewayDb.history, Shipped[b])

\* What the dump has read of the schema is a past of what the database has now.
DumpIsPast ==
    /\ dumping.pc # "idle" => gatewayDb.history # <<>> /\ Len(archives) < MaxArchives
    /\ dumping.pc \in {"counted", "noted"} => dumping.count <= Len(gatewayDb.history)
    /\ dumping.pc = "dumped" => /\ dumping.archive.history # <<>>
                                /\ dumping.count <= Len(dumping.archive.history)
                                /\ Continues(dumping.archive.history, gatewayDb.history)

\* Only a scratch database that was proven distinct is reset.
ScratchIsDistinct == audit.pc = "reset" => audit.target = "other"

DeploymentInv ==
    /\ StoredIsSound /\ LockExcludes /\ MigrationContinues /\ DumpIsPast /\ ScratchIsDistinct
    /\ RunsOnItsSchema

-----------------------------------------------------------------------------
\* What a build ships is a sequence.
LEMMA ShippedType ==
    ASSUME NEW b \in Builds
    PROVE  /\ Shipped[b] \in Seq(Range(Shipped[b])) /\ Shipped[b] # <<>> /\ Shipped[b] \in Versions
           /\ Len(Shipped[b]) \in Nat \ {0} /\ DOMAIN Shipped[b] = 1..Len(Shipped[b])
           /\ QueueSchema[b] \in Nat \ {0}
BY DeploymentAssumption DEF Versions

\* The tables of a version.
LEMMA VersionType ==
    ASSUME NEW h \in Versions
    PROVE  /\ Len(h) \in Nat /\ DOMAIN h = 1..Len(h) /\ (h = <<>> <=> Len(h) = 0)
<1>1. CASE h = <<>>
  BY <1>1
<1>2. CASE h # <<>>
  BY <1>2, ShippedType DEF Versions
<1> QED BY <1>1, <1>2

\* Continuing is reflexive and transitive.
LEMMA ContinuesOrder ==
    ASSUME NEW f \in Versions, NEW g \in Versions, NEW h \in Versions
    PROVE  /\ Continues(f, f) /\ (Continues(f, g) /\ Continues(g, h) => Continues(f, h))
           /\ (Continues(f, g) /\ f # <<>> => g # <<>>)
BY VersionType DEF Continues

\* Continuing without growing is no change of the version.
LEMMA SameVersion ==
    ASSUME NEW g \in Versions, NEW h \in Versions, Continues(g, h), Len(g) = Len(h)
    PROVE  LatestOf(g) = LatestOf(h)
BY VersionType DEF Continues, LatestOf, Last

\* A program that the check lets run works on the schema.
LEMMA CompatibleWorks ==
    ASSUME NEW b \in Builds, gatewayDb \in Databases, CheckCompatibility(b, gatewayDb) = "ok"
    PROVE  /\ IsPrefix(Shipped[b], gatewayDb.history)
           /\ \A i \in (Len(Shipped[b]) + 1)..Len(gatewayDb.history) :
                    gatewayDb.history[i] \in Expanding
           /\ gatewayDb.queue = QueueSchema[b]
<1>1. /\ gatewayDb.queue = QueueSchema[b]
      /\ IF b \in Development THEN gatewayDb.history = Shipped[b] ELSE b \in Certified(gatewayDb)
  BY DEF CheckCompatibility
<1>3. IsPrefix(Shipped[b], Shipped[b])
  BY ShippedType DEF IsPrefix
<1>4. CASE b \in Development
  <2>1. gatewayDb.history = Shipped[b]
    BY <1>1, <1>4
  <2> QED BY <2>1, <1>1, <1>3, ShippedType
<1>5. CASE b \notin Development
  <2>1. PICK c \in gatewayDb.certificates :
             c.release = b /\ c.history = gatewayDb.history /\ c.queue = gatewayDb.queue
    BY <1>1, <1>5 DEF Certified
  <2>2. PICK d \in Builds : /\ b \in ReleasesToCertify(d)
                            /\ gatewayDb.history = Shipped[d] /\ gatewayDb.queue = QueueSchema[d]
    BY <2>1 DEF Databases, Certificates
  <2>3. CASE b = d
    BY <2>2, <2>3, <1>1, <1>3, ShippedType
  <2>4. CASE b # d
    <3>1. /\ b \in Published[d]
          /\ \A i \in (Len(Shipped[b]) + 1)..Len(Shipped[d]) : Shipped[d][i] \in Expanding
      BY <2>2, <2>4 DEF ReleasesToCertify, LocalSchema
    <3>2. IsPrefix(Shipped[b], Shipped[d])
      BY <3>1, DeploymentAssumption
    <3> QED BY <3>1, <3>2, <1>1, <2>2
  <2> QED BY <2>3, <2>4
<1> QED BY <1>4, <1>5

-----------------------------------------------------------------------------
\* The invariant holds at the start.
LEMMA DeploymentInitInv == DeploymentInit => DeploymentInv
<1> SUFFICES ASSUME DeploymentInit PROVE DeploymentInv
  OBVIOUS
<1>1. (CHOOSE b \in Builds : TRUE) \in Builds
  BY DeploymentAssumption
<1>2. Unmigrated \in Databases
  BY DEF Unmigrated, Databases, Versions
<1>3. StoredIsSound
  BY <1>1, <1>2, DeploymentAssumption
     DEF DeploymentInit, StoredIsSound, NoDump, NoAudit, Versions, LatestOf
<1> QED
  BY <1>3 DEF DeploymentInit, DeploymentInv, LockExcludes, MigrationContinues, DumpIsPast,
              ScratchIsDistinct, RunsOnItsSchema, NoDump, NoAudit

\* While the database stays as it is, a step of the services keeps the invariant if it runs
\* nothing that was not checked and takes no lock a migration holds.
LEMMA ProgramStep ==
    ASSUME DeploymentInv, NEW p \in Programs, UNCHANGED <<gatewayDb, migration, dumping, archives, audit>>,
           accidents' \in 0..MaxAccidents,
           NEW next \in [pc: {"down", "claimed", "up"}, build: Builds, lock: BOOLEAN],
           program' = [program EXCEPT ![p] = next],
           next.lock => program[p].lock \/ ~ExclusiveHeld,
           next.pc = "up" =>
               /\ next.build = program[p].build
               /\ (next.lock => program[p].lock)
               /\ program[p].pc = "up" \/ CheckCompatibility(next.build, gatewayDb) = "ok"
    PROVE  DeploymentInv'
<1> USE DEF DeploymentInv
<1>1. StoredIsSound'
  BY DEF StoredIsSound
<1>2. LockExcludes'
  BY DEF StoredIsSound, LockExcludes, ExclusiveHeld
<1>3. MigrationContinues' /\ DumpIsPast' /\ ScratchIsDistinct'
  BY DEF MigrationContinues, DumpIsPast, ScratchIsDistinct
<1>4. RunsOnItsSchema'
  <2> SUFFICES ASSUME NEW q \in Programs, program'[q].pc = "up", program'[q].lock
               PROVE  /\ IsPrefix(Shipped[program'[q].build], gatewayDb.history)
                      /\ \A i \in (Len(Shipped[program'[q].build]) + 1)..Len(gatewayDb.history) :
                            gatewayDb.history[i] \in Expanding
                      /\ gatewayDb.queue = QueueSchema[program'[q].build]
    BY DEF RunsOnItsSchema
  <2>1. CASE q = p /\ program[p].pc # "up"
    <3>1. program'[q].build \in Builds /\ CheckCompatibility(program'[q].build, gatewayDb) = "ok"
      BY <2>1 DEF StoredIsSound
    <3> QED BY <3>1, CompatibleWorks DEF StoredIsSound
  <2>2. CASE q # p \/ program[p].pc = "up"
    <3>1. program[q].pc = "up" /\ program[q].lock /\ program'[q].build = program[q].build
      BY <2>2 DEF StoredIsSound
    <3> QED BY <3>1 DEF RunsOnItsSchema
  <2> QED BY <2>1, <2>2
<1> QED BY <1>1, <1>2, <1>3, <1>4

\* A step of a migration keeps the invariant if it continues the history under the lock.
LEMMA MigrationStep ==
    ASSUME DeploymentInv, NEW b \in Builds, UNCHANGED <<program, dumping, archives, audit>>,
           accidents' \in 0..MaxAccidents,
           NEW pc \in {"idle", "check", "apply", "queues", "certify"},
           migration' = [migration EXCEPT ![b] = pc],
           pc # "idle" => migration[b] # "idle" \/ (~SharedHeld /\ ~ExclusiveHeld),
           pc = "apply" => Continues(gatewayDb'.history, Shipped[b]),
           gatewayDb' \in Databases,
           gatewayDb' = gatewayDb \/ migration[b] # "idle",
           Continues(gatewayDb.history, gatewayDb'.history)
    PROVE  DeploymentInv'
<1> USE DEF DeploymentInv
<1>1. StoredIsSound'
  BY DEF StoredIsSound
<1>2. LockExcludes'
  <2>1. CASE migration[b] # "idle" \/ pc = "idle"
    BY <2>1 DEF StoredIsSound, LockExcludes
  <2>2. CASE ~SharedHeld /\ ~ExclusiveHeld
    BY <2>2 DEF StoredIsSound, LockExcludes, SharedHeld, ExclusiveHeld
  <2> QED BY <2>1, <2>2
<1>3. MigrationContinues'
  <2> SUFFICES ASSUME NEW c \in Builds, migration'[c] = "apply"
               PROVE  Continues(gatewayDb'.history, Shipped[c])
    BY DEF MigrationContinues
  <2>1. CASE c = b
    BY <2>1 DEF StoredIsSound
  <2>2. CASE c # b
    <3>1. migration[c] = "apply" /\ Continues(gatewayDb.history, Shipped[c])
      BY <2>2 DEF StoredIsSound, MigrationContinues
    <3>2. gatewayDb' = gatewayDb
      BY <2>2, <3>1 DEF LockExcludes
    <3> QED BY <3>1, <3>2
  <2> QED BY <2>1, <2>2
<1>4. DumpIsPast'
  <2>1. gatewayDb.history \in Versions /\ gatewayDb'.history \in Versions
        /\ dumping.archive.history \in Versions
    BY DEF StoredIsSound, Databases
  <2>2. dumping.pc # "idle" => gatewayDb'.history # <<>>
    BY <2>1, ContinuesOrder DEF DumpIsPast
  <2>3. dumping.count <= Len(gatewayDb.history) => dumping.count <= Len(gatewayDb'.history)
    BY <2>1, VersionType DEF Continues, StoredIsSound
  <2>4. dumping.pc = "dumped" => Continues(dumping.archive.history, gatewayDb'.history)
    BY <2>1, ContinuesOrder DEF DumpIsPast
  <2> QED BY <2>2, <2>3, <2>4 DEF DumpIsPast
<1>5. ScratchIsDistinct'
  BY DEF ScratchIsDistinct
<1>6. RunsOnItsSchema'
  <2>1. CASE gatewayDb' = gatewayDb
    BY <2>1 DEF RunsOnItsSchema
  <2>2. CASE migration[b] # "idle"
    BY <2>2 DEF LockExcludes, RunsOnItsSchema
  <2> QED BY <2>1, <2>2
<1> QED BY <1>1, <1>2, <1>3, <1>4, <1>5, <1>6

\* A step of the backup or of the restore test that leaves the database alone.
LEMMA BackupStep ==
    ASSUME DeploymentInv, UNCHANGED <<gatewayDb, program, migration>>, StoredIsSound', DumpIsPast',
           ScratchIsDistinct'
    PROVE  DeploymentInv'
BY DEF DeploymentInv, LockExcludes, MigrationContinues, RunsOnItsSchema

\* The check lets only a migration apply that continues the history.
LEMMA CheckedContinues ==
    ASSUME NEW b \in Builds, NEW h \in Versions, DomainCheck(b, h) # "diverged",
           ~(Len(h) > Len(Shipped[b]))
    PROVE  Continues(h, Shipped[b])
<1>1. /\ Len(h) \in Nat /\ Len(Shipped[b]) \in Nat /\ DOMAIN h = 1..Len(h)
      /\ DOMAIN Shipped[b] = 1..Len(Shipped[b])
  BY VersionType, ShippedType
<1>2. CASE h = <<>>
  BY <1>1, <1>2 DEF Continues
<1>3. CASE h # <<>>
  <2>1. \A i \in DOMAIN h \cap DOMAIN Shipped[b] : h[i] = Shipped[b][i]
    BY <1>3 DEF DomainCheck, LocalSchema
  <2> QED BY <1>1, <2>1 DEF Continues
<1> QED BY <1>2, <1>3

\* Every action keeps the invariant.
LEMMA DeploymentStepInv == DeploymentInv /\ [DeploymentNext]_deploymentVars => DeploymentInv'
<1> SUFFICES ASSUME DeploymentInv, [DeploymentNext]_deploymentVars PROVE DeploymentInv'
  OBVIOUS
<1> DEFINE History == gatewayDb.history
<1>t. /\ StoredIsSound /\ gatewayDb \in Databases /\ History \in Versions
      /\ dumping.archive.history \in Versions /\ accidents \in 0..MaxAccidents
  BY DEF DeploymentInv, StoredIsSound, Databases
<1>a. Accident => accidents' \in 0..MaxAccidents
  BY <1>t, DeploymentAssumption DEF Accident
<1>c. Continues(History, History)
  BY <1>t, ContinuesOrder
<1>1. ASSUME NEW p \in Programs, NEW b \in Builds, ClaimDeployment(p, b) PROVE DeploymentInv'
  <2> DEFINE next == [pc |-> "claimed", build |-> b, lock |-> TRUE]
  <2> QED BY <1>1, <1>t, ProgramStep DEF ClaimDeployment
<1>2. ASSUME NEW p \in Programs,
             RequireCompatible(p) \/ LoseLock(p) \/ ExitOnLostLock(p) \/ Shutdown(p)
      PROVE  DeploymentInv'
  <2>1. /\ program[p] \in [pc: {"down", "claimed", "up"}, build: Builds, lock: BOOLEAN]
        /\ accidents' \in 0..MaxAccidents
    BY <1>2, <1>t, <1>a DEF StoredIsSound, RequireCompatible, LoseLock, ExitOnLostLock, Shutdown
  <2>2. ASSUME NEW q \in [pc: {"down", "claimed", "up"}, build: Builds, lock: BOOLEAN],
               program' = [program EXCEPT ![p] = q], q.build = program[p].build,
               q.lock => program[p].lock,
               q.pc = "up" => \/ program[p].pc = "up"
                              \/ CheckCompatibility(q.build, gatewayDb) = "ok"
        PROVE  DeploymentInv'
    <3>1. UNCHANGED <<gatewayDb, migration, dumping, archives, audit>>
      BY <1>2 DEF RequireCompatible, LoseLock, ExitOnLostLock, Shutdown
    <3> QED BY <2>1, <2>2, <3>1, ProgramStep
  <2>3. CASE RequireCompatible(p) /\ CheckCompatibility(program[p].build, gatewayDb) = "ok"
    <3>1. program' = [program EXCEPT ![p] = [program[p] EXCEPT !.pc = "up"]]
      BY <2>3 DEF RequireCompatible
    <3> QED BY <2>1, <2>2, <2>3, <3>1
  <2>4. CASE LoseLock(p)
    <3>1. program' = [program EXCEPT ![p] = [program[p] EXCEPT !.lock = FALSE]]
      BY <2>4 DEF LoseLock
    <3> QED BY <2>1, <2>2, <3>1
  <2>5. CASE program' = Stopped(p)
    <3>1. program' = [program EXCEPT ![p] = [program[p] EXCEPT !.pc = "down", !.lock = FALSE]]
      BY <2>5 DEF Stopped
    <3> QED BY <2>1, <2>2, <3>1
  <2> QED BY <1>2, <2>3, <2>4, <2>5 DEF RequireCompatible, ExitOnLostLock, Shutdown
<1>3. ASSUME NEW b \in Builds, BeginMigration(b) PROVE DeploymentInv'
  BY <1>3, <1>t, <1>c, MigrationStep DEF BeginMigration, Migrates
<1>4. ASSUME NEW b \in Builds, CheckHistory(b) PROVE DeploymentInv'
  <2>1. ASSUME NEW pc \in {"idle", "apply"}, migration' = [migration EXCEPT ![b] = pc],
               pc = "apply" => Continues(History, Shipped[b])
        PROVE  DeploymentInv'
    BY <1>4, <2>1, <1>t, <1>c, MigrationStep DEF CheckHistory
  <2>2. CASE DomainCheck(b, History) # "diverged" /\ ~(Len(History) > Len(Shipped[b]))
    BY <1>4, <2>1, <2>2, <1>t, CheckedContinues DEF CheckHistory, Migrates
  <2>3. CASE ~(DomainCheck(b, History) # "diverged" /\ ~(Len(History) > Len(Shipped[b])))
    BY <1>4, <2>1, <2>3 DEF CheckHistory, Migrates
  <2> QED BY <2>2, <2>3
<1>5. ASSUME NEW b \in Builds, ApplyMigrations(b) PROVE DeploymentInv'
  <2>1. gatewayDb' \in Databases /\ gatewayDb'.history = Shipped[b]
    BY <1>5, <1>t, ShippedType DEF ApplyMigrations, Databases
  <2>2. Continues(History, Shipped[b])
    BY <1>5 DEF ApplyMigrations, DeploymentInv, MigrationContinues
  <2> QED BY <1>5, <1>t, <2>1, <2>2, MigrationStep DEF ApplyMigrations, Migrates
<1>6. ASSUME NEW b \in Builds, MigrateQueues(b) PROVE DeploymentInv'
  <2>1. gatewayDb' \in Databases /\ gatewayDb'.history = History
    BY <1>6, <1>t DEF MigrateQueues, Databases
  <2> QED BY <1>6, <1>t, <1>c, <2>1, MigrationStep DEF MigrateQueues, Migrates
<1>7. ASSUME NEW b \in Builds, CertifyReleases(b) PROVE DeploymentInv'
  <2>1. ReleasesToCertify(b) \subseteq Builds
    BY DeploymentAssumption DEF ReleasesToCertify, LocalSchema
  <2>2. ASSUME NEW r \in ReleasesToCertify(b)
        PROVE  [release |-> r, history |-> Shipped[b], queue |-> QueueSchema[b]] \in Certificates
    BY <2>1, <2>2, ShippedType DEF Certificates
  <2>3. gatewayDb' \in Databases /\ gatewayDb'.history = History
    BY <1>7, <1>t, <2>2 DEF CertifyReleases, Databases
  <2> QED BY <1>7, <1>t, <1>c, <2>3, MigrationStep DEF CertifyReleases, Migrates
<1>8. ASSUME NEW b \in Builds, MigrationDies(b) PROVE DeploymentInv'
  BY <1>8, <1>t, <1>a, <1>c, MigrationStep DEF MigrationDies, Migrates
<1>9. ASSUME CountMigrations PROVE DeploymentInv'
  <2>1. Unmigrated \in Databases /\ LatestOf(<<>>) = <<>> /\ <<>> \in Versions
    BY DEF Unmigrated, Databases, Versions, LatestOf
  <2>2. Len(History) \in Nat
    BY <1>t, VersionType
  <2>3. StoredIsSound'
    BY <1>9, <1>t, <2>1, <2>2 DEF CountMigrations, StoredIsSound, NoDump
  <2>4. DumpIsPast' /\ ScratchIsDistinct'
    BY <1>9, <2>2 DEF CountMigrations, DumpIsPast, ScratchIsDistinct, NoDump, DeploymentInv
  <2> QED BY <1>9, <2>3, <2>4, BackupStep DEF CountMigrations
<1>10. ASSUME NoteLatest PROVE DeploymentInv'
  <2>1. StoredIsSound'
    BY <1>10, <1>t DEF NoteLatest, StoredIsSound
  <2>2. DumpIsPast' /\ ScratchIsDistinct'
    BY <1>10, <1>t DEF NoteLatest, DumpIsPast, ScratchIsDistinct, DeploymentInv, StoredIsSound
  <2> QED BY <1>10, <2>1, <2>2, BackupStep DEF NoteLatest
<1>11. ASSUME DumpDatabase PROVE DeploymentInv'
  <2>1. StoredIsSound'
    BY <1>11, <1>t DEF DumpDatabase, StoredIsSound
  <2>2. DumpIsPast' /\ ScratchIsDistinct'
    BY <1>11, <1>t, <1>c DEF DumpDatabase, DumpIsPast, ScratchIsDistinct, DeploymentInv, StoredIsSound
  <2> QED BY <1>11, <2>1, <2>2, BackupStep DEF DumpDatabase
<1>12. ASSUME PublishManifest PROVE DeploymentInv'
  <2>1. NoDump \in [pc: {"idle", "counted", "noted", "dumped"}, count: Nat,
                    latest: {LatestOf(h) : h \in Versions}, archive: Databases]
    BY DEF NoDump, Unmigrated, Databases, Versions, LatestOf
  <2> DEFINE new == [count |-> dumping.count, latest |-> dumping.latest,
                     data |-> dumping.archive, whole |-> TRUE]
  <2>2. Unchanged => new \in Archives
    <3> SUFFICES ASSUME Unchanged PROVE new \in Archives
      OBVIOUS
    <3> DEFINE old == dumping.archive.history
    <3>1. /\ old # <<>> /\ dumping.count <= Len(old) /\ Continues(old, History)
      BY <1>12 DEF PublishManifest, DeploymentInv, DumpIsPast
    <3>2. Len(old) = Len(History)
      BY <3>1, <1>t, VersionType DEF Continues, Unchanged, StoredIsSound
    <3>3. dumping.latest = LatestOf(old) /\ dumping.count = Len(old)
      BY <3>1, <3>2, <1>t, SameVersion DEF Unchanged
    <3> QED BY <3>1, <3>3, <1>t DEF Archives, StoredIsSound
  <2>3. archives' \in Seq(Archives) /\ Len(archives') <= MaxArchives
    <3>1. CASE Unchanged
      <4>1. archives' = Append(archives, new) /\ Len(archives) < MaxArchives
        BY <1>12, <3>1 DEF PublishManifest, DeploymentInv, DumpIsPast
      <4>2. archives \in Seq(Archives) /\ new \in Archives /\ MaxArchives \in Nat
        BY <1>t, <2>2, <3>1, DeploymentAssumption DEF StoredIsSound
      <4> HIDE DEF new
      <4> QED BY <4>1, <4>2
    <3>2. CASE ~Unchanged
      BY <1>12, <1>t, <3>2 DEF PublishManifest, StoredIsSound
    <3> QED BY <3>1, <3>2
  <2> QED BY <1>12, <1>t, <2>1, <2>3, BackupStep
          DEF PublishManifest, StoredIsSound, DumpIsPast, ScratchIsDistinct, NoDump, DeploymentInv
<1>13. ASSUME DumpDies PROVE DeploymentInv'
  <2>1. NoDump \in [pc: {"idle", "counted", "noted", "dumped"}, count: Nat,
                    latest: {LatestOf(h) : h \in Versions}, archive: Databases]
    BY DEF NoDump, Unmigrated, Databases, Versions, LatestOf
  <2> QED BY <1>13, <1>t, <1>a, <2>1, BackupStep
          DEF DumpDies, StoredIsSound, DumpIsPast, ScratchIsDistinct, NoDump, DeploymentInv
<1>14. ASSUME DamageArchive PROVE DeploymentInv'
  <2>1. archives' \in Seq(Archives) /\ Len(archives') = Len(archives)
    <3>1. Len(archives) \in DOMAIN archives /\ archives[Len(archives)] \in Archives
      BY <1>14, <1>t DEF DamageArchive, StoredIsSound
    <3>2. [archives[Len(archives)] EXCEPT !.whole = FALSE] \in Archives
      BY <3>1 DEF Archives
    <3> QED BY <1>14, <1>t, <3>1, <3>2 DEF DamageArchive, StoredIsSound
  <2> QED BY <1>14, <1>t, <1>a, <2>1, BackupStep
          DEF DamageArchive, StoredIsSound, DumpIsPast, ScratchIsDistinct, DeploymentInv
<1>15. ASSUME RestoreArchive PROVE DeploymentInv'
  <2>1. gatewayDb' \in Databases
    BY <1>15, <1>t DEF RestoreArchive, StoredIsSound, Archives, Last
  <2> QED BY <1>15, <1>t, <2>1
          DEF RestoreArchive, DeploymentInv, StoredIsSound, LockExcludes, MigrationContinues,
              DumpIsPast, ScratchIsDistinct, RunsOnItsSchema, ExclusiveHeld
<1>16. ASSUME NEW target \in {"live", "other"}, NEW reach \in {"primary", "standby", "nothing"},
              BeginRestoreTest(target, reach)
       PROVE  DeploymentInv'
  BY <1>16, <1>t, BackupStep
     DEF BeginRestoreTest, StoredIsSound, DumpIsPast, ScratchIsDistinct, DeploymentInv
<1>17. ASSUME ProbeScratch PROVE DeploymentInv'
  <2>1. \/ audit.target # "live" /\ audit' = [audit EXCEPT !.pc = "reset"]
        \/ audit' = NoAudit
    BY <1>17 DEF ProbeScratch, ProvesDistinct
  <2>2. audit' \in [pc: {"idle", "prove", "reset"}, target: {"live", "other"},
                    reach: {"primary", "standby", "nothing"}]
    BY <1>t, <2>1 DEF StoredIsSound, NoAudit
  <2>3. ScratchIsDistinct'
    BY <1>t, <2>1 DEF StoredIsSound, NoAudit, ScratchIsDistinct
  <2> QED BY <1>17, <1>t, <2>2, <2>3, BackupStep
          DEF ProbeScratch, StoredIsSound, DumpIsPast, DeploymentInv
<1>18. ASSUME RestoreScratch PROVE DeploymentInv'
  <2>1. gatewayDb' = gatewayDb
    BY <1>18 DEF RestoreScratch, ScratchIsDistinct, DeploymentInv
  <2> QED BY <1>18, <1>t, <2>1, BackupStep
          DEF RestoreScratch, StoredIsSound, DumpIsPast, ScratchIsDistinct, NoAudit, DeploymentInv
<1>19. ASSUME UNCHANGED deploymentVars PROVE DeploymentInv'
  BY <1>19, <1>t, BackupStep
     DEF deploymentVars, StoredIsSound, DumpIsPast, ScratchIsDistinct, DeploymentInv
<1> QED BY <1>1, <1>2, <1>3, <1>4, <1>5, <1>6, <1>7, <1>8, <1>9, <1>10, <1>11, <1>12, <1>13, <1>14,
           <1>15, <1>16, <1>17, <1>18, <1>19 DEF DeploymentNext

\* The invariant always holds.
LEMMA DeploymentInvHolds == DeploymentSpec => []DeploymentInv
BY DeploymentInitInv, DeploymentStepInv, PTL DEF DeploymentSpec

\* The database, the services, the migrations, the dump, the archives and the restore test
\* keep their types.
THEOREM DeploymentTypeCorrect == DeploymentSpec => []DeploymentTypeOK
<1>1. DeploymentInv => DeploymentTypeOK
  BY DeploymentAssumption
     DEF DeploymentInv, StoredIsSound, DeploymentTypeOK, Databases, Versions, Range
<1> QED BY <1>1, DeploymentInvHolds, PTL

\* A service that holds its lock runs on a schema its build works on, for any builds,
\* migrations and programs.
THEOREM ServicesRunOnTheirSchema == DeploymentSpec => []RunsOnItsSchema
<1>1. DeploymentInv => RunsOnItsSchema
  BY DEF DeploymentInv
<1> QED BY <1>1, DeploymentInvHolds, PTL

\* A manifest describes its archive.
THEOREM ManifestsDescribe == DeploymentSpec => []ManifestsAreTrue
<1>1. DeploymentInv => ManifestsAreTrue
  BY DEF DeploymentInv, StoredIsSound, ManifestsAreTrue, Archives
<1> QED BY <1>1, DeploymentInvHolds, PTL

\* No restore test, migration or restore empties the live database.
THEOREM LiveIsSafe == DeploymentSpec => LiveIsNeverEmptied
<1>1. DeploymentInv /\ [DeploymentNext]_deploymentVars
      => [gatewayDb.history # <<>> => gatewayDb'.history # <<>>]_deploymentVars
  <2> SUFFICES ASSUME DeploymentInv, DeploymentNext, gatewayDb.history # <<>>
               PROVE  gatewayDb'.history # <<>>
    OBVIOUS
  <2>1. ASSUME NEW b \in Builds, ApplyMigrations(b) PROVE gatewayDb'.history # <<>>
    BY <2>1, ShippedType DEF ApplyMigrations, DeploymentInv, StoredIsSound, Databases
  <2>2. ASSUME NEW b \in Builds, MigrateQueues(b) \/ CertifyReleases(b)
        PROVE  gatewayDb'.history # <<>>
    BY <2>2 DEF MigrateQueues, CertifyReleases, DeploymentInv, StoredIsSound, Databases
  <2>3. ASSUME RestoreArchive PROVE gatewayDb'.history # <<>>
    BY <2>3 DEF RestoreArchive, DeploymentInv, StoredIsSound, Archives, Last
  <2>4. ASSUME RestoreScratch PROVE gatewayDb'.history # <<>>
    BY <2>4 DEF RestoreScratch, DeploymentInv, ScratchIsDistinct
  <2>5. ASSUME NEW b \in Builds, BeginMigration(b) \/ CheckHistory(b) \/ MigrationDies(b)
        PROVE  gatewayDb'.history # <<>>
    BY <2>5 DEF BeginMigration, CheckHistory, MigrationDies
  <2>6. ASSUME NEW p \in Programs,
               \/ RequireCompatible(p) \/ LoseLock(p) \/ ExitOnLostLock(p) \/ Shutdown(p)
               \/ \E b \in Builds : ClaimDeployment(p, b)
        PROVE  gatewayDb'.history # <<>>
    BY <2>6 DEF ClaimDeployment, RequireCompatible, LoseLock, ExitOnLostLock, Shutdown
  <2>7. ASSUME \/ CountMigrations \/ NoteLatest \/ DumpDatabase \/ PublishManifest \/ DumpDies
               \/ DamageArchive \/ ProbeScratch
               \/ \E target \in {"live", "other"}, reach \in {"primary", "standby", "nothing"} :
                    BeginRestoreTest(target, reach)
        PROVE  gatewayDb'.history # <<>>
    BY <2>7 DEF CountMigrations, NoteLatest, DumpDatabase, PublishManifest, DumpDies,
                DamageArchive, ProbeScratch, BeginRestoreTest
  <2> QED BY <2>1, <2>2, <2>3, <2>4, <2>5, <2>6, <2>7 DEF DeploymentNext
<1> QED BY <1>1, DeploymentInvHolds, PTL DEF DeploymentSpec, LiveIsNeverEmptied

-----------------------------------------------------------------------------
(* RuntimeHealth. *)

\* The rows, reports and ages have their types.
HealthTypes ==
    /\ inUse \in BOOLEAN /\ sweptAge \in 0..SweepEvery
    /\ outageAge \in 0..OutageBound + 1 /\ agreedAge \in 0..Stable /\ idled \in BOOLEAN
    /\ process \in [Processes -> [pc : {"off", "up", "gone"}, sent : Nat, due : BOOLEAN,
                                taking : BOOLEAN]]
    /\ heartbeats \subseteq [worker : Processes, sequence : Nat,
                             status : {"ready", "unavailable", "stopped"}, age : 0..Stale + 1]
    /\ workerRow \in [Processes -> [status : {"none", "ready", "unavailable", "stopped"},
                                    sequence : Nat \union {Never}, seen : Never..Keep + 1]]
    /\ availability \in [known : BOOLEAN, available : BOOLEAN, pending : Never..Stable]

\* A pending change has lasted as long as health was not found to be what is settled, unless
\* nobody used the adapter meanwhile.
PendingLasts ==
    availability.pending # Never => idled \/ (inUse /\ agreedAge >= availability.pending)

\* What says "ready" is at least as old as the outage, or too old to count.
ReadyIsOld ==
    /\ \A b \in heartbeats : b.status = "ready" => b.age >= outageAge \/ b.age > Stale
    /\ \A w \in Processes :
         workerRow[w].status = "ready" => workerRow[w].seen >= outageAge \/ workerRow[w].seen >= Stale

\* A sweep ran when the outage was this old already.
SweptSince(age) == outageAge >= age /\ sweptAge <= outageAge - age

\* Once a sweep has met the outage it is pending or settled; it has then been pending for as long
\* as the outage lasts beyond that; and a sweep that meets it when it has lasted settles it.
OutageAdvances ==
    /\ outageAge > 0 => inUse
    /\ SweptSince(Stale) =>
         /\ availability.known = TRUE
         /\ availability.available = TRUE =>
              /\ availability.pending # Never
              /\ \/ availability.pending = Stable
                 \/ availability.pending >= outageAge - Stale - SweepEvery
    /\ SweptSince(Stale + SweepEvery + Stable) => availability.available = FALSE

HealthInv == HealthTypes /\ PendingLasts /\ ReadyIsOld /\ OutageAdvances

-----------------------------------------------------------------------------
\* The intervals are positive.
LEMMA Intervals ==
    /\ Stale \in Nat /\ Stale > 0 /\ Stable \in Nat /\ Stable > 0 /\ SweepEvery \in Nat
    /\ SweepEvery > 0 /\ Keep \in Nat /\ Keep > Stale
    /\ OutageBound \in Nat /\ OutageBound = Stale + Stable + SweepEvery + SweepEvery
<1>1. /\ Stale \in Nat \ {0} /\ Stable \in Nat \ {0} /\ SweepEvery \in Nat \ {0}
      /\ Keep \in Nat /\ Keep > Stale
  BY HealthAssumption
<1> QED BY <1>1 DEF OutageBound

\* A beat later.
LEMMA OlderIs ==
    ASSUME NEW age \in Int, NEW cap \in Int
    PROVE  Older(age, cap) = IF age = Never THEN Never ELSE IF age + 1 <= cap THEN age + 1 ELSE cap
<1> DEFINE S == {age + 1, cap}
<1>1. \A x \in S : (\A y \in S : x <= y) <=> x = (IF age + 1 <= cap THEN age + 1 ELSE cap)
  OBVIOUS
<1>2. (IF age + 1 <= cap THEN age + 1 ELSE cap) \in S
  OBVIOUS
<1>3. Min(S) = IF age + 1 <= cap THEN age + 1 ELSE cap
  BY <1>1, <1>2 DEF Min
<1> QED BY <1>3 DEF Older

\* The first state.
LEMMA HealthInitial == HealthInit => HealthInv
<1> SUFFICES ASSUME HealthInit PROVE HealthInv
  OBVIOUS
<1> USE Intervals DEF Never
<1>1. HealthTypes
  <2>1. /\ NoRow \in [status : {"none", "ready", "unavailable", "stopped"},
                      sequence : Nat \union {Never}, seen : Never..Keep + 1]
        /\ [pc |-> "off", sent |-> 0, due |-> TRUE, taking |-> FALSE]
              \in [pc : {"off", "up", "gone"}, sent : Nat, due : BOOLEAN, taking : BOOLEAN]
    BY DEF NoRow
  <2>2. availability \in [known : BOOLEAN, available : BOOLEAN, pending : Never..Stable]
    BY DEF HealthInit
  <2>3. sweptAge \in 0..SweepEvery /\ outageAge \in 0..OutageBound + 1 /\ agreedAge \in 0..Stable
    BY DEF HealthInit
  <2> QED BY <2>1, <2>2, <2>3 DEF HealthInit, HealthTypes
<1>2. PendingLasts
  BY DEF HealthInit, PendingLasts
<1>3. ReadyIsOld
  BY DEF HealthInit, ReadyIsOld, NoRow
<1>4. OutageAdvances
  BY DEF HealthInit, OutageAdvances, SweptSince
<1> QED BY <1>1, <1>2, <1>3, <1>4 DEF HealthInv

\* During an outage that outlasts the heartbeats no worker counts as ready.
LEMMA OutageIsUnhealthy ==
    ASSUME HealthTypes, NEW rows \in [Processes -> [status : {"none", "ready", "unavailable", "stopped"},
                                    sequence : Nat \union {Never}, seen : Never..Keep + 1]],
           \A w \in Processes : rows[w].status = "ready" => rows[w].seen >= outageAge \/ rows[w].seen >= Stale,
           outageAge >= Stale
    PROVE  Healthy(rows) = FALSE
BY Intervals DEF Healthy, HealthTypes, Never

\* What settleAvailability makes of the row.
LEMMA SettledRowIs ==
    ASSUME NEW a \in [known : BOOLEAN, available : BOOLEAN, pending : Never..Stable],
           NEW healthy \in BOOLEAN
    PROVE  LET r == SettledRow(a, healthy)
           IN /\ r \in [known : BOOLEAN, available : BOOLEAN, pending : Never..Stable]
              /\ r.known = a.known
              /\ a.available = healthy => r.available = a.available /\ r.pending = Never
              /\ a.available # healthy /\ a.pending = Never => r.available = a.available /\ r.pending = 0
              /\ a.available # healthy /\ a.pending # Never /\ a.pending < Stable => r = a
              /\ a.available # healthy /\ a.pending # Never /\ a.pending >= Stable =>
                    r.available = healthy /\ r.pending = Never
<1> USE Intervals DEF Never
<1> DEFINE Rows == [known : BOOLEAN, available : BOOLEAN, pending : Never..Stable]
<1>1. CASE a.available = healthy
  <2> DEFINE c == [a EXCEPT !.pending = Never]
  <2>1. c \in Rows /\ c.known = a.known /\ c.available = a.available /\ c.pending = Never
    OBVIOUS
  <2> QED BY <1>1, <2>1 DEF SettledRow, Confirmed
<1>2. CASE a.available # healthy /\ a.pending = Never
  <2> DEFINE c == [a EXCEPT !.pending = 0]
  <2>1. c \in Rows /\ c.known = a.known /\ c.available = a.available /\ c.pending = 0
    OBVIOUS
  <2> QED BY <1>2, <2>1 DEF SettledRow
<1>3. CASE a.available # healthy /\ a.pending # Never /\ a.pending < Stable
  BY <1>3 DEF SettledRow
<1>4. CASE a.available # healthy /\ a.pending # Never /\ a.pending >= Stable
  <2> DEFINE d == [a EXCEPT !.available = healthy]
             c == [d EXCEPT !.pending = Never]
  <2>1. d \in Rows /\ d.known = a.known
    OBVIOUS
  <2>2. d.available = healthy
    OBVIOUS
  <2>3. SettledRow(a, healthy) = c
    BY <1>4 DEF SettledRow
  <2> HIDE DEF d
  <2>4. c \in Rows /\ c.known = d.known /\ c.available = d.available /\ c.pending = Never
    BY <2>1
  <2> HIDE DEF c
  <2> QED BY <1>4, <2>1, <2>2, <2>3, <2>4
<1>5. a.pending \in Int
  OBVIOUS
<1> QED BY <1>1, <1>2, <1>3, <1>4, <1>5

\* settleAvailability keeps what depends on the availability.
LEMMA SettleKeeps ==
    ASSUME HealthInv, NEW rows \in [Processes -> [status : {"none", "ready", "unavailable", "stopped"},
                                    sequence : Nat \union {Never}, seen : Never..Keep + 1]],
           \A w \in Processes : rows[w].status = "ready" => rows[w].seen >= outageAge \/ rows[w].seen >= Stale,
           SettleAvailability(rows), UNCHANGED <<inUse, outageAge>>
    PROVE  /\ availability' \in [known : BOOLEAN, available : BOOLEAN, pending : Never..Stable]
           /\ agreedAge' \in 0..Stable /\ idled' \in BOOLEAN
           /\ PendingLasts'
           /\ availability'.available # availability.available => agreedAge = Stable \/ idled
           /\ (sweptAge' = sweptAge \/ (sweptAge' = 0 /\ inUse)) => OutageAdvances'
<1> USE Intervals DEF Never
<1> DEFINE a == [availability EXCEPT !.known = TRUE]
           r == SettledRow(a, Healthy(rows))
<1>1. /\ availability \in [known : BOOLEAN, available : BOOLEAN, pending : Never..Stable]
      /\ inUse \in BOOLEAN /\ sweptAge \in 0..SweepEvery /\ idled \in BOOLEAN
      /\ outageAge \in 0..OutageBound + 1 /\ agreedAge \in 0..Stable
      /\ PendingLasts /\ OutageAdvances
  BY DEF HealthInv, HealthTypes
<1>2. /\ a \in [known : BOOLEAN, available : BOOLEAN, pending : Never..Stable]
      /\ a.known = TRUE /\ a.available = availability.available /\ a.pending = availability.pending
  BY <1>1
<1>3. Healthy(rows) \in BOOLEAN
  BY DEF Healthy
<1>4. outageAge >= Stale => Healthy(rows) = FALSE
  BY OutageIsUnhealthy DEF HealthInv
<1>5. /\ availability' = IF inUse THEN r ELSE availability
      /\ agreedAge' = IF Healthy(rows) \in {availability.available, availability'.available}
                      THEN 0 ELSE agreedAge
      /\ idled' = (idled /\ availability'.pending # Never)
  BY DEF SettleAvailability
<1> DEFINE healthy == Healthy(rows)
<1>6. /\ r \in [known : BOOLEAN, available : BOOLEAN, pending : Never..Stable]
      /\ r.known = TRUE
      /\ a.available = healthy => r.available = a.available /\ r.pending = Never
      /\ a.available # healthy /\ a.pending = Never => r.available = a.available /\ r.pending = 0
      /\ a.available # healthy /\ a.pending # Never /\ a.pending < Stable => r = a
      /\ a.available # healthy /\ a.pending # Never /\ a.pending >= Stable =>
            r.available = healthy /\ r.pending = Never
  BY <1>2, <1>3, SettledRowIs
<1> HIDE DEF a, r, healthy
<1>6a. /\ agreedAge' = IF healthy \in {availability.available, availability'.available}
                       THEN 0 ELSE agreedAge
       /\ outageAge >= Stale => healthy = FALSE
       /\ healthy \in BOOLEAN
  BY <1>3, <1>4, <1>5 DEF healthy
<1>7. /\ availability' \in [known : BOOLEAN, available : BOOLEAN, pending : Never..Stable]
      /\ agreedAge' \in 0..Stable /\ idled' \in BOOLEAN
  BY <1>1, <1>5, <1>6
<1>8. PendingLasts'
  <2>1. CASE inUse
    BY <2>1, <1>1, <1>2, <1>5, <1>6, <1>6a, <1>7 DEF PendingLasts
  <2>2. CASE ~inUse
    BY <2>2, <1>1, <1>5 DEF PendingLasts
  <2> QED BY <2>1, <2>2
<1>9. availability'.available # availability.available => agreedAge = Stable \/ idled
  BY <1>1, <1>2, <1>5, <1>6, <1>6a DEF PendingLasts
<1>10. ASSUME sweptAge' = sweptAge \/ (sweptAge' = 0 /\ inUse)
       PROVE  OutageAdvances'
  <2>1. (outageAge > 0 => inUse)'
    BY <1>1 DEF OutageAdvances
  <2>2. ASSUME SweptSince(Stale)', inUse
        PROVE  /\ availability'.known = TRUE
               /\ availability'.available = TRUE =>
                    /\ availability'.pending # Never
                    /\ \/ availability'.pending = Stable
                       \/ availability'.pending >= outageAge' - Stale - SweepEvery
    <3>1. outageAge >= Stale /\ healthy = FALSE /\ availability' = r
      BY <2>2, <1>5, <1>6a, <1>1 DEF SweptSince
    <3>2. CASE SweptSince(Stale)
      BY <3>1, <3>2, <1>1, <1>2, <1>6 DEF OutageAdvances
    <3>3. CASE ~SweptSince(Stale)
      BY <3>1, <3>3, <1>1, <1>2, <1>6 DEF SweptSince
    <3> QED BY <3>2, <3>3
  <2>3. ASSUME SweptSince(Stale + SweepEvery + Stable)', inUse
        PROVE  availability'.available = FALSE
    <3>1. outageAge >= Stale + SweepEvery + Stable /\ healthy = FALSE /\ availability' = r
      BY <2>3, <1>5, <1>6a, <1>1 DEF SweptSince
    <3>2. CASE availability.available = FALSE
      BY <3>1, <3>2, <1>1, <1>2, <1>6
    <3>3. CASE availability.available = TRUE
      <4>1. SweptSince(Stale)
        BY <3>1, <1>1 DEF SweptSince
      <4>2. availability.pending = Stable
        BY <4>1, <3>1, <3>3, <1>1 DEF OutageAdvances
      <4> QED BY <4>2, <3>1, <3>3, <1>1, <1>2, <1>6
    <3> QED BY <3>2, <3>3, <1>1
  <2>4. (SweptSince(Stale) \/ SweptSince(Stale + SweepEvery + Stable))' => inUse
    BY <1>1 DEF SweptSince, OutageAdvances
  <2> QED BY <2>1, <2>2, <2>3, <2>4 DEF OutageAdvances
<1> QED BY <1>7, <1>8, <1>9, <1>10

-----------------------------------------------------------------------------
\* A worker's steps: what it sends is dated now.
LEMMA WorkerKeeps ==
    ASSUME HealthInv, NEW w \in Processes,
           \/ \E again, ok \in BOOLEAN : CheckRuntime(w, again, ok)
           \/ LeaveWorker(w) \/ WorkerVanishes(w)
    PROVE  HealthInv'
<1> USE Intervals DEF Never
<1>1. /\ process[w].sent \in Nat /\ process[w].sent + 1 \in Nat /\ process[w].sent + 2 \in Nat
      /\ process[w] \in [pc : {"off", "up", "gone"}, sent : Nat, due : BOOLEAN, taking : BOOLEAN]
  BY DEF HealthInv, HealthTypes
<1> DEFINE Sends ==
      /\ outageAge' = outageAge \/ outageAge' = 0
      /\ UNCHANGED <<workerRow, availability, inUse, sweptAge, agreedAge, idled>>
      /\ process' \in [Processes -> [pc : {"off", "up", "gone"}, sent : Nat, due : BOOLEAN,
                                     taking : BOOLEAN]]
      /\ \A b \in heartbeats' : b \notin heartbeats =>
            /\ b \in [worker : Processes, sequence : Nat,
                      status : {"ready", "unavailable", "stopped"}, age : 0..Stale + 1]
            /\ b.status = "ready" => outageAge' = 0
            /\ b.age = 0
<1>2. Sends
  <2>1. ASSUME NEW again \in BOOLEAN, NEW ok \in BOOLEAN, CheckRuntime(w, again, ok)
        PROVE  Sends
    BY <2>1, <1>1 DEF CheckRuntime, SendHeartbeats, Heartbeat, HealthInv, HealthTypes
  <2>2. CASE LeaveWorker(w)
    BY <2>2, <1>1 DEF LeaveWorker, SendHeartbeats, Heartbeat, HealthInv, HealthTypes
  <2>3. CASE WorkerVanishes(w)
    BY <2>3, <1>1 DEF WorkerVanishes, HealthInv, HealthTypes
  <2> QED BY <2>1, <2>2, <2>3
<1>3. HealthTypes'
  BY <1>2 DEF HealthInv, HealthTypes
<1>4. PendingLasts'
  BY <1>2 DEF HealthInv, PendingLasts
<1>5. ReadyIsOld'
  BY <1>2 DEF HealthInv, ReadyIsOld, HealthTypes
<1>6. OutageAdvances'
  BY <1>2 DEF HealthInv, OutageAdvances, SweptSince, HealthTypes
<1> QED BY <1>3, <1>4, <1>5, <1>6 DEF HealthInv

\* A heartbeat is recorded with its age, and the availability settled.
LEMMA RecordKeeps ==
    ASSUME HealthInv, NEW b \in heartbeats, RecordWorkerStatus(b)
    PROVE  /\ HealthInv'
           /\ availability'.available # availability.available => agreedAge = Stable \/ idled
<1> USE Intervals DEF Never
<1> DEFINE row == [status |-> b.status, sequence |-> b.sequence, seen |-> b.age]
           rows == IF workerRow[b.worker].sequence < b.sequence
                   THEN [workerRow EXCEPT ![b.worker] = row] ELSE workerRow
           Rows == [status : {"none", "ready", "unavailable", "stopped"},
                    sequence : Nat \union {Never}, seen : Never..Keep + 1]
<1>1. /\ b \in [worker : Processes, sequence : Nat, status : {"ready", "unavailable", "stopped"},
                age : 0..Stale + 1]
      /\ workerRow \in [Processes -> Rows]
  BY DEF HealthInv, HealthTypes
<1>2. row \in Rows /\ row.status = b.status /\ row.seen = b.age
  BY <1>1
<1>3. /\ heartbeats' \subseteq heartbeats
      /\ IF b.age > Stale THEN UNCHANGED <<workerRow, availability, agreedAge, idled>>
         ELSE workerRow' = rows /\ SettleAvailability(rows)
      /\ UNCHANGED <<process, inUse, sweptAge, outageAge>>
  BY DEF RecordWorkerStatus, SeenAge
<1>4. CASE b.age > Stale
  <2>1. UNCHANGED <<workerRow, availability, agreedAge, idled>>
    BY <1>3, <1>4
  <2>2. HealthTypes'
    BY <1>3, <2>1 DEF HealthInv, HealthTypes
  <2>3. PendingLasts'
    BY <1>3, <2>1 DEF HealthInv, PendingLasts
  <2>4. ReadyIsOld'
    BY <1>3, <2>1 DEF HealthInv, ReadyIsOld
  <2>5. OutageAdvances'
    BY <1>3, <2>1 DEF HealthInv, OutageAdvances, SweptSince
  <2> QED BY <2>1, <2>2, <2>3, <2>4, <2>5 DEF HealthInv
<1>5. CASE ~(b.age > Stale)
  <2>1. workerRow' = rows /\ SettleAvailability(rows)
    BY <1>3, <1>5
  <2>2. rows \in [Processes -> Rows]
    BY <1>1, <1>2
  <2>3. b.status = "ready" => b.age >= outageAge
    BY <1>5 DEF HealthInv, ReadyIsOld
  <2>4. \A w \in Processes : rows[w].status = "ready" => rows[w].seen >= outageAge \/ rows[w].seen >= Stale
    <3> SUFFICES ASSUME NEW w \in Processes, rows[w].status = "ready"
                 PROVE  rows[w].seen >= outageAge \/ rows[w].seen >= Stale
      OBVIOUS
    <3>1. rows[w] = workerRow[w] \/ rows[w] = row
      BY <1>1
    <3>2. CASE rows[w] = workerRow[w]
      BY <3>2 DEF HealthInv, ReadyIsOld
    <3>3. CASE rows[w] = row
      BY <3>3, <2>3, <1>2
    <3> QED BY <3>1, <3>2, <3>3
  <2> HIDE DEF rows
  <2>5. /\ availability' \in [known : BOOLEAN, available : BOOLEAN, pending : Never..Stable]
        /\ agreedAge' \in 0..Stable /\ idled' \in BOOLEAN
        /\ PendingLasts' /\ OutageAdvances'
        /\ availability'.available # availability.available => agreedAge = Stable \/ idled
    BY <1>3, <2>1, <2>2, <2>4, SettleKeeps
  <2>6. HealthTypes'
    BY <1>3, <2>1, <2>2, <2>5 DEF HealthInv, HealthTypes
  <2>7. ReadyIsOld'
    BY <1>3, <2>1, <2>4 DEF HealthInv, ReadyIsOld
  <2> QED BY <2>5, <2>6, <2>7 DEF HealthInv
<1> QED BY <1>4, <1>5

\* A heartbeat is dropped.
LEMMA DropKeeps ==
    ASSUME HealthInv, NEW b \in heartbeats, DropHeartbeat(b)
    PROVE  HealthInv'
<1>1. /\ heartbeats' \subseteq heartbeats
      /\ UNCHANGED <<process, workerRow, availability, inUse, sweptAge, outageAge, agreedAge,
                     idled>>
  BY DEF DropHeartbeat
<1>2. HealthTypes'
  BY <1>1 DEF HealthInv, HealthTypes
<1>3. PendingLasts'
  BY <1>1 DEF HealthInv, PendingLasts
<1>4. ReadyIsOld'
  BY <1>1 DEF HealthInv, ReadyIsOld
<1>5. OutageAdvances'
  BY <1>1 DEF HealthInv, OutageAdvances, SweptSince
<1> QED BY <1>2, <1>3, <1>4, <1>5 DEF HealthInv

\* The controller sweeps.
LEMMA HealthSweepKeeps ==
    ASSUME HealthInv, SweepRuntimeHealth
    PROVE  /\ HealthInv'
           /\ availability'.available # availability.available => agreedAge = Stable \/ idled
<1> USE Intervals DEF Never
<1> DEFINE rows == [w \in Processes |-> IF workerRow[w].seen > Keep THEN NoRow ELSE workerRow[w]]
           Rows == [status : {"none", "ready", "unavailable", "stopped"},
                    sequence : Nat \union {Never}, seen : Never..Keep + 1]
<1>1. /\ sweptAge' = 0 /\ workerRow' = rows
      /\ IF inUse THEN SettleAvailability(rows) ELSE UNCHANGED <<availability, agreedAge, idled>>
      /\ UNCHANGED <<process, heartbeats, inUse, outageAge>>
  BY DEF SweepRuntimeHealth
<1>2. NoRow \in Rows /\ NoRow.status = "none"
  BY DEF NoRow
<1>3. workerRow \in [Processes -> Rows]
  BY DEF HealthInv, HealthTypes
<1>4. rows \in [Processes -> Rows]
  BY <1>2, <1>3
<1>5. \A w \in Processes : rows[w].status = "ready" => rows[w].seen >= outageAge \/ rows[w].seen >= Stale
  BY <1>2 DEF HealthInv, ReadyIsOld
<1> HIDE DEF rows
<1>6. CASE inUse
  <2>1. /\ availability' \in [known : BOOLEAN, available : BOOLEAN, pending : Never..Stable]
        /\ agreedAge' \in 0..Stable /\ idled' \in BOOLEAN
        /\ PendingLasts' /\ OutageAdvances'
        /\ availability'.available # availability.available => agreedAge = Stable \/ idled
    BY <1>1, <1>4, <1>5, <1>6, SettleKeeps
  <2>2. HealthTypes'
    BY <1>1, <1>4, <2>1 DEF HealthInv, HealthTypes
  <2>3. ReadyIsOld'
    BY <1>1, <1>5 DEF HealthInv, ReadyIsOld
  <2> QED BY <2>1, <2>2, <2>3 DEF HealthInv
<1>7. CASE ~inUse
  <2>1. HealthTypes'
    BY <1>1, <1>4, <1>7 DEF HealthInv, HealthTypes
  <2>2. PendingLasts'
    BY <1>1, <1>7 DEF HealthInv, PendingLasts
  <2>3. ReadyIsOld'
    BY <1>1, <1>5 DEF HealthInv, ReadyIsOld
  <2>4. OutageAdvances'
    BY <1>1, <1>7 DEF HealthInv, HealthTypes, OutageAdvances, SweptSince
  <2> QED BY <1>1, <1>7, <2>1, <2>2, <2>3, <2>4 DEF HealthInv
<1> QED BY <1>6, <1>7

\* An operator enables or disables the agents.
LEMMA ToggleKeeps ==
    ASSUME HealthInv, ToggleUse
    PROVE  HealthInv'
<1> USE Intervals DEF Never
<1>1. HealthTypes'
  BY DEF ToggleUse, HealthInv, HealthTypes
<1>2. PendingLasts'
  BY DEF ToggleUse, HealthInv, PendingLasts
<1>3. ReadyIsOld'
  BY DEF ToggleUse, HealthInv, HealthTypes, ReadyIsOld
<1>4. OutageAdvances'
  BY DEF ToggleUse, HealthInv, HealthTypes, OutageAdvances, SweptSince
<1> QED BY <1>1, <1>2, <1>3, <1>4 DEF HealthInv

\* Time passes: everything ages together, up to where it stops to matter.
LEMMA BeatKeeps ==
    ASSUME HealthInv, Beat
    PROVE  HealthInv'
<1> USE Intervals DEF Never
<1> DEFINE Rows == [status : {"none", "ready", "unavailable", "stopped"},
                    sequence : Nat \union {Never}, seen : Never..Keep + 1]
           Reports == [worker : Processes, sequence : Nat,
                       status : {"ready", "unavailable", "stopped"}, age : 0..Stale + 1]
<1>1. /\ sweptAge \in 0..SweepEvery /\ outageAge \in 0..OutageBound + 1 /\ agreedAge \in 0..Stable
      /\ availability \in [known : BOOLEAN, available : BOOLEAN, pending : Never..Stable]
      /\ heartbeats \subseteq Reports /\ workerRow \in [Processes -> Rows]
      /\ inUse \in BOOLEAN /\ idled \in BOOLEAN
      /\ process \in [Processes -> [pc : {"off", "up", "gone"}, sent : Nat, due : BOOLEAN,
                                    taking : BOOLEAN]]
  BY DEF HealthInv, HealthTypes
<1>2. /\ sweptAge < SweepEvery /\ sweptAge' = sweptAge + 1 /\ UNCHANGED <<inUse, idled>>
      /\ process' = [w \in Processes |-> [process[w] EXCEPT !.due = process[w].due \/ process[w].pc = "up"]]
      /\ heartbeats' = {[b EXCEPT !.age = Older(b.age, Stale + 1)] : b \in heartbeats}
      /\ workerRow' = [w \in Processes |->
                         [workerRow[w] EXCEPT !.seen = Older(workerRow[w].seen, Keep + 1)]]
      /\ availability' = [availability EXCEPT !.pending = Older(availability.pending, Stable)]
      /\ outageAge' = IF inUse THEN Older(outageAge, OutageBound + 1) ELSE 0
      /\ agreedAge' = Older(agreedAge, Stable)
  BY DEF Beat
<1>3. /\ Older(agreedAge, Stable) = IF agreedAge + 1 <= Stable THEN agreedAge + 1 ELSE Stable
      /\ Older(outageAge, OutageBound + 1) =
            IF outageAge + 1 <= OutageBound + 1 THEN outageAge + 1 ELSE OutageBound + 1
      /\ Older(availability.pending, Stable) =
            IF availability.pending = Never THEN Never
            ELSE IF availability.pending + 1 <= Stable THEN availability.pending + 1 ELSE Stable
  <2>1. Older(agreedAge, Stable) = IF agreedAge + 1 <= Stable THEN agreedAge + 1 ELSE Stable
    BY <1>1, OlderIs
  <2>2. Older(outageAge, OutageBound + 1) =
            IF outageAge + 1 <= OutageBound + 1 THEN outageAge + 1 ELSE OutageBound + 1
    BY <1>1, OlderIs
  <2>3. availability.pending \in Int
    BY <1>1
  <2>4. Older(availability.pending, Stable) =
            IF availability.pending = Never THEN Never
            ELSE IF availability.pending + 1 <= Stable THEN availability.pending + 1 ELSE Stable
    BY <2>3, OlderIs
  <2> QED BY <2>1, <2>2, <2>4
<1>4. ASSUME NEW b \in heartbeats
      PROVE  LET c == [b EXCEPT !.age = Older(b.age, Stale + 1)]
             IN c \in Reports /\ c.status = b.status
                /\ c.age = (IF b.age + 1 <= Stale + 1 THEN b.age + 1 ELSE Stale + 1)
  <2>1. b \in Reports /\ b.age \in 0..Stale + 1
    BY <1>1
  <2>2. Older(b.age, Stale + 1) = (IF b.age + 1 <= Stale + 1 THEN b.age + 1 ELSE Stale + 1)
    BY <2>1, OlderIs
  <2>3. Older(b.age, Stale + 1) \in 0..Stale + 1
    BY <2>1, <2>2
  <2> QED BY <2>1, <2>2, <2>3
<1>5. ASSUME NEW w \in Processes
      PROVE  /\ workerRow'[w] \in Rows /\ workerRow'[w].status = workerRow[w].status
             /\ workerRow'[w].seen =
                  IF workerRow[w].seen = Never THEN Never
                  ELSE IF workerRow[w].seen + 1 <= Keep + 1 THEN workerRow[w].seen + 1 ELSE Keep + 1
  <2>1. workerRow[w] \in Rows /\ workerRow[w].seen \in Never..Keep + 1
    BY <1>1
  <2> DEFINE age == Older(workerRow[w].seen, Keep + 1)
  <2>2. age = IF workerRow[w].seen = Never THEN Never
              ELSE IF workerRow[w].seen + 1 <= Keep + 1 THEN workerRow[w].seen + 1 ELSE Keep + 1
    BY <2>1, OlderIs
  <2>3. age \in Never..Keep + 1
    BY <2>1, <2>2
  <2>4. workerRow'[w] = [workerRow[w] EXCEPT !.seen = age]
    BY <1>2
  <2> HIDE DEF age
  <2> QED BY <2>1, <2>2, <2>3, <2>4
<1>6. /\ availability'.known = availability.known
      /\ availability'.available = availability.available
      /\ availability'.pending = IF availability.pending = Never THEN Never
            ELSE IF availability.pending + 1 <= Stable THEN availability.pending + 1 ELSE Stable
      /\ availability' \in [known : BOOLEAN, available : BOOLEAN, pending : Never..Stable]
  <2>1. Older(availability.pending, Stable) \in Never..Stable
    BY <1>1, <1>3
  <2> QED BY <1>1, <1>2, <1>3, <2>1
<1>7. HealthTypes'
  <2>1. \A w \in Processes : process'[w] \in [pc : {"off", "up", "gone"}, sent : Nat, due : BOOLEAN,
                                              taking : BOOLEAN]
    <3> TAKE w \in Processes
    <3>1. process[w] \in [pc : {"off", "up", "gone"}, sent : Nat, due : BOOLEAN, taking : BOOLEAN]
      BY <1>1
    <3>2. process'[w] = [process[w] EXCEPT !.due = process[w].due \/ process[w].pc = "up"]
      BY <1>2
    <3> QED BY <3>1, <3>2
  <2>2. process' \in [Processes -> [pc : {"off", "up", "gone"}, sent : Nat, due : BOOLEAN,
                                    taking : BOOLEAN]]
    BY <1>2, <2>1
  <2>3. heartbeats' \subseteq Reports
    BY <1>2, <1>4
  <2>4. workerRow' \in [Processes -> Rows]
    BY <1>2, <1>5
  <2>5. /\ inUse' \in BOOLEAN /\ sweptAge' \in 0..SweepEvery /\ idled' \in BOOLEAN
        /\ outageAge' \in 0..OutageBound + 1 /\ agreedAge' \in 0..Stable
    BY <1>1, <1>2, <1>3
  <2> QED BY <1>6, <2>2, <2>3, <2>4, <2>5 DEF HealthTypes
<1>8. PendingLasts'
  BY <1>1, <1>2, <1>3, <1>6 DEF HealthInv, PendingLasts
<1>9. ReadyIsOld'
  <2>1. outageAge' <= outageAge + 1 /\ outageAge' \in Nat
    BY <1>1, <1>2, <1>3
  <2>2. \A b \in heartbeats' : b.status = "ready" => b.age >= outageAge' \/ b.age > Stale
    <3> SUFFICES ASSUME NEW c \in heartbeats', c.status = "ready"
                 PROVE  c.age >= outageAge' \/ c.age > Stale
      OBVIOUS
    <3>1. PICK b \in heartbeats : c = [b EXCEPT !.age = Older(b.age, Stale + 1)]
      BY <1>2
    <3>2. /\ c.status = b.status
          /\ c.age = (IF b.age + 1 <= Stale + 1 THEN b.age + 1 ELSE Stale + 1)
          /\ b.age \in Nat
      BY <3>1, <1>1, <1>4
    <3>3. b.age >= outageAge \/ b.age > Stale
      BY <3>2 DEF HealthInv, ReadyIsOld
    <3> QED BY <3>2, <3>3, <2>1, <1>1
  <2>3. \A w \in Processes :
          workerRow'[w].status = "ready" => workerRow'[w].seen >= outageAge' \/ workerRow'[w].seen >= Stale
    <3> SUFFICES ASSUME NEW w \in Processes, workerRow'[w].status = "ready"
                 PROVE  workerRow'[w].seen >= outageAge' \/ workerRow'[w].seen >= Stale
      OBVIOUS
    <3>1. workerRow[w].seen \in Never..Keep + 1
      BY <1>1
    <3>2. workerRow[w].seen >= outageAge \/ workerRow[w].seen >= Stale
      BY <1>5 DEF HealthInv, ReadyIsOld
    <3> QED BY <3>1, <3>2, <2>1, <1>1, <1>5
  <2> QED BY <2>2, <2>3 DEF ReadyIsOld
<1>10. OutageAdvances'
  <2>1. (outageAge > 0 => inUse)'
    BY <1>1, <1>2
  <2>2. ASSUME SweptSince(Stale)'
        PROVE  /\ availability'.known = TRUE
               /\ availability'.available = TRUE =>
                    /\ availability'.pending # Never
                    /\ \/ availability'.pending = Stable
                       \/ availability'.pending >= outageAge' - Stale - SweepEvery
    <3>1. SweptSince(Stale)
      BY <2>2, <1>1, <1>2, <1>3 DEF SweptSince
    <3>2. outageAge' <= outageAge + 1 /\ outageAge' \in Nat
      BY <1>1, <1>2, <1>3
    <3> QED BY <3>1, <3>2, <1>1, <1>6 DEF HealthInv, OutageAdvances
  <2>3. ASSUME SweptSince(Stale + SweepEvery + Stable)'
        PROVE  availability'.available = FALSE
    <3>1. SweptSince(Stale + SweepEvery + Stable)
      BY <2>3, <1>1, <1>2, <1>3 DEF SweptSince
    <3> QED BY <3>1, <1>6 DEF HealthInv, OutageAdvances
  <2> QED BY <2>1, <2>2, <2>3 DEF OutageAdvances
<1> QED BY <1>7, <1>8, <1>9, <1>10 DEF HealthInv

\* Every probe, decision and dispatch keeps the invariant of the runtimes' health.
LEMMA HealthStep ==
    ASSUME HealthInv, [HealthNext]_healthVars
    PROVE  /\ HealthInv'
           /\ availability'.available # availability.available => agreedAge = Stable \/ idled
<1>1. CASE UNCHANGED healthVars
  <2>1. HealthTypes'
    BY <1>1 DEF healthVars, HealthInv, HealthTypes
  <2>2. PendingLasts'
    BY <1>1 DEF healthVars, HealthInv, PendingLasts
  <2>3. ReadyIsOld'
    BY <1>1 DEF healthVars, HealthInv, ReadyIsOld
  <2>4. OutageAdvances'
    BY <1>1 DEF healthVars, HealthInv, OutageAdvances, SweptSince
  <2> QED BY <1>1, <2>1, <2>2, <2>3, <2>4 DEF HealthInv, healthVars
<1>2. ASSUME NEW w \in Processes,
             \/ \E again, ok \in BOOLEAN : CheckRuntime(w, again, ok)
             \/ LeaveWorker(w) \/ WorkerVanishes(w)
      PROVE  HealthInv' /\ availability' = availability
  BY <1>2, WorkerKeeps DEF CheckRuntime, LeaveWorker, WorkerVanishes
<1>3. ASSUME NEW b \in heartbeats, RecordWorkerStatus(b) \/ DropHeartbeat(b)
      PROVE  /\ HealthInv'
             /\ availability'.available # availability.available => agreedAge = Stable \/ idled
  BY <1>3, RecordKeeps, DropKeeps DEF DropHeartbeat
<1>4. CASE SweepRuntimeHealth
  BY <1>4, HealthSweepKeeps
<1>5. CASE ToggleUse
  BY <1>5, ToggleKeeps DEF ToggleUse
<1>6. CASE Beat
  <2>1. availability'.available = availability.available
    BY <1>6 DEF Beat, HealthInv, HealthTypes
  <2> QED BY <1>6, <2>1, BeatKeeps
<1> QED BY <1>1, <1>2, <1>3, <1>4, <1>5, <1>6 DEF HealthNext

\* The invariant holds always.
LEMMA HealthInvariant == HealthSpec => []HealthInv
<1>1. HealthInv /\ [HealthNext]_healthVars => HealthInv'
  BY HealthStep
<1> QED BY <1>1, HealthInitial, PTL DEF HealthSpec

\* For any processes, intervals and backlog the workers, heartbeats, rows and ages keep their types.
THEOREM HealthTypeCorrect == HealthSpec => []HealthTypeOK
<1>1. HealthInv => HealthTypeOK
  BY DEF HealthInv, HealthTypes, HealthTypeOK
<1> QED BY <1>1, HealthInvariant, PTL

\* An outage is settled in time, however late and in whatever order recordWorkerStatus applies the
\* heartbeats of workers that are gone: sweepRuntimeHealth meets it, waits, and settles it.
THEOREM OutagesAreSettled == HealthSpec => []OutageIsSettled
<1>1. HealthInv => OutageIsSettled
  <2> SUFFICES ASSUME HealthInv, outageAge > OutageBound
               PROVE  availability.known /\ ~availability.available
    BY DEF OutageIsSettled
  <2> USE Intervals
  <2>1. SweptSince(Stale) /\ SweptSince(Stale + SweepEvery + Stable)
    BY DEF HealthInv, HealthTypes, SweptSince
  <2> QED BY <2>1 DEF HealthInv, OutageAdvances
<1> QED BY <1>1, HealthInvariant, PTL

\* settleAvailability changes what is settled only when the change lasted, or when nobody used the
\* adapter while it was pending.
THEOREM OnlyLastingChanges == HealthSpec => LastingChangesOnly
<1>1. HealthInv /\ [HealthNext]_healthVars =>
         [availability'.available # availability.available
          => agreedAge = Stable \/ idled]_healthVars
  BY HealthStep
<1> QED BY <1>1, HealthInvariant, PTL DEF HealthSpec, LastingChangesOnly

-----------------------------------------------------------------------------
(* Alerts. *)

\* The records, and their types.
Links == [running : BOOLEAN, connected : BOOLEAN, reconnects : 0..MaxDrops]
Views == [down : Ages, up : Ages, reconnects : 0..MaxDrops]
Tasks == [run : Ages, success : Ages]
States == [firing : BOOLEAN, notified : 0..Reminder]

AlertsTypes ==
    /\ link \in Links /\ linkView \in Views
    /\ upkeep \in [{"retention", "backup"} -> Tasks]
    /\ retaining \in BOOLEAN /\ newest \in {"change", "backfill", "acked"} /\ trouble \in BOOLEAN
    /\ alertState \in [Keys -> States]
    /\ tickAge \in 0..TickEvery /\ steadyAge \in Ages /\ outAge \in Ages /\ firstRunAge \in Ages
    /\ heldAge \in [{"history", "rows"} -> Ages]

\* What reconcileOnce remembers of a connection that has not been lost since is true: the listener
\* has been connected for at least as long.
ViewIsSteady ==
    /\ link.connected = TRUE => link.running = TRUE /\ steadyAge # Unset
    /\ link.running = FALSE => linkView.up = Unset
    /\ linkView.reconnects <= link.reconnects
    /\ linkView.up # Unset /\ linkView.reconnects = link.reconnects =>
         link.connected = TRUE /\ steadyAge >= linkView.up

\* A disconnection is dated by the first tick that meets it, and once it has lasted, by a sweep,
\* it is alerted.
OutageIsSeen ==
    /\ outAge # Unset => link.connected = FALSE
    /\ outAge # Unset /\ link.running = FALSE => linkView.down >= outAge
    /\ tickAge < outAge => linkView.down >= 0 /\ linkView.down >= outAge - TickEvery
    /\ outAge >= Threshold + TickEvery /\ tickAge <= outAge - (Threshold + TickEvery) =>
         alertState["mattermost"].firing = TRUE

\* A sweep that meets a success that is too old alerts it.
OldSuccessIsSeen ==
    /\ upkeep["backup"].success # Unset => upkeep["backup"].run # Unset
    /\ \A t \in {"retention", "backup"} :
         /\ upkeep[t].success >= MaxSuccessAge + 1
         /\ tickAge <= upkeep[t].success - (MaxSuccessAge + 1)
         => alertState[t].firing = TRUE

\* A sweep that meets an unacknowledged backfill, or rows in trouble, alerts them.
HeldIsSeen ==
    /\ heldAge["history"] # Unset => newest = "backfill"
    /\ heldAge["rows"] # Unset => trouble = TRUE
    /\ \A k \in {"history", "rows"} : tickAge < heldAge[k] => alertState[k].firing = TRUE

AlertsInv == AlertsTypes /\ ViewIsSteady /\ OutageIsSeen /\ OldSuccessIsSeen /\ HeldIsSeen

-----------------------------------------------------------------------------
\* The later of two ages, and the earlier.
LEMMA MaxOfTwo ==
    ASSUME NEW a \in Int, NEW b \in Int
    PROVE  /\ Max({a, b}) = IF a >= b THEN a ELSE b
           /\ Min({a, b}) = IF a <= b THEN a ELSE b
<1> DEFINE S == {a, b}
<1>1. /\ \A x \in S : (\A y \in S : x >= y) <=> x = (IF a >= b THEN a ELSE b)
      /\ (IF a >= b THEN a ELSE b) \in S
  OBVIOUS
<1>2. /\ \A x \in S : (\A y \in S : x <= y) <=> x = (IF a <= b THEN a ELSE b)
      /\ (IF a <= b THEN a ELSE b) \in S
  OBVIOUS
<1>3. Max(S) = IF a >= b THEN a ELSE b
  BY <1>1 DEF Max
<1>4. Min(S) = IF a <= b THEN a ELSE b
  BY <1>2 DEF Min
<1> QED BY <1>3, <1>4

\* The intervals are positive, and the horizon lies beyond what any condition looks for.
LEMMA Horizons ==
    /\ Threshold \in Nat /\ Threshold > 0 /\ Reminder \in Nat /\ Reminder > 0
    /\ MaxSuccessAge \in Nat /\ MaxSuccessAge > 0
    /\ RetentionEvery \in Nat /\ RetentionEvery > 0 /\ TickEvery \in Nat /\ TickEvery > 0
    /\ MaxDrops \in Nat /\ Horizon \in Nat
    /\ Horizon > Threshold + TickEvery + TickEvery /\ Horizon > MaxSuccessAge + TickEvery + TickEvery
    /\ Ages = (-1)..Horizon /\ Unset = -1
<1>1. /\ Threshold \in Nat \ {0} /\ Reminder \in Nat \ {0} /\ MaxSuccessAge \in Nat \ {0}
      /\ RetentionEvery \in Nat \ {0} /\ TickEvery \in Nat \ {0} /\ MaxDrops \in Nat
  BY AlertsAssumption
<1>2. Max({Threshold, MaxSuccessAge}) =
         IF Threshold >= MaxSuccessAge THEN Threshold ELSE MaxSuccessAge
  BY <1>1, MaxOfTwo
<1> QED BY <1>1, <1>2 DEF Horizon, Ages, Unset

\* An age after an interval, and from now on.
LEMMA AgedIs ==
    ASSUME NEW age \in Ages
    PROVE  /\ Aged(age) = IF age = -1 THEN -1 ELSE IF age + 1 <= Horizon THEN age + 1 ELSE Horizon
           /\ Aged(age) \in Ages
           /\ Max({age, 0}) = IF age = -1 THEN 0 ELSE age
           /\ Max({age, 0}) \in Ages
<1>1. age \in Int /\ age + 1 \in Int /\ Horizon \in Int /\ age >= -1 /\ age <= Horizon
  BY Horizons
<1>2. Min({age + 1, Horizon}) = IF age + 1 <= Horizon THEN age + 1 ELSE Horizon
  BY <1>1, MaxOfTwo
<1>3. Max({age, 0}) = IF age >= 0 THEN age ELSE 0
  BY <1>1, MaxOfTwo
<1> QED BY <1>1, <1>2, <1>3, Horizons DEF Aged

\* The first state.
LEMMA AlertsInitial == AlertsInit => AlertsInv
<1> SUFFICES ASSUME AlertsInit PROVE AlertsInv
  OBVIOUS
<1> USE Horizons
<1>1. AlertsTypes
  <2>1. [run |-> Unset, success |-> Unset] \in Tasks /\ [firing |-> FALSE, notified |-> 0] \in States
    BY DEF Tasks, States
  <2>2. link \in Links /\ linkView \in Views
    BY DEF AlertsInit, Links, Views
  <2>3. Unset \in Ages /\ 0 \in Ages /\ 0 \in 0..TickEvery
    OBVIOUS
  <2> QED BY <2>1, <2>2, <2>3 DEF AlertsInit, AlertsTypes
<1>2. ViewIsSteady
  BY DEF AlertsInit, ViewIsSteady
<1>3. OutageIsSeen
  BY DEF AlertsInit, OutageIsSeen
<1>4. OldSuccessIsSeen
  BY DEF AlertsInit, OldSuccessIsSeen
<1>5. HeldIsSeen
  BY DEF AlertsInit, HeldIsSeen
<1> QED BY <1>1, <1>2, <1>3, <1>4, <1>5 DEF AlertsInv

-----------------------------------------------------------------------------
\* The listener connects, loses its connection, starts, and its controller restarts.
LEMMA LinkKeeps ==
    ASSUME AlertsInv, LinkNext
    PROVE  AlertsInv' /\ alertState' = alertState
<1> USE Horizons
<1>1. /\ link \in Links /\ linkView \in Views /\ tickAge \in 0..TickEvery
      /\ steadyAge \in Ages /\ outAge \in Ages
  BY DEF AlertsInv, AlertsTypes
<1>2. /\ UNCHANGED <<upkeep, newest, trouble, alertState, tickAge, firstRunAge, heldAge>>
      /\ retaining' \in {retaining, FALSE}
  BY DEF LinkNext, LinkUp, LinkDown, RestartController, StartListening
<1> DEFINE Good == /\ link' \in Links /\ linkView' \in Views /\ steadyAge' \in Ages /\ outAge' \in Ages
                   /\ ViewIsSteady' /\ OutageIsSeen'
<1>3. Good
  <2>1. CASE LinkUp
    <3>1. /\ link.running = TRUE /\ link.connected = FALSE
          /\ link' \in Links /\ link'.running = TRUE /\ link'.connected = TRUE
          /\ link'.reconnects = link.reconnects
          /\ steadyAge' = 0 /\ outAge' = Unset /\ UNCHANGED <<linkView, tickAge, alertState>>
      BY <2>1, <1>1 DEF LinkUp, Links
    <3>2. ViewIsSteady'
      BY <3>1, <1>1 DEF ViewIsSteady, AlertsInv, Views, Links
    <3>3. OutageIsSeen'
      BY <3>1, <1>1 DEF OutageIsSeen
    <3> QED BY <3>1, <3>2, <3>3, <1>1
  <2>2. CASE LinkDown
    <3>1. link.reconnects + 1 \in 0..MaxDrops /\ link.connected = TRUE
      <4>1. link.connected /\ link.reconnects < MaxDrops
        BY <2>2 DEF LinkDown
      <4>2. link.connected \in BOOLEAN /\ link.reconnects \in 0..MaxDrops
        BY <1>1 DEF Links
      <4> QED BY <4>1, <4>2
    <3>2. /\ link' \in Links /\ link'.running = link.running /\ link'.connected = FALSE
          /\ link'.reconnects = link.reconnects + 1
      BY <2>2, <1>1, <3>1 DEF LinkDown, Links
    <3>3. steadyAge' = Unset /\ outAge' = 0 /\ UNCHANGED <<linkView, tickAge, alertState>>
      BY <2>2 DEF LinkDown
    <3>4. ViewIsSteady'
      BY <3>1, <3>2, <3>3, <1>1 DEF ViewIsSteady, AlertsInv, Views, Links
    <3>5. OutageIsSeen'
      BY <3>1, <3>2, <3>3, <1>1 DEF OutageIsSeen, AlertsInv, ViewIsSteady
    <3> QED BY <3>2, <3>3, <3>4, <3>5, <1>1
  <2>3. CASE RestartController
    <3>1. /\ link' = [running |-> FALSE, connected |-> FALSE, reconnects |-> 0]
          /\ linkView' = [down |-> 0, up |-> Unset, reconnects |-> 0]
          /\ steadyAge' = Unset /\ outAge' = 0 /\ UNCHANGED <<tickAge, alertState>>
      BY <2>3 DEF RestartController
    <3>2. link' \in Links /\ linkView' \in Views
      BY <3>1 DEF Links, Views
    <3>3. ViewIsSteady'
      BY <3>1 DEF ViewIsSteady
    <3>4. OutageIsSeen'
      BY <3>1, <1>1 DEF OutageIsSeen
    <3> QED BY <3>1, <3>2, <3>3, <3>4
  <2>4. CASE StartListening
    <3>1. /\ link.running = FALSE
          /\ link' \in Links /\ link'.running = TRUE /\ link'.connected = link.connected
          /\ link'.reconnects = link.reconnects
          /\ UNCHANGED <<linkView, tickAge, alertState, steadyAge, outAge>>
      BY <2>4, <1>1 DEF StartListening, Links
    <3>2. ViewIsSteady'
      BY <3>1, <1>1 DEF ViewIsSteady, AlertsInv, Views, Links
    <3>3. OutageIsSeen'
      BY <3>1, <1>1 DEF OutageIsSeen, AlertsInv
    <3> QED BY <3>1, <3>2, <3>3, <1>1
  <2> QED BY <2>1, <2>2, <2>3, <2>4 DEF LinkNext
<1>4. AlertsTypes'
  BY <1>2, <1>3 DEF AlertsInv, AlertsTypes
<1>5. OldSuccessIsSeen'
  BY <1>2 DEF AlertsInv, OldSuccessIsSeen
<1>6. HeldIsSeen'
  BY <1>2 DEF AlertsInv, HeldIsSeen
<1> QED BY <1>2, <1>3, <1>4, <1>5, <1>6 DEF AlertsInv

\* A task that is run again has not succeeded again.
LEMMA RunTask ==
    ASSUME NEW t \in Tasks, 0 \in Ages
    PROVE  [t EXCEPT !.run = 0] \in Tasks /\ [t EXCEPT !.run = 0].success = t.success
BY DEF Tasks

\* A retention pass, a backup check, a revision and rows in trouble: what they date is dated now.
LEMMA MaintenanceKeeps ==
    ASSUME AlertsInv, RetentionNext \/ BackupNext
    PROVE  AlertsInv' /\ alertState' = alertState
<1> USE Horizons
<1>1. /\ upkeep \in [{"retention", "backup"} -> Tasks]
      /\ upkeep["retention"] \in Tasks /\ upkeep["backup"] \in Tasks
      /\ tickAge \in 0..TickEvery /\ firstRunAge \in Ages
  BY DEF AlertsInv, AlertsTypes
<1>2. /\ UNCHANGED <<link, linkView, newest, trouble, alertState, tickAge, steadyAge, outAge, heldAge>>
  BY DEF RetentionNext, BackupNext, ClaimRetention, FinishRetention, RecordBackupCheck
<1> DEFINE Written(t, row) == /\ row \in Tasks /\ row.success \in {upkeep[t].success, 0}
                              /\ t = "backup" => row.run # Unset
                              /\ upkeep' = [upkeep EXCEPT ![t] = row]
       Outcome == /\ retaining' \in BOOLEAN /\ firstRunAge' \in Ages
                  /\ \E t \in {"retention", "backup"}, row \in Tasks : Written(t, row)
<1>3. Outcome
  <2>1. CASE ClaimRetention
    <3> DEFINE row == [upkeep["retention"] EXCEPT !.run = 0]
    <3>1. row \in Tasks /\ row.success = upkeep["retention"].success
      <4>1. 0 \in Ages
        BY DEF Ages
      <4> QED BY <1>1, <4>1, RunTask
    <3>2. upkeep' = [upkeep EXCEPT !["retention"] = row]
      BY <2>1, <1>1 DEF ClaimRetention
    <3>3. retaining' \in BOOLEAN /\ firstRunAge' \in Ages
      BY <2>1, <1>1, AgedIs DEF ClaimRetention
    <3> HIDE DEF row
    <3> QED BY <3>1, <3>2, <3>3
  <2>2. ASSUME NEW o \in {"done", "failed", "stopped"}, FinishRetention(o)
        PROVE  Outcome
    <3> DEFINE later == Min({upkeep["retention"].run + RetentionEvery, Horizon})
               row == CASE o = "done" -> [upkeep["retention"] EXCEPT !.success = 0]
                        [] o = "failed" -> upkeep["retention"]
                        [] o = "stopped" -> [upkeep["retention"] EXCEPT !.run = later]
    <3>1. later \in Ages
      <4>1. upkeep["retention"].run + RetentionEvery \in Int /\ Horizon \in Int
            /\ upkeep["retention"].run + RetentionEvery >= 0
        BY <1>1 DEF Tasks
      <4>2. later = IF upkeep["retention"].run + RetentionEvery <= Horizon
                    THEN upkeep["retention"].run + RetentionEvery ELSE Horizon
        BY <4>1, MaxOfTwo
      <4> QED BY <4>1, <4>2
    <3>2. upkeep' = [upkeep EXCEPT !["retention"] = row]
      BY <2>2 DEF FinishRetention
    <3> HIDE DEF later
    <3>3. row \in Tasks /\ row.success \in {upkeep["retention"].success, 0}
      <4> DEFINE old == upkeep["retention"]
                 done == [old EXCEPT !.success = 0]
                 stopped == [old EXCEPT !.run = later]
      <4>1. old \in Tasks
        BY <1>1
      <4> HIDE DEF old
      <4>2. done \in Tasks /\ done.success = 0
        <5>1. 0 \in Ages
          OBVIOUS
        <5> QED BY <4>1, <5>1 DEF Tasks
      <4>3. stopped \in Tasks /\ stopped.success = old.success
        BY <4>1, <3>1 DEF Tasks
      <4>4. row = done \/ row = old \/ row = stopped
        BY DEF old
      <4> HIDE DEF row, done, stopped
      <4>5. row \in Tasks /\ row.success \in {old.success, 0}
        BY <4>1, <4>2, <4>3, <4>4
      <4> QED BY <4>5 DEF old
    <3>4. retaining' \in BOOLEAN /\ firstRunAge' \in Ages
      BY <2>2, <1>1 DEF FinishRetention
    <3> HIDE DEF row
    <3> QED BY <3>2, <3>3, <3>4
  <2>3. ASSUME NEW ok \in BOOLEAN, RecordBackupCheck(ok)
        PROVE  Outcome
    <3> DEFINE row == [run |-> 0, success |-> IF ok THEN 0 ELSE upkeep["backup"].success]
    <3>1. upkeep' = [upkeep EXCEPT !["backup"] = row]
      BY <2>3 DEF RecordBackupCheck
    <3>2. /\ row \in Tasks /\ row.success \in {upkeep["backup"].success, 0} /\ row.run # Unset
      BY <1>1 DEF Tasks
    <3>3. retaining' \in BOOLEAN /\ firstRunAge' \in Ages
      BY <2>3, <1>1 DEF RecordBackupCheck, AlertsInv, AlertsTypes
    <3> HIDE DEF row
    <3> QED BY <3>1, <3>2, <3>3
  <2> QED BY <2>1, <2>2, <2>3 DEF RetentionNext, BackupNext
<1>4. PICK t \in {"retention", "backup"}, row \in Tasks : Written(t, row)
  BY <1>3
<1>5. AlertsTypes'
  BY <1>1, <1>2, <1>3, <1>4 DEF AlertsInv, AlertsTypes
<1>6. ViewIsSteady'
  BY <1>2 DEF AlertsInv, ViewIsSteady
<1>7. OutageIsSeen'
  BY <1>2 DEF AlertsInv, OutageIsSeen
<1>8. OldSuccessIsSeen'
  BY <1>1, <1>2, <1>4 DEF AlertsInv, OldSuccessIsSeen, Tasks
<1>9. HeldIsSeen'
  BY <1>2 DEF AlertsInv, HeldIsSeen
<1> QED BY <1>2, <1>5, <1>6, <1>7, <1>8, <1>9 DEF AlertsInv

\* A revision is written, rows get into trouble or out of it.
LEMMA RowsKeep ==
    ASSUME AlertsInv, RowsNext
    PROVE  AlertsInv' /\ alertState' = alertState
<1> USE Horizons
<1>1. /\ heldAge \in [{"history", "rows"} -> Ages] /\ tickAge \in 0..TickEvery
      /\ trouble \in BOOLEAN
  BY DEF AlertsInv, AlertsTypes
<1>2. UNCHANGED <<link, linkView, upkeep, retaining, alertState, tickAge, steadyAge, outAge,
                  firstRunAge>>
  BY DEF RowsNext, WriteRevision, ToggleTrouble
<1> DEFINE Held == /\ newest' \in {"change", "backfill", "acked"} /\ trouble' \in BOOLEAN
                   /\ heldAge' \in [{"history", "rows"} -> Ages] /\ HeldIsSeen'
<1>3. Held
  <2>1. ASSUME NEW v \in {"change", "backfill", "acked"}, WriteRevision(v)
        PROVE  Held
    <3> DEFINE age == IF v = "backfill" THEN Max({heldAge["history"], 0}) ELSE Unset
    <3>1. /\ newest' = v /\ heldAge' = [heldAge EXCEPT !["history"] = age]
          /\ UNCHANGED <<trouble, alertState, tickAge>>
      BY <2>1 DEF WriteRevision
    <3>2. age \in Ages /\ age \in {heldAge["history"], 0, Unset} /\ (age # Unset => v = "backfill")
      BY <1>1, AgedIs
    <3> HIDE DEF age
    <3>3. HeldIsSeen'
      BY <3>1, <3>2, <1>1 DEF HeldIsSeen, AlertsInv
    <3> QED BY <3>1, <3>2, <3>3, <1>1
  <2>2. CASE ToggleTrouble
    <3> DEFINE age == IF trouble' THEN 0 ELSE Unset
    <3>1. /\ trouble' = ~trouble /\ heldAge' = [heldAge EXCEPT !["rows"] = age]
          /\ UNCHANGED <<newest, alertState, tickAge>>
      BY <2>2 DEF ToggleTrouble
    <3>2. age \in Ages /\ age \in {0, Unset} /\ (age # Unset => trouble' = TRUE)
      BY <3>1, <1>1
    <3> HIDE DEF age
    <3>3. HeldIsSeen'
      BY <3>1, <3>2, <1>1 DEF HeldIsSeen, AlertsInv
    <3> QED BY <3>1, <3>2, <3>3, <1>1 DEF AlertsInv, AlertsTypes
  <2> QED BY <2>1, <2>2 DEF RowsNext
<1>4. AlertsTypes'
  BY <1>2, <1>3 DEF AlertsInv, AlertsTypes
<1>5. ViewIsSteady'
  BY <1>2 DEF AlertsInv, ViewIsSteady
<1>6. OutageIsSeen'
  BY <1>2 DEF AlertsInv, OutageIsSeen
<1>7. OldSuccessIsSeen'
  BY <1>2 DEF AlertsInv, OldSuccessIsSeen
<1> QED BY <1>2, <1>3, <1>4, <1>5, <1>6, <1>7 DEF AlertsInv

\* What a tick observes of the listener.
LEMMA ObservedIs ==
    ASSUME AlertsInv, NEW view, view = ObservedLink(linkView)
    PROVE  /\ view \in Views
           /\ view.up # Unset => steadyAge >= view.up
           /\ view.up # Unset => link.connected = TRUE /\ view.reconnects = link.reconnects
           /\ view.reconnects <= link.reconnects
           /\ link.running = FALSE => view = linkView
           /\ outAge # Unset => view.up = Unset /\ view.down >= linkView.down
           /\ outAge # Unset /\ link.running = TRUE => view.down >= 0
<1> USE Horizons
<1>1. /\ link \in Links /\ linkView \in Views /\ steadyAge \in Ages /\ outAge \in Ages
      /\ ViewIsSteady /\ OutageIsSeen
  BY DEF AlertsInv, AlertsTypes
<1> DEFINE up == IF linkView.reconnects = link.reconnects THEN linkView.up ELSE Unset
<1>2. up \in Ages /\ linkView.down \in Ages
  BY <1>1 DEF Views
<1>3. /\ Max({up, 0}) \in Ages /\ Max({up, 0}) = (IF up = -1 THEN 0 ELSE up)
      /\ Max({linkView.down, 0}) \in Ages
      /\ Max({linkView.down, 0}) = IF linkView.down = -1 THEN 0 ELSE linkView.down
  BY <1>2, AgedIs
<1>4. CASE link.running = FALSE
  <2>1. view = linkView /\ linkView.up = Unset
    BY <1>1, <1>4 DEF ObservedLink, ViewIsSteady
  <2> QED BY <2>1, <1>1, <1>4 DEF Views, Links, ViewIsSteady
<1>5. CASE link.running = TRUE /\ link.connected = TRUE
  <2>1. view = [down |-> Unset, up |-> Max({up, 0}), reconnects |-> link.reconnects]
    BY <1>5 DEF ObservedLink
  <2>2. steadyAge >= 0
    BY <1>1, <1>5 DEF ViewIsSteady
  <2>3. steadyAge >= Max({up, 0})
    BY <1>1, <1>3, <2>2 DEF ViewIsSteady
  <2>4. outAge = Unset
    BY <1>1, <1>5 DEF OutageIsSeen
  <2> QED BY <2>1, <2>3, <2>4, <1>1, <1>3, <1>5 DEF Views, Links
<1>6. CASE link.running = TRUE /\ link.connected = FALSE
  <2>1. view = [down |-> Max({linkView.down, 0}), up |-> Unset, reconnects |-> link.reconnects]
    BY <1>6 DEF ObservedLink
  <2> QED BY <2>1, <1>1, <1>2, <1>3, <1>6 DEF Views, Links
<1> QED BY <1>1, <1>4, <1>5, <1>6 DEF Links

\* What a tick observes keeps what the view stands for.
LEMMA ViewKeeps ==
    ASSUME AlertsInv, linkView' = ObservedLink(linkView), UNCHANGED <<link, steadyAge, outAge>>
    PROVE  /\ linkView' \in Views /\ ViewIsSteady'
           /\ outAge # Unset /\ link.running = FALSE => linkView'.down >= outAge
           /\ outAge # Unset => linkView'.down >= 0 /\ linkView'.down >= outAge - TickEvery
<1> USE Horizons
<1>1. /\ link \in Links /\ linkView \in Views /\ steadyAge \in Ages /\ outAge \in Ages
      /\ ViewIsSteady /\ OutageIsSeen /\ tickAge \in 0..TickEvery
  BY DEF AlertsInv, AlertsTypes
<1> DEFINE view == linkView'
<1>2. /\ view \in Views
      /\ view.up # Unset => steadyAge >= view.up
      /\ view.up # Unset => link.connected = TRUE /\ view.reconnects = link.reconnects
      /\ view.reconnects <= link.reconnects
      /\ link.running = FALSE => view = linkView
      /\ outAge # Unset => view.up = Unset /\ view.down >= linkView.down
      /\ outAge # Unset /\ link.running = TRUE => view.down >= 0
  BY ObservedIs
<1>3. ViewIsSteady'
  BY <1>1, <1>2 DEF ViewIsSteady
<1>4. outAge # Unset /\ link.running = FALSE => view.down >= outAge
  BY <1>1, <1>2 DEF OutageIsSeen
<1>5. view.down \in Ages /\ linkView.down \in Ages /\ link.running \in BOOLEAN
  BY <1>1, <1>2 DEF Views, Links
<1>6. outAge # Unset => view.down >= 0
  BY <1>1, <1>2, <1>4, <1>5
<1>7. outAge # Unset => view.down >= outAge - TickEvery
  <2>1. CASE tickAge < outAge
    BY <2>1, <1>1, <1>2, <1>5 DEF OutageIsSeen
  <2>2. CASE ~(tickAge < outAge)
    BY <2>2, <1>1, <1>5, <1>6
  <2> QED BY <2>1, <2>2
<1> QED BY <1>2, <1>3, <1>4, <1>6, <1>7

\* A condition after the sweep: it fires iff it holds.
LEMMA SettledIs ==
    ASSUME NEW a \in States, NEW holds \in BOOLEAN
    PROVE  SettledCondition(a, holds) \in States /\ SettledCondition(a, holds).firing = holds
<1> USE Horizons
<1>1. CASE holds = FALSE
  <2> DEFINE c == [a EXCEPT !.firing = FALSE]
  <2>1. c \in States /\ c.firing = FALSE
    BY DEF States
  <2>2. SettledCondition(a, holds) = c
    BY <1>1 DEF SettledCondition
  <2> HIDE DEF c
  <2> QED BY <1>1, <2>1, <2>2
<1>2. CASE holds = TRUE
  <2> DEFINE c == [firing |-> TRUE, notified |-> 0]
  <2>1. c \in States /\ c.firing = TRUE
    BY DEF States
  <2>2. SettledCondition(a, holds) = IF a.firing = FALSE \/ a.notified >= Reminder THEN c ELSE a
    BY <1>2 DEF SettledCondition, States
  <2> HIDE DEF c
  <2> QED BY <1>2, <2>1, <2>2 DEF States
<1> QED BY <1>1, <1>2

\* The sweep.
LEMMA AlertSweepKeeps ==
    ASSUME AlertsInv, SweepAlerts
    PROVE  /\ AlertsInv'
           /\ alertState["mattermost"].firing /\ ~alertState'["mattermost"].firing
                => steadyAge >= Threshold
<1> USE Horizons
<1> DEFINE view == ObservedLink(linkView)
<1>1. /\ linkView' = view /\ tickAge' = 0
      /\ alertState' = [k \in Keys |-> SettledCondition(alertState[k], k \in CurrentConditions(view))]
      /\ UNCHANGED <<link, upkeep, retaining, newest, trouble, steadyAge, outAge, firstRunAge,
                     heldAge>>
  BY DEF SweepAlerts
<1>2. /\ alertState \in [Keys -> States] /\ outAge \in Ages /\ steadyAge \in Ages
      /\ tickAge \in 0..TickEvery
      /\ upkeep \in [{"retention", "backup"} -> Tasks] /\ heldAge \in [{"history", "rows"} -> Ages]
  BY DEF AlertsInv, AlertsTypes
<1>3. \A k \in Keys : /\ alertState'[k] \in States
                      /\ alertState'[k].firing = TRUE <=> k \in CurrentConditions(view)
  <2> TAKE k \in Keys
  <2>1. alertState'[k] = SettledCondition(alertState[k], k \in CurrentConditions(view))
    BY <1>1
  <2>2. (k \in CurrentConditions(view)) \in BOOLEAN /\ alertState[k] \in States
    BY <1>2
  <2> QED BY <2>1, <2>2, SettledIs
<1>4. /\ alertState'["mattermost"].firing = TRUE <=> MattermostCondition(view)
      /\ alertState'["history"].firing = TRUE <=> HistoryCondition
      /\ alertState'["backup"].firing = TRUE <=> BackupCondition(upkeep["backup"])
      /\ alertState'["retention"].firing = TRUE <=> RetentionCondition(upkeep["retention"])
      /\ alertState'["rows"].firing = TRUE <=> trouble = TRUE
      /\ alertState'["mattermost"].firing \in BOOLEAN
  <2>1. trouble \in BOOLEAN
    BY DEF AlertsInv, AlertsTypes
  <2>2. \A k \in Keys : alertState'[k].firing \in BOOLEAN
    BY <1>3 DEF States
  <2> HIDE DEF view
  <2> QED BY <1>3, <2>1, <2>2 DEF CurrentConditions, Keys
<1>5. alertState' \in [Keys -> States]
  BY <1>1, <1>3
<1>6. /\ view \in Views
      /\ view.up # Unset => steadyAge >= view.up
      /\ outAge # Unset => view.up = Unset
  BY ObservedIs
<1>7. /\ linkView' \in Views /\ ViewIsSteady'
      /\ outAge # Unset /\ link.running = FALSE => linkView'.down >= outAge
      /\ outAge # Unset => linkView'.down >= 0 /\ linkView'.down >= outAge - TickEvery
  <2>1. linkView' \in Views /\ linkView'.down \in Ages
    BY <1>1, <1>6 DEF Views
  <2> QED BY <1>1, <1>2, <2>1, ViewKeeps
<1>8. AlertsTypes'
  BY <1>1, <1>5, <1>7 DEF AlertsInv, AlertsTypes
<1>9. OutageIsSeen'
  <2>1. ASSUME outAge >= Threshold + TickEvery
        PROVE  alertState'["mattermost"].firing = TRUE
    <3>1. view.up = Unset /\ view.down >= Threshold
      BY <2>1, <1>1, <1>2, <1>6, <1>7 DEF Views
    <3> HIDE DEF view
    <3> QED BY <3>1, <1>4 DEF MattermostCondition
  <2>2. outAge' = outAge /\ link' = link
    BY <1>1
  <2>3. (outAge # Unset => link.connected = FALSE)'
    BY <2>2 DEF AlertsInv, OutageIsSeen
  <2>4. (outAge # Unset /\ link.running = FALSE => linkView.down >= outAge)'
    BY <2>2, <1>7
  <2>5. (tickAge < outAge => linkView.down >= 0 /\ linkView.down >= outAge - TickEvery)'
    BY <2>2, <1>1, <1>2, <1>7
  <2> QED BY <2>1, <2>2, <2>3, <2>4, <2>5 DEF OutageIsSeen
<1>10. OldSuccessIsSeen'
  <2>0. upkeep["retention"].success \in Ages /\ upkeep["backup"].success \in Ages
    BY <1>2 DEF Tasks
  <2>1. upkeep["retention"].success >= MaxSuccessAge + 1 => alertState'["retention"].firing = TRUE
    BY <1>2, <1>4, <2>0 DEF RetentionCondition
  <2>2. upkeep["backup"].success >= MaxSuccessAge + 1 => alertState'["backup"].firing = TRUE
    BY <1>2, <1>4, <2>0 DEF BackupCondition, AlertsInv, OldSuccessIsSeen
  <2> QED BY <2>1, <2>2, <1>1 DEF AlertsInv, OldSuccessIsSeen
<1>11. HeldIsSeen'
  <2>1. UNCHANGED <<heldAge, newest, trouble>> /\ tickAge' = 0
    BY <1>1
  <2> QED BY <2>1, <1>2, <1>4 DEF AlertsInv, HeldIsSeen, HistoryCondition
<1>12. alertState["mattermost"].firing /\ ~alertState'["mattermost"].firing => steadyAge >= Threshold
  <2> HIDE DEF view
  <2>1. view.up \in Ages
    BY <1>6 DEF Views
  <2> QED BY <2>1, <1>2, <1>4, <1>6 DEF MattermostCondition
<1> QED BY <1>7, <1>8, <1>9, <1>10, <1>11, <1>12 DEF AlertsInv

\* A sweep that fails after it observed the listener.
LEMMA FailedSweepKeeps ==
    ASSUME AlertsInv, AlertSweepFails
    PROVE  AlertsInv' /\ alertState' = alertState
<1> USE Horizons
<1>1. /\ linkView' = ObservedLink(linkView)
      /\ UNCHANGED <<link, upkeep, retaining, newest, trouble, alertState, tickAge, steadyAge,
                     outAge, firstRunAge, heldAge>>
  BY DEF AlertSweepFails
<1>2. /\ linkView' \in Views /\ ViewIsSteady'
      /\ outAge # Unset /\ link.running = FALSE => linkView'.down >= outAge
      /\ outAge # Unset => linkView'.down >= 0 /\ linkView'.down >= outAge - TickEvery
  BY <1>1, ViewKeeps
<1>3. AlertsTypes'
  BY <1>1, <1>2 DEF AlertsInv, AlertsTypes
<1>4. OutageIsSeen'
  BY <1>1, <1>2 DEF AlertsInv, AlertsTypes, OutageIsSeen
<1>5. OldSuccessIsSeen'
  BY <1>1 DEF AlertsInv, OldSuccessIsSeen
<1>6. HeldIsSeen'
  BY <1>1 DEF AlertsInv, HeldIsSeen
<1> QED BY <1>1, <1>2, <1>3, <1>4, <1>5, <1>6 DEF AlertsInv

\* Time passes: all ages grow together up to the horizon.
LEMMA TimeKeeps ==
    ASSUME AlertsInv, PassTime
    PROVE  /\ AlertsInv'
           /\ \A k \in Keys : alertState'[k].firing = alertState[k].firing
<1> USE Horizons
<1>1. /\ link \in Links /\ linkView \in Views /\ upkeep \in [{"retention", "backup"} -> Tasks]
      /\ alertState \in [Keys -> States] /\ tickAge \in 0..TickEvery
      /\ steadyAge \in Ages /\ outAge \in Ages /\ firstRunAge \in Ages
      /\ heldAge \in [{"history", "rows"} -> Ages]
  BY DEF AlertsInv, AlertsTypes
<1>2. /\ tickAge < TickEvery /\ tickAge' = tickAge + 1 /\ UNCHANGED <<link, retaining, newest, trouble>>
      /\ linkView' = [linkView EXCEPT !.down = Aged(linkView.down), !.up = Aged(linkView.up)]
      /\ upkeep' = [t \in DOMAIN upkeep |-> [run |-> Aged(upkeep[t].run),
                                             success |-> Aged(upkeep[t].success)]]
      /\ alertState' = [k \in Keys |-> [alertState[k] EXCEPT !.notified = Min({alertState[k].notified + 1, Reminder})]]
      /\ steadyAge' = Aged(steadyAge) /\ outAge' = Aged(outAge) /\ firstRunAge' = Aged(firstRunAge)
      /\ heldAge' = [k \in DOMAIN heldAge |-> Aged(heldAge[k])]
  BY DEF PassTime
<1>2a. tickAge < TickEvery /\ tickAge' = tickAge + 1 /\ UNCHANGED <<link, retaining, newest, trouble>>
  BY <1>2
<1> DEFINE Later(age, new) ==
             /\ new \in Ages
             /\ new = IF age = -1 THEN -1 ELSE IF age + 1 <= Horizon THEN age + 1 ELSE Horizon
<1>3. Later(steadyAge, steadyAge') /\ Later(outAge, outAge') /\ Later(firstRunAge, firstRunAge')
  BY <1>1, <1>2, AgedIs
<1>4. /\ linkView' \in Views /\ linkView'.reconnects = linkView.reconnects
      /\ Later(linkView.down, linkView'.down) /\ Later(linkView.up, linkView'.up)
  <2> DEFINE d == Aged(linkView.down)
             u == Aged(linkView.up)
  <2>1. linkView.down \in Ages /\ linkView.up \in Ages
    BY <1>1 DEF Views
  <2>2. Later(linkView.down, d) /\ Later(linkView.up, u)
    BY <2>1, AgedIs
  <2>3. linkView' = [linkView EXCEPT !.down = d, !.up = u]
    BY <1>2
  <2> HIDE DEF d, u
  <2>4. linkView' = [down |-> d, up |-> u, reconnects |-> linkView.reconnects]
    BY <1>1, <2>3 DEF Views
  <2> QED BY <1>1, <2>2, <2>4 DEF Views
<1>5. \A t \in {"retention", "backup"} :
         /\ upkeep'[t] \in Tasks /\ Later(upkeep[t].run, upkeep'[t].run)
         /\ Later(upkeep[t].success, upkeep'[t].success)
  <2> TAKE t \in {"retention", "backup"}
  <2>1. upkeep[t].run \in Ages /\ upkeep[t].success \in Ages
    BY <1>1 DEF Tasks
  <2>2. Later(upkeep[t].run, Aged(upkeep[t].run)) /\ Later(upkeep[t].success, Aged(upkeep[t].success))
    BY <2>1, AgedIs
  <2>3. upkeep'[t] = [run |-> Aged(upkeep[t].run), success |-> Aged(upkeep[t].success)]
    BY <1>1, <1>2
  <2> QED BY <2>2, <2>3 DEF Tasks
<1>6. \A k \in Keys : alertState'[k] \in States /\ alertState'[k].firing = alertState[k].firing
  <2> TAKE k \in Keys
  <2> DEFINE n == Min({alertState[k].notified + 1, Reminder})
  <2>1. alertState[k] \in States /\ alertState[k].notified \in 0..Reminder
    BY <1>1 DEF States
  <2>2. n \in 0..Reminder
    <3>1. n = IF alertState[k].notified + 1 <= Reminder THEN alertState[k].notified + 1 ELSE Reminder
      <4>1. alertState[k].notified + 1 \in Int /\ Reminder \in Int
        BY <2>1
      <4> QED BY <4>1, MaxOfTwo
    <3> QED BY <2>1, <3>1
  <2>3. alertState'[k] = [alertState[k] EXCEPT !.notified = n]
    BY <1>2
  <2> HIDE DEF n
  <2> QED BY <2>1, <2>2, <2>3 DEF States
<1>7. \A k \in {"history", "rows"} : heldAge'[k] \in Ages /\ Later(heldAge[k], heldAge'[k])
  BY <1>1, <1>2, AgedIs
<1>8. AlertsTypes'
  <2>1. alertState' \in [Keys -> States]
    BY <1>2, <1>6
  <2>2. upkeep' \in [{"retention", "backup"} -> Tasks]
    BY <1>1, <1>2, <1>5
  <2>3. heldAge' \in [{"history", "rows"} -> Ages]
    BY <1>1, <1>2, <1>7
  <2>4. tickAge' \in 0..TickEvery
    BY <1>1, <1>2a
  <2> QED BY <1>2a, <1>3, <1>4, <2>1, <2>2, <2>3, <2>4 DEF AlertsInv, AlertsTypes
<1>9. ViewIsSteady'
  <2>1. linkView.up \in Ages /\ linkView.reconnects \in Int
    BY <1>1 DEF Views
  <2> QED BY <2>1, <1>1, <1>2a, <1>3, <1>4 DEF AlertsInv, ViewIsSteady
<1>10. OutageIsSeen'
  <2>1. "mattermost" \in Keys
    BY DEF Keys
  <2>2. linkView.down \in Ages
    BY <1>1 DEF Views
  <2>3. (outAge # Unset => link.connected = FALSE)'
    BY <1>1, <1>2a, <1>3 DEF AlertsInv, OutageIsSeen
  <2>4. (outAge # Unset /\ link.running = FALSE => linkView.down >= outAge)'
    BY <2>2, <1>1, <1>2a, <1>3, <1>4 DEF AlertsInv, OutageIsSeen
  <2>5. (tickAge < outAge => linkView.down >= 0 /\ linkView.down >= outAge - TickEvery)'
    <3> SUFFICES ASSUME tickAge' < outAge'
                 PROVE  linkView'.down >= 0 /\ linkView'.down >= outAge' - TickEvery
      OBVIOUS
    <3>1. tickAge < outAge /\ outAge' <= outAge + 1 /\ outAge' <= Horizon
      BY <1>1, <1>2a, <1>3
    <3>2. linkView.down >= 0 /\ linkView.down >= outAge - TickEvery
      BY <3>1 DEF AlertsInv, OutageIsSeen
    <3> QED BY <3>1, <3>2, <2>2, <1>1, <1>3, <1>4
  <2>6. (outAge >= Threshold + TickEvery /\ tickAge <= outAge - (Threshold + TickEvery) =>
           alertState["mattermost"].firing = TRUE)'
    <3> SUFFICES ASSUME outAge' >= Threshold + TickEvery,
                        tickAge' <= outAge' - (Threshold + TickEvery)
                 PROVE  alertState'["mattermost"].firing = TRUE
      OBVIOUS
    <3>1. outAge >= Threshold + TickEvery /\ tickAge <= outAge - (Threshold + TickEvery)
      BY <1>1, <1>2a, <1>3
    <3> QED BY <3>1, <1>6, <2>1 DEF AlertsInv, OutageIsSeen
  <2> QED BY <2>3, <2>4, <2>5, <2>6 DEF OutageIsSeen
<1>11. OldSuccessIsSeen'
  <2>1. {"retention", "backup"} \subseteq Keys
    BY DEF Keys
  <2>2. \A t \in {"retention", "backup"} : upkeep[t].success \in Ages /\ upkeep[t].run \in Ages
    BY <1>1 DEF Tasks
  <2>3. (upkeep["backup"].success # Unset => upkeep["backup"].run # Unset)'
    <3>1. /\ Later(upkeep["backup"].success, upkeep'["backup"].success)
          /\ Later(upkeep["backup"].run, upkeep'["backup"].run)
      BY <1>5
    <3>2. upkeep["backup"].success # -1 => upkeep["backup"].run # -1
      BY DEF AlertsInv, OldSuccessIsSeen
    <3>3. upkeep["backup"].run \in (-1)..Horizon
      BY <2>2
    <3> QED BY <3>1, <3>2, <3>3
  <2>4. ASSUME NEW t \in {"retention", "backup"}, upkeep'[t].success >= MaxSuccessAge + 1,
               tickAge' <= upkeep'[t].success - (MaxSuccessAge + 1)
        PROVE  alertState'[t].firing = TRUE
    <3>1. /\ upkeep[t].success >= MaxSuccessAge + 1
          /\ tickAge <= upkeep[t].success - (MaxSuccessAge + 1)
      <4> DEFINE a == upkeep[t].success
                 b == upkeep'[t].success
      <4>1. /\ a \in (-1)..Horizon /\ b \in (-1)..Horizon
            /\ b = IF a = -1 THEN -1 ELSE IF a + 1 <= Horizon THEN a + 1 ELSE Horizon
        BY <2>2, <1>5
      <4>2. b >= MaxSuccessAge + 1 /\ tickAge + 1 <= b - (MaxSuccessAge + 1) /\ tickAge \in Nat
        BY <2>4, <1>1, <1>2a
      <4> HIDE DEF a, b
      <4>3. a >= MaxSuccessAge + 1 /\ tickAge <= a - (MaxSuccessAge + 1)
        BY <4>1, <4>2
      <4> QED BY <4>3 DEF a
    <3> QED BY <3>1, <1>6, <2>1 DEF AlertsInv, OldSuccessIsSeen
  <2> QED BY <2>3, <2>4 DEF OldSuccessIsSeen
<1>12. HeldIsSeen'
  <2>1. {"history", "rows"} \subseteq Keys
    BY DEF Keys
  <2> QED BY <1>1, <1>2a, <1>6, <1>7, <2>1 DEF AlertsInv, HeldIsSeen
<1> QED BY <1>6, <1>8, <1>9, <1>10, <1>11, <1>12 DEF AlertsInv

\* Every step keeps the invariant, and resolves the listener's alert only after a steady connection.
LEMMA AlertsStep ==
    ASSUME AlertsInv, [AlertsNext]_alertVars
    PROVE  /\ AlertsInv'
           /\ alertState["mattermost"].firing /\ ~alertState'["mattermost"].firing
                => steadyAge >= Threshold
<1>1. CASE UNCHANGED alertVars
  <2>1. AlertsTypes'
    BY <1>1 DEF alertVars, AlertsInv, AlertsTypes
  <2>2. ViewIsSteady'
    BY <1>1 DEF alertVars, AlertsInv, ViewIsSteady
  <2>3. OutageIsSeen'
    BY <1>1 DEF alertVars, AlertsInv, OutageIsSeen
  <2>4. OldSuccessIsSeen'
    BY <1>1 DEF alertVars, AlertsInv, OldSuccessIsSeen
  <2>5. HeldIsSeen'
    BY <1>1 DEF alertVars, AlertsInv, HeldIsSeen
  <2> QED BY <1>1, <2>1, <2>2, <2>3, <2>4, <2>5 DEF AlertsInv, alertVars
<1>2. CASE LinkNext
  BY <1>2, LinkKeeps
<1>3. CASE RetentionNext \/ BackupNext
  BY <1>3, MaintenanceKeeps
<1>4. CASE RowsNext
  BY <1>4, RowsKeep
<1>5. CASE SweepAlerts
  BY <1>5, AlertSweepKeeps
<1>6. CASE AlertSweepFails
  BY <1>6, FailedSweepKeeps
<1>7. CASE PassTime
  BY <1>7, TimeKeeps DEF Keys
<1> QED BY <1>1, <1>2, <1>3, <1>4, <1>5, <1>6, <1>7 DEF AlertsNext, SweepNext

\* The invariant holds always.
LEMMA AlertsInvariant == AlertsSpec => []AlertsInv
<1>1. AlertsInv /\ [AlertsNext]_alertVars => AlertsInv'
  BY AlertsStep
<1> QED BY <1>1, AlertsInitial, PTL DEF AlertsSpec

\* For all intervals and bounds the listener's view, the tasks' rows, the alerts and the ages keep
\* their types.
THEOREM AlertsTypeCorrect == AlertsSpec => []AlertsTypeOK
<1>1. AlertsInv => AlertsTypeOK
  BY DEF AlertsInv, AlertsTypes, AlertsTypeOK, Links, Views, Tasks, States
<1> QED BY <1>1, AlertsInvariant, PTL

\* What lasts is alerted once the sweeps had the time to see it: sweepAlertConditions fires for a
\* listener that is disconnected, for a task without a recent success, for a backfill, for rows.
THEOREM TroubleIsAlerted == AlertsSpec => []LastingTroubleFires
<1>1. AlertsInv => LastingTroubleFires
  <2> SUFFICES ASSUME AlertsInv PROVE LastingTroubleFires
    OBVIOUS
  <2> USE Horizons
  <2>1. /\ upkeep \in [{"retention", "backup"} -> Tasks] /\ tickAge \in 0..TickEvery
        /\ outAge \in Ages /\ heldAge \in [{"history", "rows"} -> Ages]
    BY DEF AlertsInv, AlertsTypes
  <2>2. outAge > Threshold + 2 * TickEvery => alertState["mattermost"].firing
    BY <2>1 DEF AlertsInv, OutageIsSeen
  <2>3. \A t \in DOMAIN upkeep :
          upkeep[t].success > MaxSuccessAge + TickEvery => alertState[t].firing
    BY <2>1 DEF AlertsInv, OldSuccessIsSeen, Tasks
  <2>4. \A k \in DOMAIN heldAge : heldAge[k] > TickEvery => alertState[k].firing
    BY <2>1 DEF AlertsInv, HeldIsSeen
  <2> QED BY <2>2, <2>3, <2>4 DEF LastingTroubleFires
<1> QED BY <1>1, AlertsInvariant, PTL

\* mattermostCondition resolves the listener's alert only after a connection without a break, since
\* reconcileOnce counts reconnects and forgets what it saw before one.
THEOREM FlappingIsNotResolved == AlertsSpec => FlappingIsOneOutage
<1>1. AlertsInv /\ [AlertsNext]_alertVars =>
         [alertState["mattermost"].firing /\ ~alertState'["mattermost"].firing
          => steadyAge >= Threshold]_alertVars
  BY AlertsStep
<1> QED BY <1>1, AlertsInvariant, PTL DEF AlertsSpec, FlappingIsOneOutage
=============================================================================
