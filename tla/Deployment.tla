----------------------------- MODULE Deployment ------------------------------
(***************************************************************************)
(* Runs of /migrate and the server processes that use the same database.   *)
(* A server applies no migration: GET /readyz tells whether it may get     *)
(* requests (handleReadiness in internal/httpapi/handler.go, Ping in       *)
(* internal/postgres/store.go), by two queries, one after the other.       *)
(***************************************************************************)
EXTENDS Migration

CONSTANTS
  Replicas,  \* processes of /server
  Embedded   \* Embedded[r]: the versions in replica r's image are 1..Embedded[r]

ASSUME DeploymentAssumption == Embedded \in [Replicas -> Versions]

VARIABLE probe  \* probe[r]: the latest readiness probe of replica r

deploymentVars == <<schema, ledger, lock, session, run, probe>>

Probe == {"none", "tables", "ledger", "ready", "unready"}

DeploymentTypeOK == MigrationTypeOK /\ probe \in [Replicas -> Probe]

DeploymentInit == MigrationInit /\ probe = [r \in Replicas |-> "none"]

Ask(r) ==
  /\ probe[r] \notin {"tables", "ledger"}
  /\ probe' = [probe EXCEPT ![r] = "tables"]

\* A table outside the first version is found missing, or none is.
TablesExist == 1 \in schema

\* to_regclass finds the ledger and the tables, all of which the first version makes.
FindTables(r) ==
  /\ probe[r] = "tables"
  /\ probe' = [probe EXCEPT ![r] = IF TablesExist THEN "ledger" ELSE "unready"]

\* Any recorded version will do.
DefectAnyRecorded(r) == \E v \in ledger : TRUE

LedgerComplete(r) == 1..Embedded[r] \subseteq ledger

FindLedger(r) ==
  /\ probe[r] = "ledger"
  /\ probe' = [probe EXCEPT ![r] = IF LedgerComplete(r) THEN "ready" ELSE "unready"]

\* A query fails, or the readiness timeout is over.
ProbeFails(r) ==
  /\ probe[r] \in {"tables", "ledger"}
  /\ probe' = [probe EXCEPT ![r] = "unready"]

ReadinessNext ==
  \E r \in Replicas : Ask(r) \/ FindTables(r) \/ FindLedger(r) \/ ProbeFails(r)

DeploymentNext ==
  \/ MigrationNext /\ UNCHANGED probe
  \/ ReadinessNext /\ UNCHANGED migrationVars

\* A run goes on while its statements are answered, and the database notices a lost
\* client.  Nothing is assumed of those who start, interrupt and probe, or of a COMMIT
\* whose client is gone.
DeploymentSpec ==
  /\ DeploymentInit /\ [][DeploymentNext]_deploymentVars
  /\ \A m \in Runs : WF_migrationVars(Progress(m))

-----------------------------------------------------------------------------
\* Success means what it says, whichever runs are under way or died: a run that ended
\* without an error has applied every version of its image, and so has someone before
\* a replica answers that it is ready.
SuccessIsMigrated ==
  /\ \A m \in Runs : run[m].pc = "done" => 1..Image[m] \subseteq schema
  /\ \A r \in Replicas : probe[r] = "ready" => 1..Embedded[r] \subseteq schema

\* Every run ends, even if others before it died holding the lock.
RunsEnd == \A m \in Runs : run[m].pc = "lock" ~> run[m].pc \in {"done", "failed"}
=============================================================================
