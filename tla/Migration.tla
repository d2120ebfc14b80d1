------------------------------ MODULE Migration ------------------------------
(***************************************************************************)
(* Executions of /migrate against one database (cmd/migrate/main.go,       *)
(* internal/postgres/migrate.go).  An advisory lock of the database        *)
(* session keeps them apart; each version is applied and recorded in one   *)
(* transaction.  A run may lose its connection, be interrupted or die at   *)
(* any point.  Its session at the server is then orphaned: it keeps lock   *)
(* and transaction, and may still receive the COMMIT, until the server     *)
(* notices.  Running /migrate again is another run.                        *)
(***************************************************************************)
EXTENDS Integers

CONSTANTS
  Runs,    \* executions of /migrate
  Latest,  \* number of versions of the newest image
  Image,   \* Image[m]: the versions embedded in run m's image are 1..Image[m]
  None     \* no session

ASSUME MigrationAssumption ==
  /\ Latest \in Nat \ {0}
  /\ Image \in [Runs -> 1..Latest]
  /\ None \notin Runs

VARIABLES
  schema,   \* the versions whose tables and indexes exist
  ledger,   \* schema_migrations
  lock,     \* the session that holds the advisory lock
  session,  \* session[m]: run m's session at the server, and its transaction
  run       \* run[m]: Migrate, as its process sees it

migrationVars == <<schema, ledger, lock, session, run>>

Versions == 1..Latest

Session == [link : {"none", "open", "orphan", "ended"}, waits : BOOLEAN,
            tx : {"none", "open", "changed", "recorded", "committing"}]

Run == [pc : {"idle", "lock", "ledger", "check", "apply", "record", "commit", "unlock",
              "done", "failed"},
        at : Versions, err : {"none", "exists", "other"}]

MigrationTypeOK ==
  /\ schema \subseteq Versions /\ ledger \subseteq Versions
  /\ lock \in Runs \cup {None}
  /\ session \in [Runs -> Session]
  /\ run \in [Runs -> Run]

MigrationInit ==
  /\ schema = {} /\ ledger = {} /\ lock = None
  /\ session = [m \in Runs |-> [link |-> "none", waits |-> FALSE, tx |-> "none"]]
  /\ run = [m \in Runs |-> [pc |-> "idle", at |-> 1, err |-> "none"]]

To(m, pc) == run' = [run EXCEPT ![m] = [@ EXCEPT !.pc = pc]]
SetTx(m, tx) == session' = [session EXCEPT ![m] = [@ EXCEPT !.tx = tx]]

-----------------------------------------------------------------------------
\* Open, Acquire, and SELECT pg_advisory_lock is sent.
Begin(m) ==
  /\ run[m].pc = "idle"
  /\ To(m, "lock")
  /\ session' = [session EXCEPT ![m] = [link |-> "open", waits |-> TRUE, tx |-> "none"]]
  /\ UNCHANGED <<schema, ledger, lock>>

\* The lock is not asked for.
DefectNoLock == TRUE

LockIsFree == lock = None

\* The server grants the lock, to an orphaned session as well.
Granted(m) ==
  /\ session[m].waits /\ LockIsFree
  /\ lock' = m
  /\ session' = [session EXCEPT ![m] = [@ EXCEPT !.waits = FALSE]]
  /\ IF session[m].link = "open" THEN To(m, "ledger") ELSE UNCHANGED run
  /\ UNCHANGED <<schema, ledger>>

\* The statement that asks for the lock fails; nothing is deferred but the release of
\* the connection, which the pool closes.
LockFails(m) ==
  /\ run[m].pc = "lock" /\ session[m].waits
  /\ run' = [run EXCEPT ![m] = [@ EXCEPT !.pc = "failed", !.err = "other"]]
  /\ session' = [session EXCEPT ![m] = [@ EXCEPT !.link = "ended", !.waits = FALSE]]
  /\ UNCHANGED <<schema, ledger, lock>>

\* CREATE TABLE IF NOT EXISTS schema_migrations.
CreateLedger(m) ==
  /\ run[m].pc = "ledger"
  /\ To(m, "check")
  /\ UNCHANGED <<schema, ledger, lock, session>>

\* After a version: the next, or the deferred unlock.
NextVersion(m) ==
  run' = [run EXCEPT ![m] =
    IF run[m].at < Image[m] THEN [run[m] EXCEPT !.pc = "check", !.at = run[m].at + 1]
                            ELSE [run[m] EXCEPT !.pc = "unlock"]]

\* Begin, and SELECT EXISTS in the ledger: an applied version is committed at once.
Check(m) ==
  /\ run[m].pc = "check"
  /\ IF run[m].at \in ledger
       THEN NextVersion(m) /\ UNCHANGED session
       ELSE To(m, "apply") /\ SetTx(m, "open")
  /\ UNCHANGED <<schema, ledger, lock>>

\* Another transaction is at the same objects: the statement waits for its end.
Blocked(m) == \E o \in Runs \ {m} : /\ run[o].at = run[m].at
                                    /\ session[o].tx \in {"changed", "recorded", "committing"}

\* The version's SQL; its CREATE statements fail when what they create exists.
Apply(m) ==
  /\ run[m].pc = "apply" /\ ~Blocked(m)
  /\ IF run[m].at \in schema
       THEN /\ run' = [run EXCEPT ![m] = [@ EXCEPT !.pc = "unlock", !.err = "exists"]]
            /\ SetTx(m, "none")
       ELSE To(m, "record") /\ SetTx(m, "changed")
  /\ UNCHANGED <<schema, ledger, lock>>

\* The version is recorded in the transaction that applies it.
Record(m) ==
  /\ run[m].pc = "record"
  /\ To(m, "commit") /\ SetTx(m, "recorded")
  /\ UNCHANGED <<schema, ledger, lock>>

\* What COMMIT makes visible.
Committed(m) ==
  /\ schema' = schema \cup {run[m].at}
  /\ ledger' = ledger \cup {run[m].at}

Commit(m) ==
  /\ run[m].pc = "commit"
  /\ Committed(m) /\ SetTx(m, "none") /\ NextVersion(m)
  /\ UNCHANGED lock

\* A statement fails for another reason: rollback and unlock follow, deferred.
Refuse(m) ==
  /\ run[m].pc \in {"ledger", "check", "apply", "record", "commit"}
  /\ run' = [run EXCEPT ![m] = [@ EXCEPT !.pc = "unlock", !.err = "other"]]
  /\ SetTx(m, "none")
  /\ UNCHANGED <<schema, ledger, lock>>

\* pg_advisory_unlock; the pool closes the connection.
Unlock(m) ==
  /\ run[m].pc = "unlock"
  /\ lock' = None
  /\ session' = [session EXCEPT ![m] = [@ EXCEPT !.link = "ended"]]
  /\ To(m, IF run[m].err = "none" THEN "done" ELSE "failed")
  /\ UNCHANGED <<schema, ledger>>

-----------------------------------------------------------------------------
\* The connection is lost, a signal cancels the context (pgx closes the connection
\* of a cancelled statement), or the process dies: no deferred statement arrives.  A run
\* that has nothing left but the unlock does not hear of it, and succeeds.
Break(m) ==
  /\ session[m].link = "open"
  /\ \/ run' = [run EXCEPT ![m] = [@ EXCEPT !.pc = "failed", !.err = "other"]]
     \/ run[m].pc = "unlock" /\ run[m].err = "none" /\ To(m, "done")
  /\ session' = [session EXCEPT ![m] =
       [@ EXCEPT !.link = "orphan",
                 !.tx = IF run[m].pc = "commit" THEN "committing" ELSE session[m].tx]]
  /\ UNCHANGED <<schema, ledger, lock>>

\* The COMMIT of an orphaned session reaches the server.
Land(m) ==
  /\ session[m].tx = "committing"
  /\ Committed(m) /\ SetTx(m, "none")
  /\ UNCHANGED <<lock, run>>

\* The lock is not the session's: only an explicit unlock frees it.
DefectHeld(m) == lock

\* The lock ends with the session that holds it.
ReleasedBy(m) == IF lock = m THEN None ELSE lock

\* The server notices that the client is gone: rollback, and the lock is free.
SessionEnds(m) ==
  /\ session[m].link = "orphan"
  /\ session' = [session EXCEPT ![m] = [link |-> "ended", waits |-> FALSE, tx |-> "none"]]
  /\ lock' = ReleasedBy(m)
  /\ UNCHANGED <<schema, ledger, run>>

\* What a run does by itself, as opposed to Begin and Break.
Progress(m) ==
  \/ Granted(m) \/ CreateLedger(m) \/ Check(m) \/ Apply(m) \/ Record(m) \/ Commit(m)
  \/ Unlock(m) \/ SessionEnds(m)

MigrationNext ==
  \E m \in Runs :
    Begin(m) \/ Progress(m) \/ LockFails(m) \/ Refuse(m) \/ Break(m) \/ Land(m)

MigrationSpec == MigrationInit /\ [][MigrationNext]_migrationVars

-----------------------------------------------------------------------------
\* Whatever runs are interrupted, repeated, or started at once from images of
\* different age: the versions applied are the first ones without a gap, each is
\* recorded, and no run finds what it is about to create.
AppliedOnce ==
  /\ ledger = schema
  /\ \A v \in schema, w \in Versions : w < v => w \in schema
  /\ \A m \in Runs : run[m].err # "exists"

\* The database goes from one version to the next, schema and ledger together: no run,
\* and no COMMIT that outlived its run, leaves one out or takes one back.
VersionsFollow ==
  [][\E v \in Versions : /\ schema = 1..(v - 1) /\ ledger = 1..(v - 1)
                         /\ schema' = 1..v /\ ledger' = 1..v]_<<schema, ledger>>

\* A run between the grant of the lock and the unlock.
Critical(m) == run[m].pc \in {"ledger", "check", "apply", "record", "commit", "unlock"}

\* Whoever is at work in the database, or has left a transaction there, holds the lock.
LockOK ==
  \A m \in Runs :
    /\ Critical(m) \/ session[m].tx # "none" => lock = m
    /\ lock = m => ~session[m].waits /\ session[m].link \in {"open", "orphan"}

\* A process and its session: what is left at the server once they are parted.
SessionOK ==
  \A m \in Runs :
    /\ session[m].link = "open" <=> Critical(m) \/ run[m].pc = "lock"
    /\ session[m].link = "open" /\ session[m].tx # "none" => run[m].pc \in {"apply", "record", "commit"}
    /\ session[m].tx = "committing" => session[m].link = "orphan"
    /\ session[m].link \in {"none", "ended"} => session[m].tx = "none" /\ ~session[m].waits
    /\ run[m].pc = "idle" => session[m].link = "none"
    /\ run[m].pc \in {"idle", "lock"} => run[m].at = 1

\* The version a run is at comes after those it has seen applied, and is not applied
\* while the run is about to apply it.
VersionOK ==
  \A m \in Runs :
    /\ run[m].at <= Image[m]
    /\ Critical(m) \/ session[m].tx = "committing" => 1..(run[m].at - 1) \subseteq ledger
    /\ run[m].pc \in {"apply", "record", "commit"} \/ session[m].tx = "committing"
         => run[m].at \notin ledger
    /\ run[m].pc = "done" \/ (run[m].pc = "unlock" /\ run[m].err = "none")
         => 1..Image[m] \subseteq ledger

MigrationInv == MigrationTypeOK /\ LockOK /\ SessionOK /\ VersionOK /\ AppliedOnce
=============================================================================
