-------------------------- MODULE OperationsProofs ---------------------------
(***************************************************************************)
(* Proofs about the operation of the broker, in two parts that share       *)
(* nothing.  Deployment and its Migration: MigrationInv is inductive, for  *)
(* any runs, images and versions; from it follow that each version is      *)
(* applied once and in order, and that success and readiness can be        *)
(* trusted.  ServerLifecycle: LifecycleInv is inductive, for any number of *)
(* requests; from it follow that the pool closes last and that a clean     *)
(* exit has cut no request.                                                *)
(***************************************************************************)
EXTENDS Deployment, ServerLifecycle, TLAPS

-----------------------------------------------------------------------------
(* Migration and readiness.                                                *)

\* A step of run m that applies nothing keeps the invariant if the run and its session
\* stay right about the lock and the ledger.
LEMMA LocalInv ==
  ASSUME MigrationInv, NEW m \in Runs, NEW r \in Run, NEW s \in Session,
         run' = [run EXCEPT ![m] = r], session' = [session EXCEPT ![m] = s],
         UNCHANGED <<schema, ledger>>,
         \/ lock' = lock
         \/ lock = None /\ lock' = m
         \/ lock = m /\ lock' = None,
         Critical(m)' \/ s.tx # "none" => lock' = m,
         lock' = m => ~s.waits /\ s.link \in {"open", "orphan"},
         s.link = "open" <=> Critical(m)' \/ r.pc = "lock",
         s.link = "open" /\ s.tx # "none" => r.pc \in {"apply", "record", "commit"},
         s.tx = "committing" => s.link = "orphan",
         s.link \in {"none", "ended"} => s.tx = "none" /\ ~s.waits,
         r.pc = "idle" => s.link = "none", r.pc \in {"idle", "lock"} => r.at = 1,
         r.at <= Image[m], r.err # "exists",
         Critical(m)' \/ s.tx = "committing" => 1..(r.at - 1) \subseteq ledger,
         r.pc \in {"apply", "record", "commit"} \/ s.tx = "committing" => r.at \notin ledger,
         r.pc = "done" \/ (r.pc = "unlock" /\ r.err = "none") => 1..Image[m] \subseteq ledger
  PROVE  MigrationInv'
  <1> USE MigrationAssumption
  <1>1. \A o \in Runs : /\ run'[o] = IF o = m THEN r ELSE run[o]
                        /\ session'[o] = IF o = m THEN s ELSE session[o]
    BY DEF MigrationInv, MigrationTypeOK
  <1>2. MigrationTypeOK'
    BY DEF MigrationInv, MigrationTypeOK
  <1>3. LockOK'
    BY <1>1 DEF MigrationInv, LockOK, Critical
  <1>4. SessionOK'
    BY <1>1 DEF MigrationInv, SessionOK, Critical
  <1>5. VersionOK'
    BY <1>1 DEF MigrationInv, VersionOK, Critical
  <1>6. AppliedOnce'
    BY <1>1 DEF MigrationInv, AppliedOnce
  <1> QED BY <1>2, <1>3, <1>4, <1>5, <1>6 DEF MigrationInv

\* The commit of the version run m is at, by its process or by the session it left:
\* no other run is at work, and what others know to be applied stays applied.
LEMMA CommittedInv ==
  ASSUME MigrationInv, NEW m \in Runs, NEW r \in Run, NEW s \in Session,
         run' = [run EXCEPT ![m] = r], session' = [session EXCEPT ![m] = s],
         Committed(m), lock' = lock, lock = m,
         run[m].at \notin ledger, 1..(run[m].at - 1) \subseteq ledger,
         s.tx = "none", ~s.waits, s.link \in {"open", "orphan"},
         s.link = "open" <=> Critical(m)', r.pc # "lock", r.pc # "idle",
         r.at <= Image[m], r.err # "exists",
         r.pc \notin {"apply", "record", "commit", "done"},
         Critical(m)' => 1..(r.at - 1) \subseteq ledger',
         r.pc = "unlock" => 1..Image[m] \subseteq ledger'
  PROVE  MigrationInv'
  <1> USE MigrationAssumption
  <1>1. \A o \in Runs : /\ run'[o] = IF o = m THEN r ELSE run[o]
                        /\ session'[o] = IF o = m THEN s ELSE session[o]
    BY DEF MigrationInv, MigrationTypeOK
  <1>2. \A o \in Runs \ {m} : ~Critical(o) /\ session[o].tx = "none"
    BY DEF MigrationInv, LockOK
  <1>3. run[m].at \in Versions
    BY DEF MigrationInv, MigrationTypeOK, Run
  <1>4. ledger \subseteq ledger' /\ ledger' = ledger \cup {run[m].at} /\ schema' = ledger'
    BY DEF Committed, MigrationInv, AppliedOnce
  <1>5. MigrationTypeOK'
    BY <1>3 DEF MigrationInv, MigrationTypeOK, Committed
  <1>6. LockOK'
    BY <1>1 DEF MigrationInv, LockOK, Critical
  <1>7. SessionOK'
    BY <1>1 DEF MigrationInv, SessionOK, Critical
  <1>8. VersionOK'
    <2> SUFFICES ASSUME NEW o \in Runs
                 PROVE  /\ run'[o].at <= Image[o]
                        /\ Critical(o)' \/ session'[o].tx = "committing"
                             => 1..(run'[o].at - 1) \subseteq ledger'
                        /\ run'[o].pc \in {"apply", "record", "commit"} \/ session'[o].tx = "committing"
                             => run'[o].at \notin ledger'
                        /\ run'[o].pc = "done" \/ (run'[o].pc = "unlock" /\ run'[o].err = "none")
                             => 1..Image[o] \subseteq ledger'
      BY DEF VersionOK
    <2>1. CASE o = m
      BY <1>1, <2>1 DEF Critical
    <2>2. CASE o # m
      <3>1. run'[o] = run[o] /\ session'[o] = session[o]
        BY <1>1, <2>2
      <3>2. ~Critical(o) /\ session[o].tx = "none"
        BY <1>2, <2>2
      <3>3. run[o].pc = "done" \/ (run[o].pc = "unlock" /\ run[o].err = "none")
              => 1..Image[o] \subseteq ledger
        BY DEF MigrationInv, VersionOK
      <3>4. run[o].at <= Image[o]
        BY DEF MigrationInv, VersionOK
      <3> QED BY <3>1, <3>2, <3>3, <3>4, <1>4 DEF Critical
    <2> QED BY <2>1, <2>2
  <1>9. AppliedOnce'
    <2>1. \A v \in schema', w \in Versions : w < v => w \in schema'
      <3> SUFFICES ASSUME NEW v \in schema', NEW w \in Versions, w < v PROVE w \in schema'
        OBVIOUS
      <3>1. CASE v \in schema
        BY <3>1, <1>4 DEF MigrationInv, AppliedOnce
      <3>2. CASE v = run[m].at
        BY <3>2, <1>3, <1>4 DEF Versions
      <3> QED BY <3>1, <3>2, <1>4 DEF MigrationInv, AppliedOnce
    <2>2. \A o \in Runs : run'[o].err # "exists"
      BY <1>1 DEF MigrationInv, AppliedOnce
    <2> QED BY <2>1, <2>2, <1>4 DEF AppliedOnce
  <1> QED BY <1>5, <1>6, <1>7, <1>8, <1>9 DEF MigrationInv

-----------------------------------------------------------------------------
\* What the invariant says of one run.
LEMMA OfRun ==
  ASSUME NEW m \in Runs, MigrationInv
  PROVE  /\ run[m] \in Run /\ session[m] \in Session
         /\ Critical(m) \/ session[m].tx # "none" => lock = m
         /\ lock = m => ~session[m].waits /\ session[m].link \in {"open", "orphan"}
         /\ session[m].link = "open" <=> Critical(m) \/ run[m].pc = "lock"
         /\ session[m].link = "open" /\ session[m].tx # "none" => run[m].pc \in {"apply", "record", "commit"}
         /\ session[m].tx = "committing" => session[m].link = "orphan"
         /\ session[m].link \in {"none", "ended"} => session[m].tx = "none" /\ ~session[m].waits
         /\ run[m].pc = "idle" => session[m].link = "none"
         /\ run[m].pc \in {"idle", "lock"} => run[m].at = 1
         /\ run[m].at <= Image[m] /\ run[m].at \in Nat \ {0} /\ Image[m] \in Nat
         /\ run[m].err # "exists"
         /\ Critical(m) \/ session[m].tx = "committing" => 1..(run[m].at - 1) \subseteq ledger
         /\ run[m].pc \in {"apply", "record", "commit"} \/ session[m].tx = "committing"
              => run[m].at \notin ledger
         /\ run[m].pc = "done" \/ (run[m].pc = "unlock" /\ run[m].err = "none")
              => 1..Image[m] \subseteq ledger
         /\ ledger = schema
  BY MigrationAssumption DEF MigrationInv, MigrationTypeOK, LockOK, SessionOK, VersionOK, AppliedOnce,
                             Run, Versions

\* A run begins without the lock: its session is new.
LEMMA BeginInv == ASSUME NEW m \in Runs, MigrationInv, Begin(m) PROVE MigrationInv'
  <1> DEFINE r == [run[m] EXCEPT !.pc = "lock"]
             s == [link |-> "open", waits |-> TRUE, tx |-> "none"]
  <1>1. r \in Run /\ s \in Session
    BY OfRun DEF Run, Session
  <1>2. run' = [run EXCEPT ![m] = r] /\ session' = [session EXCEPT ![m] = s] /\ run'[m] = r
    BY DEF Begin, To, SetTx, MigrationInv, MigrationTypeOK
  <1>3. /\ r.pc = "lock" /\ r.at = run[m].at /\ r.err = run[m].err
        /\ s.link = "open" /\ s.waits /\ s.tx = "none"
    BY OfRun DEF Run, Session
  <1>4. Critical(m)' <=> r.pc \in {"ledger", "check", "apply", "record", "commit", "unlock"}
    BY <1>2 DEF Critical
  <1> HIDE DEF r, s
  <1>5. /\ UNCHANGED <<schema, ledger>>
        /\ \/ lock' = lock
           \/ lock = None /\ lock' = m
           \/ lock = m /\ lock' = None
        /\ Critical(m)' \/ s.tx # "none" => lock' = m
        /\ lock' = m => ~s.waits /\ s.link \in {"open", "orphan"}
    BY <1>3, <1>4, OfRun, MigrationAssumption DEF Begin, Critical
  <1>6. /\ s.link = "open" <=> Critical(m)' \/ r.pc = "lock"
        /\ s.link = "open" /\ s.tx # "none" => r.pc \in {"apply", "record", "commit"}
        /\ s.tx = "committing" => s.link = "orphan"
        /\ s.link \in {"none", "ended"} => s.tx = "none" /\ ~s.waits
        /\ r.pc = "idle" => s.link = "none"
        /\ r.pc \in {"idle", "lock"} => r.at = 1
    BY <1>3, <1>4, OfRun DEF Begin, Critical
  <1>7. /\ r.at <= Image[m] /\ r.err # "exists"
        /\ Critical(m)' \/ s.tx = "committing" => 1..(r.at - 1) \subseteq ledger
        /\ r.pc \in {"apply", "record", "commit"} \/ s.tx = "committing" => r.at \notin ledger
        /\ r.pc = "done" \/ (r.pc = "unlock" /\ r.err = "none") => 1..Image[m] \subseteq ledger
    BY <1>3, <1>4, OfRun DEF Begin, Critical
  <1> QED BY <1>1, <1>2, <1>5, <1>6, <1>7, LocalInv

\* Creating the ledger moves the run on, and nothing else.
LEMMA CreateLedgerInv == ASSUME NEW m \in Runs, MigrationInv, CreateLedger(m) PROVE MigrationInv'
  <1> DEFINE r == [run[m] EXCEPT !.pc = "check"]
             s == session[m]
  <1>1. r \in Run /\ s \in Session
    BY OfRun DEF Run, Session
  <1>2. run' = [run EXCEPT ![m] = r] /\ session' = [session EXCEPT ![m] = s] /\ run'[m] = r
    BY DEF CreateLedger, To, SetTx, MigrationInv, MigrationTypeOK
  <1>3. /\ r.pc = "check" /\ r.at = run[m].at /\ r.err = run[m].err
        /\ s = session[m]
    BY OfRun DEF Run, Session
  <1>4. Critical(m)' <=> r.pc \in {"ledger", "check", "apply", "record", "commit", "unlock"}
    BY <1>2 DEF Critical
  <1> HIDE DEF r, s
  <1>5. /\ UNCHANGED <<schema, ledger>>
        /\ \/ lock' = lock
           \/ lock = None /\ lock' = m
           \/ lock = m /\ lock' = None
        /\ Critical(m)' \/ s.tx # "none" => lock' = m
        /\ lock' = m => ~s.waits /\ s.link \in {"open", "orphan"}
    BY <1>3, <1>4, OfRun, MigrationAssumption DEF CreateLedger, Critical
  <1>6. /\ s.link = "open" <=> Critical(m)' \/ r.pc = "lock"
        /\ s.link = "open" /\ s.tx # "none" => r.pc \in {"apply", "record", "commit"}
        /\ s.tx = "committing" => s.link = "orphan"
        /\ s.link \in {"none", "ended"} => s.tx = "none" /\ ~s.waits
        /\ r.pc = "idle" => s.link = "none"
        /\ r.pc \in {"idle", "lock"} => r.at = 1
    BY <1>3, <1>4, OfRun DEF CreateLedger, Critical
  <1>7. /\ r.at <= Image[m] /\ r.err # "exists"
        /\ Critical(m)' \/ s.tx = "committing" => 1..(r.at - 1) \subseteq ledger
        /\ r.pc \in {"apply", "record", "commit"} \/ s.tx = "committing" => r.at \notin ledger
        /\ r.pc = "done" \/ (r.pc = "unlock" /\ r.err = "none") => 1..Image[m] \subseteq ledger
    BY <1>3, <1>4, OfRun DEF CreateLedger, Critical
  <1> QED BY <1>1, <1>2, <1>5, <1>6, <1>7, LocalInv

\* The version is recorded in the open transaction.
LEMMA RecordInv == ASSUME NEW m \in Runs, MigrationInv, Record(m) PROVE MigrationInv'
  <1> DEFINE r == [run[m] EXCEPT !.pc = "commit"]
             s == [session[m] EXCEPT !.tx = "recorded"]
  <1>1. r \in Run /\ s \in Session
    BY OfRun DEF Run, Session
  <1>2. run' = [run EXCEPT ![m] = r] /\ session' = [session EXCEPT ![m] = s] /\ run'[m] = r
    BY DEF Record, To, SetTx, MigrationInv, MigrationTypeOK
  <1>3. /\ r.pc = "commit" /\ r.at = run[m].at /\ r.err = run[m].err
        /\ s.link = session[m].link /\ s.waits = session[m].waits /\ s.tx = "recorded"
    BY OfRun DEF Run, Session
  <1>4. Critical(m)' <=> r.pc \in {"ledger", "check", "apply", "record", "commit", "unlock"}
    BY <1>2 DEF Critical
  <1> HIDE DEF r, s
  <1>5. /\ UNCHANGED <<schema, ledger>>
        /\ \/ lock' = lock
           \/ lock = None /\ lock' = m
           \/ lock = m /\ lock' = None
        /\ Critical(m)' \/ s.tx # "none" => lock' = m
        /\ lock' = m => ~s.waits /\ s.link \in {"open", "orphan"}
    BY <1>3, <1>4, OfRun, MigrationAssumption DEF Record, Critical
  <1>6. /\ s.link = "open" <=> Critical(m)' \/ r.pc = "lock"
        /\ s.link = "open" /\ s.tx # "none" => r.pc \in {"apply", "record", "commit"}
        /\ s.tx = "committing" => s.link = "orphan"
        /\ s.link \in {"none", "ended"} => s.tx = "none" /\ ~s.waits
        /\ r.pc = "idle" => s.link = "none"
        /\ r.pc \in {"idle", "lock"} => r.at = 1
    BY <1>3, <1>4, OfRun DEF Record, Critical
  <1>7. /\ r.at <= Image[m] /\ r.err # "exists"
        /\ Critical(m)' \/ s.tx = "committing" => 1..(r.at - 1) \subseteq ledger
        /\ r.pc \in {"apply", "record", "commit"} \/ s.tx = "committing" => r.at \notin ledger
        /\ r.pc = "done" \/ (r.pc = "unlock" /\ r.err = "none") => 1..Image[m] \subseteq ledger
    BY <1>3, <1>4, OfRun DEF Record, Critical
  <1> QED BY <1>1, <1>2, <1>5, <1>6, <1>7, LocalInv

\* A statement is refused: the transaction is rolled back.
LEMMA RefuseInv == ASSUME NEW m \in Runs, MigrationInv, Refuse(m) PROVE MigrationInv'
  <1> DEFINE r == [run[m] EXCEPT !.pc = "unlock", !.err = "other"]
             s == [session[m] EXCEPT !.tx = "none"]
  <1>1. r \in Run /\ s \in Session
    BY OfRun, ZenonT(40) DEF Run, Session
  <1>2. run' = [run EXCEPT ![m] = r] /\ session' = [session EXCEPT ![m] = s] /\ run'[m] = r
    BY DEF Refuse, To, SetTx, MigrationInv, MigrationTypeOK
  <1>3. /\ r.pc = "unlock" /\ r.at = run[m].at /\ r.err = "other"
        /\ s.link = session[m].link /\ s.waits = session[m].waits /\ s.tx = "none"
    BY OfRun DEF Run, Session
  <1>4. Critical(m)' <=> r.pc \in {"ledger", "check", "apply", "record", "commit", "unlock"}
    BY <1>2 DEF Critical
  <1> HIDE DEF r, s
  <1>5. /\ UNCHANGED <<schema, ledger>>
        /\ \/ lock' = lock
           \/ lock = None /\ lock' = m
           \/ lock = m /\ lock' = None
        /\ Critical(m)' \/ s.tx # "none" => lock' = m
        /\ lock' = m => ~s.waits /\ s.link \in {"open", "orphan"}
    BY <1>3, <1>4, OfRun, MigrationAssumption DEF Refuse, Critical
  <1>6. /\ s.link = "open" <=> Critical(m)' \/ r.pc = "lock"
        /\ s.link = "open" /\ s.tx # "none" => r.pc \in {"apply", "record", "commit"}
        /\ s.tx = "committing" => s.link = "orphan"
        /\ s.link \in {"none", "ended"} => s.tx = "none" /\ ~s.waits
        /\ r.pc = "idle" => s.link = "none"
        /\ r.pc \in {"idle", "lock"} => r.at = 1
    BY <1>3, <1>4, OfRun DEF Refuse, Critical
  <1>7. /\ r.at <= Image[m] /\ r.err # "exists"
        /\ Critical(m)' \/ s.tx = "committing" => 1..(r.at - 1) \subseteq ledger
        /\ r.pc \in {"apply", "record", "commit"} \/ s.tx = "committing" => r.at \notin ledger
        /\ r.pc = "done" \/ (r.pc = "unlock" /\ r.err = "none") => 1..Image[m] \subseteq ledger
    BY <1>3, <1>4, OfRun DEF Refuse, Critical
  <1> QED BY <1>1, <1>2, <1>5, <1>6, <1>7, LocalInv

\* The server ends an orphaned session, and the lock with it.
LEMMA SessionEndsInv == ASSUME NEW m \in Runs, MigrationInv, SessionEnds(m) PROVE MigrationInv'
  <1> DEFINE r == run[m]
             s == [link |-> "ended", waits |-> FALSE, tx |-> "none"]
  <1>1. r \in Run /\ s \in Session
    BY OfRun DEF Run, Session
  <1>2. run' = [run EXCEPT ![m] = r] /\ session' = [session EXCEPT ![m] = s] /\ run'[m] = r
    BY DEF SessionEnds, To, SetTx, MigrationInv, MigrationTypeOK
  <1>3. /\ r = run[m]
        /\ s.link = "ended" /\ ~s.waits /\ s.tx = "none"
    BY OfRun DEF Run, Session
  <1>4. Critical(m)' <=> r.pc \in {"ledger", "check", "apply", "record", "commit", "unlock"}
    BY <1>2 DEF Critical
  <1> HIDE DEF r, s
  <1>5. /\ UNCHANGED <<schema, ledger>>
        /\ \/ lock' = lock
           \/ lock = None /\ lock' = m
           \/ lock = m /\ lock' = None
        /\ Critical(m)' \/ s.tx # "none" => lock' = m
        /\ lock' = m => ~s.waits /\ s.link \in {"open", "orphan"}
    BY <1>3, <1>4, OfRun, MigrationAssumption DEF SessionEnds, Critical, ReleasedBy
  <1>6. /\ s.link = "open" <=> Critical(m)' \/ r.pc = "lock"
        /\ s.link = "open" /\ s.tx # "none" => r.pc \in {"apply", "record", "commit"}
        /\ s.tx = "committing" => s.link = "orphan"
        /\ s.link \in {"none", "ended"} => s.tx = "none" /\ ~s.waits
        /\ r.pc = "idle" => s.link = "none"
        /\ r.pc \in {"idle", "lock"} => r.at = 1
    BY <1>3, <1>4, OfRun DEF SessionEnds, Critical
  <1>7. /\ r.at <= Image[m] /\ r.err # "exists"
        /\ Critical(m)' \/ s.tx = "committing" => 1..(r.at - 1) \subseteq ledger
        /\ r.pc \in {"apply", "record", "commit"} \/ s.tx = "committing" => r.at \notin ledger
        /\ r.pc = "done" \/ (r.pc = "unlock" /\ r.err = "none") => 1..Image[m] \subseteq ledger
    BY <1>3, <1>4, OfRun DEF SessionEnds, Critical
  <1> QED BY <1>1, <1>2, <1>5, <1>6, <1>7, LocalInv

\* A run whose request for the lock fails leaves nothing behind.
LEMMA LockFailsInv == ASSUME NEW m \in Runs, MigrationInv, LockFails(m) PROVE MigrationInv'
  <1> DEFINE r == [run[m] EXCEPT !.pc = "failed", !.err = "other"]
             s == [session[m] EXCEPT !.link = "ended", !.waits = FALSE]
  <1>1. r \in Run /\ s \in Session
    BY OfRun, ZenonT(40) DEF Run, Session
  <1>2. run' = [run EXCEPT ![m] = r] /\ session' = [session EXCEPT ![m] = s] /\ run'[m] = r
    BY DEF LockFails, To, SetTx, MigrationInv, MigrationTypeOK
  <1>3. /\ r.pc = "failed" /\ r.at = run[m].at /\ r.err = "other"
        /\ s.link = "ended" /\ ~s.waits /\ s.tx = session[m].tx
    BY OfRun DEF Run, Session
  <1>4. Critical(m)' <=> r.pc \in {"ledger", "check", "apply", "record", "commit", "unlock"}
    BY <1>2 DEF Critical
  <1> HIDE DEF r, s
  <1>5. /\ UNCHANGED <<schema, ledger>>
        /\ \/ lock' = lock
           \/ lock = None /\ lock' = m
           \/ lock = m /\ lock' = None
        /\ Critical(m)' \/ s.tx # "none" => lock' = m
        /\ lock' = m => ~s.waits /\ s.link \in {"open", "orphan"}
    BY <1>3, <1>4, OfRun, MigrationAssumption DEF LockFails, Critical
  <1>6. /\ s.link = "open" <=> Critical(m)' \/ r.pc = "lock"
        /\ s.link = "open" /\ s.tx # "none" => r.pc \in {"apply", "record", "commit"}
        /\ s.tx = "committing" => s.link = "orphan"
        /\ s.link \in {"none", "ended"} => s.tx = "none" /\ ~s.waits
        /\ r.pc = "idle" => s.link = "none"
        /\ r.pc \in {"idle", "lock"} => r.at = 1
    BY <1>3, <1>4, OfRun DEF LockFails, Critical
  <1>7. /\ r.at <= Image[m] /\ r.err # "exists"
        /\ Critical(m)' \/ s.tx = "committing" => 1..(r.at - 1) \subseteq ledger
        /\ r.pc \in {"apply", "record", "commit"} \/ s.tx = "committing" => r.at \notin ledger
        /\ r.pc = "done" \/ (r.pc = "unlock" /\ r.err = "none") => 1..Image[m] \subseteq ledger
    BY <1>3, <1>4, OfRun DEF LockFails, Critical
  <1> QED BY <1>1, <1>2, <1>5, <1>6, <1>7, LocalInv

\* A run is parted from its session, which keeps its lock and its transaction.
LEMMA BreakInv == ASSUME NEW m \in Runs, MigrationInv, Break(m) PROVE MigrationInv'
  <1> DEFINE r == run'[m]
             s == [session[m] EXCEPT !.link = "orphan",
                                    !.tx = IF run[m].pc = "commit" THEN "committing" ELSE session[m].tx]
  <1>0. /\ \/ r = [run[m] EXCEPT !.pc = "failed", !.err = "other"]
           \/ /\ run[m].pc = "unlock" /\ run[m].err = "none"
              /\ r = [run[m] EXCEPT !.pc = "done"]
        /\ run' = [run EXCEPT ![m] = r]
    BY DEF Break, To, MigrationInv, MigrationTypeOK
  <1>1. r \in Run /\ s \in Session
    <2>1. run[m] \in Run /\ session[m] \in Session
      BY OfRun
    <2>2. [run[m] EXCEPT !.pc = "failed", !.err = "other"] \in Run
      BY <2>1 DEF Run
    <2>3. [run[m] EXCEPT !.pc = "done"] \in Run
      BY <2>1 DEF Run
    <2>4. s \in Session
      BY <2>1, ZenonT(60) DEF Session
    <2> QED BY <1>0, <2>2, <2>3, <2>4
  <1>2. run' = [run EXCEPT ![m] = r] /\ session' = [session EXCEPT ![m] = s] /\ run'[m] = r
    BY <1>0 DEF Break
  <1>3. /\ \/ r.pc = "failed" /\ r.err = "other"
           \/ r.pc = "done" /\ r.err = "none" /\ run[m].pc = "unlock" /\ run[m].err = "none"
        /\ r.at = run[m].at
        /\ s.link = "orphan" /\ s.waits = session[m].waits
        /\ s.tx = IF run[m].pc = "commit" THEN "committing" ELSE session[m].tx
    <2>1. run[m] \in Run /\ session[m] \in Session
      BY OfRun
    <2>2. /\ \/ r.pc = "failed" /\ r.err = "other"
             \/ r.pc = "done" /\ r.err = "none" /\ run[m].pc = "unlock" /\ run[m].err = "none"
          /\ r.at = run[m].at
      BY <1>0, <2>1 DEF Run
    <2>3. /\ s.link = "orphan" /\ s.waits = session[m].waits
          /\ s.tx = IF run[m].pc = "commit" THEN "committing" ELSE session[m].tx
      BY <2>1 DEF Session
    <2> QED BY <2>2, <2>3
  <1>4. Critical(m)' <=> r.pc \in {"ledger", "check", "apply", "record", "commit", "unlock"}
    BY <1>2 DEF Critical
  <1> HIDE DEF r, s
  <1>5. /\ UNCHANGED <<schema, ledger>>
        /\ \/ lock' = lock
           \/ lock = None /\ lock' = m
           \/ lock = m /\ lock' = None
        /\ Critical(m)' \/ s.tx # "none" => lock' = m
        /\ lock' = m => ~s.waits /\ s.link \in {"open", "orphan"}
    BY <1>3, <1>4, OfRun, MigrationAssumption DEF Break, Critical
  <1>6. /\ s.link = "open" <=> Critical(m)' \/ r.pc = "lock"
        /\ s.link = "open" /\ s.tx # "none" => r.pc \in {"apply", "record", "commit"}
        /\ s.tx = "committing" => s.link = "orphan"
        /\ s.link \in {"none", "ended"} => s.tx = "none" /\ ~s.waits
        /\ r.pc = "idle" => s.link = "none"
        /\ r.pc \in {"idle", "lock"} => r.at = 1
    BY <1>3, <1>4, OfRun DEF Break, Critical
  <1>7. /\ r.at <= Image[m] /\ r.err # "exists"
        /\ Critical(m)' \/ s.tx = "committing" => 1..(r.at - 1) \subseteq ledger
        /\ r.pc \in {"apply", "record", "commit"} \/ s.tx = "committing" => r.at \notin ledger
        /\ r.pc = "done" \/ (r.pc = "unlock" /\ r.err = "none") => 1..Image[m] \subseteq ledger
    BY <1>3, <1>4, OfRun DEF Break, Critical
  <1> QED BY <1>1, <1>2, <1>5, <1>6, <1>7, LocalInv

\* The run ends and gives the lock back; it succeeds if it has met no error.
LEMMA UnlockInv == ASSUME NEW m \in Runs, MigrationInv, Unlock(m) PROVE MigrationInv'
  <1> DEFINE r == [run[m] EXCEPT !.pc = IF run[m].err = "none" THEN "done" ELSE "failed"]
             s == [session[m] EXCEPT !.link = "ended"]
  <1>1. r \in Run /\ s \in Session
    BY OfRun DEF Run, Session
  <1>2. run' = [run EXCEPT ![m] = r] /\ session' = [session EXCEPT ![m] = s] /\ run'[m] = r
    BY DEF Unlock, To, SetTx, MigrationInv, MigrationTypeOK
  <1>3. /\ r.pc = IF run[m].err = "none" THEN "done" ELSE "failed"
        /\ r.at = run[m].at /\ r.err = run[m].err
        /\ s.link = "ended" /\ s.waits = session[m].waits /\ s.tx = session[m].tx
    BY OfRun DEF Run, Session
  <1>4. Critical(m)' <=> r.pc \in {"ledger", "check", "apply", "record", "commit", "unlock"}
    BY <1>2 DEF Critical
  <1> HIDE DEF r, s
  <1>5. /\ UNCHANGED <<schema, ledger>>
        /\ \/ lock' = lock
           \/ lock = None /\ lock' = m
           \/ lock = m /\ lock' = None
        /\ Critical(m)' \/ s.tx # "none" => lock' = m
        /\ lock' = m => ~s.waits /\ s.link \in {"open", "orphan"}
    BY <1>3, <1>4, OfRun, MigrationAssumption DEF Unlock, Critical
  <1>6. /\ s.link = "open" <=> Critical(m)' \/ r.pc = "lock"
        /\ s.link = "open" /\ s.tx # "none" => r.pc \in {"apply", "record", "commit"}
        /\ s.tx = "committing" => s.link = "orphan"
        /\ s.link \in {"none", "ended"} => s.tx = "none" /\ ~s.waits
        /\ r.pc = "idle" => s.link = "none"
        /\ r.pc \in {"idle", "lock"} => r.at = 1
    BY <1>3, <1>4, OfRun DEF Unlock, Critical
  <1>7. /\ r.at <= Image[m] /\ r.err # "exists"
        /\ Critical(m)' \/ s.tx = "committing" => 1..(r.at - 1) \subseteq ledger
        /\ r.pc \in {"apply", "record", "commit"} \/ s.tx = "committing" => r.at \notin ledger
        /\ r.pc = "done" \/ (r.pc = "unlock" /\ r.err = "none") => 1..Image[m] \subseteq ledger
    BY <1>3, <1>4, OfRun DEF Unlock, Critical
  <1> QED BY <1>1, <1>2, <1>5, <1>6, <1>7, LocalInv

\* The lock is granted to a run that waits for it.
LEMMA GrantedRunInv ==
  ASSUME NEW m \in Runs, MigrationInv, Granted(m), session[m].link = "open"
  PROVE  MigrationInv'
  <1> DEFINE r == [run[m] EXCEPT !.pc = "ledger"]
             s == [session[m] EXCEPT !.waits = FALSE]
  <1>1. r \in Run /\ s \in Session
    BY OfRun, ZenonT(40) DEF Run, Session, Versions
  <1>2. run' = [run EXCEPT ![m] = r] /\ session' = [session EXCEPT ![m] = s] /\ run'[m] = r
    BY OfRun DEF Granted, LockIsFree, To, SetTx, MigrationInv, MigrationTypeOK
  <1>3. /\ r.pc = "ledger"
        /\ r.at = run[m].at /\ r.err = run[m].err
        /\ s.link = session[m].link /\ ~s.waits /\ s.tx = session[m].tx
    BY OfRun DEF Run, Session
  <1>4. Critical(m)' <=> r.pc \in {"ledger", "check", "apply", "record", "commit", "unlock"}
    BY <1>2 DEF Critical
  <1> HIDE DEF r, s
  <1>5. /\ UNCHANGED <<schema, ledger>>
        /\ \/ lock' = lock
           \/ lock = None /\ lock' = m
           \/ lock = m /\ lock' = None
        /\ Critical(m)' \/ s.tx # "none" => lock' = m
        /\ lock' = m => ~s.waits /\ s.link \in {"open", "orphan"}
    BY <1>3, <1>4, OfRun, MigrationAssumption DEF Granted, LockIsFree, Critical
  <1>6. /\ s.link = "open" <=> Critical(m)' \/ r.pc = "lock"
        /\ s.link = "open" /\ s.tx # "none" => r.pc \in {"apply", "record", "commit"}
        /\ s.tx = "committing" => s.link = "orphan"
        /\ s.link \in {"none", "ended"} => s.tx = "none" /\ ~s.waits
        /\ r.pc = "idle" => s.link = "none"
        /\ r.pc \in {"idle", "lock"} => r.at = 1
    BY <1>3, <1>4, OfRun DEF Granted, LockIsFree, Critical
  <1>7. /\ r.at <= Image[m] /\ r.err # "exists"
        /\ Critical(m)' \/ s.tx = "committing" => 1..(r.at - 1) \subseteq ledger
        /\ r.pc \in {"apply", "record", "commit"} \/ s.tx = "committing" => r.at \notin ledger
        /\ r.pc = "done" \/ (r.pc = "unlock" /\ r.err = "none") => 1..Image[m] \subseteq ledger
    BY <1>3, <1>4, OfRun DEF Granted, LockIsFree, Critical
  <1> QED BY <1>1, <1>2, <1>5, <1>6, <1>7, LocalInv

\* The lock is granted to the session a run has left.
LEMMA GrantedLeftInv ==
  ASSUME NEW m \in Runs, MigrationInv, Granted(m), session[m].link # "open"
  PROVE  MigrationInv'
  <1> DEFINE r == run[m]
             s == [session[m] EXCEPT !.waits = FALSE]
  <1>1. r \in Run /\ s \in Session
    BY OfRun, ZenonT(40) DEF Run, Session, Versions
  <1>2. run' = [run EXCEPT ![m] = r] /\ session' = [session EXCEPT ![m] = s] /\ run'[m] = r
    BY OfRun DEF Granted, LockIsFree, To, SetTx, MigrationInv, MigrationTypeOK
  <1>3. /\ r = run[m]
        /\ s.link = session[m].link /\ ~s.waits /\ s.tx = session[m].tx
    BY OfRun DEF Run, Session
  <1>4. Critical(m)' <=> r.pc \in {"ledger", "check", "apply", "record", "commit", "unlock"}
    BY <1>2 DEF Critical
  <1> HIDE DEF r, s
  <1>5. /\ UNCHANGED <<schema, ledger>>
        /\ \/ lock' = lock
           \/ lock = None /\ lock' = m
           \/ lock = m /\ lock' = None
        /\ Critical(m)' \/ s.tx # "none" => lock' = m
        /\ lock' = m => ~s.waits /\ s.link \in {"open", "orphan"}
    BY <1>3, <1>4, OfRun, MigrationAssumption DEF Granted, LockIsFree, Critical, Session
  <1>6. /\ s.link = "open" <=> Critical(m)' \/ r.pc = "lock"
        /\ s.link = "open" /\ s.tx # "none" => r.pc \in {"apply", "record", "commit"}
        /\ s.tx = "committing" => s.link = "orphan"
        /\ s.link \in {"none", "ended"} => s.tx = "none" /\ ~s.waits
        /\ r.pc = "idle" => s.link = "none"
        /\ r.pc \in {"idle", "lock"} => r.at = 1
    BY <1>3, <1>4, OfRun DEF Granted, LockIsFree, Critical
  <1>7. /\ r.at <= Image[m] /\ r.err # "exists"
        /\ Critical(m)' \/ s.tx = "committing" => 1..(r.at - 1) \subseteq ledger
        /\ r.pc \in {"apply", "record", "commit"} \/ s.tx = "committing" => r.at \notin ledger
        /\ r.pc = "done" \/ (r.pc = "unlock" /\ r.err = "none") => 1..Image[m] \subseteq ledger
    BY <1>3, <1>4, OfRun DEF Granted, LockIsFree, Critical
  <1> QED BY <1>1, <1>2, <1>5, <1>6, <1>7, LocalInv

\* A version that is recorded is passed over.
LEMMA SkipInv ==
  ASSUME NEW m \in Runs, MigrationInv, Check(m), run[m].at \in ledger, run[m].at < Image[m]
  PROVE  MigrationInv'
  <1> DEFINE r == [run[m] EXCEPT !.pc = "check", !.at = run[m].at + 1]
             s == session[m]
  <1>1. r \in Run /\ s \in Session
    <2>1. Image[m] \in 1..Latest /\ Latest \in Nat /\ run[m].at \in Nat \ {0}
      BY OfRun, MigrationAssumption
    <2>2. run[m].at + 1 \in Versions
      BY <2>1 DEF Versions
    <2> QED BY <2>2, OfRun DEF Run
  <1>2. run' = [run EXCEPT ![m] = r] /\ session' = [session EXCEPT ![m] = s] /\ run'[m] = r
    BY OfRun DEF Check, NextVersion, To, SetTx, MigrationInv, MigrationTypeOK
  <1>3. /\ r.pc = "check" /\ r.at = run[m].at + 1 /\ r.err = run[m].err
        /\ s = session[m]
    BY OfRun DEF Run, Session
  <1>4. Critical(m)' <=> r.pc \in {"ledger", "check", "apply", "record", "commit", "unlock"}
    BY <1>2 DEF Critical
  <1> HIDE DEF r, s
  <1>5. /\ UNCHANGED <<schema, ledger>>
        /\ \/ lock' = lock
           \/ lock = None /\ lock' = m
           \/ lock = m /\ lock' = None
        /\ Critical(m)' \/ s.tx # "none" => lock' = m
        /\ lock' = m => ~s.waits /\ s.link \in {"open", "orphan"}
    BY <1>3, <1>4, OfRun, MigrationAssumption DEF Check, NextVersion, Critical
  <1>6. /\ s.link = "open" <=> Critical(m)' \/ r.pc = "lock"
        /\ s.link = "open" /\ s.tx # "none" => r.pc \in {"apply", "record", "commit"}
        /\ s.tx = "committing" => s.link = "orphan"
        /\ s.link \in {"none", "ended"} => s.tx = "none" /\ ~s.waits
        /\ r.pc = "idle" => s.link = "none"
        /\ r.pc \in {"idle", "lock"} => r.at = 1
    BY <1>3, <1>4, OfRun DEF Check, NextVersion, Critical
  <1>7. /\ r.at <= Image[m] /\ r.err # "exists"
        /\ Critical(m)' \/ s.tx = "committing" => 1..(r.at - 1) \subseteq ledger
        /\ r.pc \in {"apply", "record", "commit"} \/ s.tx = "committing" => r.at \notin ledger
        /\ r.pc = "done" \/ (r.pc = "unlock" /\ r.err = "none") => 1..Image[m] \subseteq ledger
    BY <1>3, <1>4, OfRun DEF Check, NextVersion, Critical
  <1> QED BY <1>1, <1>2, <1>5, <1>6, <1>7, LocalInv

\* After the last version nothing is left to do.
LEMMA SkipLastInv ==
  ASSUME NEW m \in Runs, MigrationInv, Check(m), run[m].at \in ledger, ~(run[m].at < Image[m])
  PROVE  MigrationInv'
  <1> DEFINE r == [run[m] EXCEPT !.pc = "unlock"]
             s == session[m]
  <1>1. r \in Run /\ s \in Session
    BY OfRun DEF Run, Session, Versions
  <1>2. run' = [run EXCEPT ![m] = r] /\ session' = [session EXCEPT ![m] = s] /\ run'[m] = r
    BY OfRun DEF Check, NextVersion, To, SetTx, MigrationInv, MigrationTypeOK
  <1>3. /\ r.pc = "unlock" /\ r.at = run[m].at /\ r.err = run[m].err
        /\ s = session[m]
    BY OfRun DEF Run, Session
  <1>4. Critical(m)' <=> r.pc \in {"ledger", "check", "apply", "record", "commit", "unlock"}
    BY <1>2 DEF Critical
  <1> HIDE DEF r, s
  <1>5. /\ UNCHANGED <<schema, ledger>>
        /\ \/ lock' = lock
           \/ lock = None /\ lock' = m
           \/ lock = m /\ lock' = None
        /\ Critical(m)' \/ s.tx # "none" => lock' = m
        /\ lock' = m => ~s.waits /\ s.link \in {"open", "orphan"}
    BY <1>3, <1>4, OfRun, MigrationAssumption DEF Check, NextVersion, Critical
  <1>6. /\ s.link = "open" <=> Critical(m)' \/ r.pc = "lock"
        /\ s.link = "open" /\ s.tx # "none" => r.pc \in {"apply", "record", "commit"}
        /\ s.tx = "committing" => s.link = "orphan"
        /\ s.link \in {"none", "ended"} => s.tx = "none" /\ ~s.waits
        /\ r.pc = "idle" => s.link = "none"
        /\ r.pc \in {"idle", "lock"} => r.at = 1
    BY <1>3, <1>4, OfRun DEF Check, NextVersion, Critical
  <1>7. /\ r.at <= Image[m] /\ r.err # "exists"
        /\ Critical(m)' \/ s.tx = "committing" => 1..(r.at - 1) \subseteq ledger
        /\ r.pc \in {"apply", "record", "commit"} \/ s.tx = "committing" => r.at \notin ledger
        /\ r.pc = "done" \/ (r.pc = "unlock" /\ r.err = "none") => 1..Image[m] \subseteq ledger
    BY <1>3, <1>4, OfRun DEF Check, NextVersion, Critical
  <1> QED BY <1>1, <1>2, <1>5, <1>6, <1>7, LocalInv

\* The transaction stays open for a version that is not recorded.
LEMMA OpenInv ==
  ASSUME NEW m \in Runs, MigrationInv, Check(m), run[m].at \notin ledger
  PROVE  MigrationInv'
  <1> DEFINE r == [run[m] EXCEPT !.pc = "apply"]
             s == [session[m] EXCEPT !.tx = "open"]
  <1>1. r \in Run /\ s \in Session
    BY OfRun DEF Run, Session, Versions
  <1>2. run' = [run EXCEPT ![m] = r] /\ session' = [session EXCEPT ![m] = s] /\ run'[m] = r
    BY OfRun DEF Check, To, SetTx, MigrationInv, MigrationTypeOK
  <1>3. /\ r.pc = "apply" /\ r.at = run[m].at /\ r.err = run[m].err
        /\ s.link = session[m].link /\ s.waits = session[m].waits /\ s.tx = "open"
    BY OfRun DEF Run, Session
  <1>4. Critical(m)' <=> r.pc \in {"ledger", "check", "apply", "record", "commit", "unlock"}
    BY <1>2 DEF Critical
  <1> HIDE DEF r, s
  <1>5. /\ UNCHANGED <<schema, ledger>>
        /\ \/ lock' = lock
           \/ lock = None /\ lock' = m
           \/ lock = m /\ lock' = None
        /\ Critical(m)' \/ s.tx # "none" => lock' = m
        /\ lock' = m => ~s.waits /\ s.link \in {"open", "orphan"}
    BY <1>3, <1>4, OfRun, MigrationAssumption DEF Check, Critical
  <1>6. /\ s.link = "open" <=> Critical(m)' \/ r.pc = "lock"
        /\ s.link = "open" /\ s.tx # "none" => r.pc \in {"apply", "record", "commit"}
        /\ s.tx = "committing" => s.link = "orphan"
        /\ s.link \in {"none", "ended"} => s.tx = "none" /\ ~s.waits
        /\ r.pc = "idle" => s.link = "none"
        /\ r.pc \in {"idle", "lock"} => r.at = 1
    BY <1>3, <1>4, OfRun DEF Check, Critical
  <1>7. /\ r.at <= Image[m] /\ r.err # "exists"
        /\ Critical(m)' \/ s.tx = "committing" => 1..(r.at - 1) \subseteq ledger
        /\ r.pc \in {"apply", "record", "commit"} \/ s.tx = "committing" => r.at \notin ledger
        /\ r.pc = "done" \/ (r.pc = "unlock" /\ r.err = "none") => 1..Image[m] \subseteq ledger
    BY <1>3, <1>4, OfRun DEF Check, Critical
  <1> QED BY <1>1, <1>2, <1>5, <1>6, <1>7, LocalInv

\* What the ledger lacks does not exist, so that its statements succeed.
LEMMA ApplyInv ==
  ASSUME NEW m \in Runs, MigrationInv, Apply(m)
  PROVE  MigrationInv'
  <1> DEFINE r == [run[m] EXCEPT !.pc = "record"]
             s == [session[m] EXCEPT !.tx = "changed"]
  <1>1. r \in Run /\ s \in Session
    BY OfRun DEF Run, Session, Versions
  <1>2. run' = [run EXCEPT ![m] = r] /\ session' = [session EXCEPT ![m] = s] /\ run'[m] = r
    BY OfRun DEF Apply, To, SetTx, MigrationInv, MigrationTypeOK
  <1>3. /\ r.pc = "record" /\ r.at = run[m].at /\ r.err = run[m].err
        /\ s.link = session[m].link /\ s.waits = session[m].waits /\ s.tx = "changed"
    BY OfRun DEF Run, Session
  <1>4. Critical(m)' <=> r.pc \in {"ledger", "check", "apply", "record", "commit", "unlock"}
    BY <1>2 DEF Critical
  <1> HIDE DEF r, s
  <1>5. /\ UNCHANGED <<schema, ledger>>
        /\ \/ lock' = lock
           \/ lock = None /\ lock' = m
           \/ lock = m /\ lock' = None
        /\ Critical(m)' \/ s.tx # "none" => lock' = m
        /\ lock' = m => ~s.waits /\ s.link \in {"open", "orphan"}
    BY <1>3, <1>4, OfRun, MigrationAssumption DEF Apply, Critical
  <1>6. /\ s.link = "open" <=> Critical(m)' \/ r.pc = "lock"
        /\ s.link = "open" /\ s.tx # "none" => r.pc \in {"apply", "record", "commit"}
        /\ s.tx = "committing" => s.link = "orphan"
        /\ s.link \in {"none", "ended"} => s.tx = "none" /\ ~s.waits
        /\ r.pc = "idle" => s.link = "none"
        /\ r.pc \in {"idle", "lock"} => r.at = 1
    BY <1>3, <1>4, OfRun DEF Apply, Critical
  <1>7. /\ r.at <= Image[m] /\ r.err # "exists"
        /\ Critical(m)' \/ s.tx = "committing" => 1..(r.at - 1) \subseteq ledger
        /\ r.pc \in {"apply", "record", "commit"} \/ s.tx = "committing" => r.at \notin ledger
        /\ r.pc = "done" \/ (r.pc = "unlock" /\ r.err = "none") => 1..Image[m] \subseteq ledger
    BY <1>3, <1>4, OfRun DEF Apply, Critical
  <1> QED BY <1>1, <1>2, <1>5, <1>6, <1>7, LocalInv

\* A version is committed, and the next one is looked at.
LEMMA CommitInv ==
  ASSUME NEW m \in Runs, MigrationInv, Commit(m), run[m].at < Image[m]
  PROVE  MigrationInv'
  <1> DEFINE r == [run[m] EXCEPT !.pc = "check", !.at = run[m].at + 1]
             s == [session[m] EXCEPT !.tx = "none"]
  <1>0. /\ run[m].at \in Versions /\ run[m].at \notin ledger
        /\ 1..(run[m].at - 1) \subseteq ledger /\ lock = m
        /\ Image[m] \in 1..Latest /\ Latest \in Nat
        /\ ledger' = ledger \cup {run[m].at}
    BY OfRun, MigrationAssumption DEF Commit, Critical, Committed, Run
  <1>1. r \in Run /\ s \in Session
    <2>1. run[m].at + 1 \in Versions
      BY <1>0 DEF Versions
    <2> QED BY <2>1, OfRun, ZenonT(40) DEF Run, Session
  <1>2. run' = [run EXCEPT ![m] = r] /\ session' = [session EXCEPT ![m] = s] /\ run'[m] = r
    BY OfRun DEF Commit, NextVersion, SetTx, MigrationInv, MigrationTypeOK
  <1>3. /\ r.pc = "check" /\ r.at = run[m].at + 1 /\ r.err = run[m].err
        /\ s.link = session[m].link /\ s.waits = session[m].waits /\ s.tx = "none"
    BY OfRun DEF Run, Session
  <1>4. Critical(m)' <=> r.pc \in {"ledger", "check", "apply", "record", "commit", "unlock"}
    BY <1>2 DEF Critical
  <1> HIDE DEF r, s
  <1>5. /\ Committed(m) /\ lock' = lock
        /\ s.tx = "none" /\ ~s.waits /\ s.link \in {"open", "orphan"}
        /\ s.link = "open" <=> Critical(m)'
        /\ r.pc # "lock" /\ r.pc # "idle"
        /\ r.pc \notin {"apply", "record", "commit", "done"}
    BY <1>0, <1>3, <1>4, OfRun DEF Commit, Critical
  <1>6. r.at <= Image[m] /\ r.err # "exists"
    BY <1>0, <1>3, OfRun DEF Commit, Versions
  <1>7. /\ Critical(m)' => 1..(r.at - 1) \subseteq ledger'
        /\ r.pc = "unlock" => 1..Image[m] \subseteq ledger'
    BY <1>0, <1>3, <1>4, OfRun DEF Commit, Critical, Versions
  <1> QED BY <1>0, <1>1, <1>2, <1>5, <1>6, <1>7, CommittedInv

\* The last version is committed.
LEMMA CommitLastInv ==
  ASSUME NEW m \in Runs, MigrationInv, Commit(m), ~(run[m].at < Image[m])
  PROVE  MigrationInv'
  <1> DEFINE r == [run[m] EXCEPT !.pc = "unlock"]
             s == [session[m] EXCEPT !.tx = "none"]
  <1>0. /\ run[m].at \in Versions /\ run[m].at \notin ledger
        /\ 1..(run[m].at - 1) \subseteq ledger /\ lock = m
        /\ Image[m] \in 1..Latest /\ Latest \in Nat
        /\ ledger' = ledger \cup {run[m].at}
    BY OfRun, MigrationAssumption DEF Commit, Critical, Committed, Run
  <1>1. r \in Run /\ s \in Session
    BY OfRun DEF Run, Session
  <1>2. run' = [run EXCEPT ![m] = r] /\ session' = [session EXCEPT ![m] = s] /\ run'[m] = r
    BY OfRun DEF Commit, NextVersion, SetTx, MigrationInv, MigrationTypeOK
  <1>3. /\ r.pc = "unlock" /\ r.at = run[m].at /\ r.err = run[m].err
        /\ s.link = session[m].link /\ s.waits = session[m].waits /\ s.tx = "none"
    BY OfRun DEF Run, Session
  <1>4. Critical(m)' <=> r.pc \in {"ledger", "check", "apply", "record", "commit", "unlock"}
    BY <1>2 DEF Critical
  <1> HIDE DEF r, s
  <1>5. /\ Committed(m) /\ lock' = lock
        /\ s.tx = "none" /\ ~s.waits /\ s.link \in {"open", "orphan"}
        /\ s.link = "open" <=> Critical(m)'
        /\ r.pc # "lock" /\ r.pc # "idle"
        /\ r.pc \notin {"apply", "record", "commit", "done"}
    BY <1>0, <1>3, <1>4, OfRun DEF Commit, Critical
  <1>6. r.at <= Image[m] /\ r.err # "exists"
    BY <1>0, <1>3, OfRun DEF Commit, Versions
  <1>7. /\ Critical(m)' => 1..(r.at - 1) \subseteq ledger'
        /\ r.pc = "unlock" => 1..Image[m] \subseteq ledger'
    BY <1>0, <1>3, <1>4, OfRun DEF Commit, Critical, Versions
  <1> QED BY <1>0, <1>1, <1>2, <1>5, <1>6, <1>7, CommittedInv

\* A COMMIT is carried out that its run has given up.
LEMMA LandInv ==
  ASSUME NEW m \in Runs, MigrationInv, Land(m)
  PROVE  MigrationInv'
  <1> DEFINE r == run[m]
             s == [session[m] EXCEPT !.tx = "none"]
  <1>0. /\ run[m].at \in Versions /\ run[m].at \notin ledger
        /\ 1..(run[m].at - 1) \subseteq ledger /\ lock = m
        /\ Image[m] \in 1..Latest /\ Latest \in Nat
        /\ ledger' = ledger \cup {run[m].at}
    BY OfRun, MigrationAssumption DEF Land, Critical, Committed, Run
  <1>1. r \in Run /\ s \in Session
    BY OfRun DEF Run, Session
  <1>2. run' = [run EXCEPT ![m] = r] /\ session' = [session EXCEPT ![m] = s] /\ run'[m] = r
    BY OfRun DEF Land, NextVersion, SetTx, MigrationInv, MigrationTypeOK
  <1>3. /\ r = run[m]
        /\ s.link = session[m].link /\ s.waits = session[m].waits /\ s.tx = "none"
    BY OfRun DEF Run, Session
  <1>4. Critical(m)' <=> r.pc \in {"ledger", "check", "apply", "record", "commit", "unlock"}
    BY <1>2 DEF Critical
  <1> HIDE DEF r, s
  <1>5. /\ Committed(m) /\ lock' = lock
        /\ s.tx = "none" /\ ~s.waits /\ s.link \in {"open", "orphan"}
        /\ s.link = "open" <=> Critical(m)'
        /\ r.pc # "lock" /\ r.pc # "idle"
        /\ r.pc \notin {"apply", "record", "commit", "done"}
    BY <1>0, <1>3, <1>4, OfRun DEF Land, Critical
  <1>6. r.at <= Image[m] /\ r.err # "exists"
    BY <1>0, <1>3, OfRun DEF Land, Versions
  <1>7. /\ Critical(m)' => 1..(r.at - 1) \subseteq ledger'
        /\ r.pc = "unlock" => 1..Image[m] \subseteq ledger'
    BY <1>0, <1>3, <1>4, OfRun DEF Land, Critical, Versions
  <1> QED BY <1>0, <1>1, <1>2, <1>5, <1>6, <1>7, CommittedInv

-----------------------------------------------------------------------------
\* Before any run there is nothing.
LEMMA InitInv == MigrationInit => MigrationInv
  <1> SUFFICES ASSUME MigrationInit PROVE MigrationInv
    OBVIOUS
  <1> USE MigrationAssumption DEF MigrationInit
  <1>1. MigrationTypeOK
    BY DEF MigrationTypeOK, Run, Session, Versions
  <1>2. LockOK /\ SessionOK
    BY DEF LockOK, SessionOK, Critical
  <1>3. VersionOK
    <2>1. ASSUME NEW m \in Runs
          PROVE  run[m].pc = "idle" /\ run[m].at = 1 /\ session[m].tx = "none"
      OBVIOUS
    <2>2. ASSUME NEW m \in Runs PROVE 1 <= Image[m]
      <3>1. Image[m] \in 1..Latest /\ Latest \in Nat
        OBVIOUS
      <3> QED BY <3>1
    <2> QED BY <2>1, <2>2 DEF VersionOK, Critical
  <1>4. AppliedOnce
    BY DEF AppliedOnce
  <1> QED BY <1>1, <1>2, <1>3, <1>4 DEF MigrationInv

\* No run, image or interruption gets out of the invariant.
LEMMA StepInv == MigrationInv /\ [MigrationNext]_migrationVars => MigrationInv'
  <1> SUFFICES ASSUME MigrationInv, [MigrationNext]_migrationVars PROVE MigrationInv'
    OBVIOUS
  <1>1. ASSUME NEW m \in Runs, Check(m) PROVE MigrationInv'
    BY <1>1, SkipInv, SkipLastInv, OpenInv
  <1>2. ASSUME NEW m \in Runs, Granted(m) PROVE MigrationInv'
    BY <1>2, GrantedRunInv, GrantedLeftInv
  <1>3. ASSUME NEW m \in Runs, Commit(m) PROVE MigrationInv'
    BY <1>3, CommitInv, CommitLastInv
  <1>4. ASSUME NEW m \in Runs, Progress(m) PROVE MigrationInv'
    BY <1>1, <1>2, <1>3, <1>4, CreateLedgerInv, ApplyInv, RecordInv, UnlockInv, SessionEndsInv
    DEF Progress
  <1>5. ASSUME NEW m \in Runs, Begin(m) \/ LockFails(m) \/ Refuse(m) \/ Break(m) \/ Land(m)
        PROVE  MigrationInv'
    BY <1>5, BeginInv, LockFailsInv, RefuseInv, BreakInv, LandInv
  <1>6. CASE UNCHANGED migrationVars
    BY <1>6 DEF migrationVars, MigrationInv, MigrationTypeOK, LockOK, SessionOK, VersionOK,
                AppliedOnce, Critical
  <1> QED BY <1>4, <1>5, <1>6 DEF MigrationNext

\* The lock, the sessions, the versions and the processes of all runs agree in every
\* state, whatever the replicas do besides (internal/postgres/migrate.go).
THEOREM MigrationInvariance == DeploymentSpec => []MigrationInv
  <1>1. DeploymentInit => MigrationInv
    BY InitInv DEF DeploymentInit
  <1>2. MigrationInv /\ [DeploymentNext]_deploymentVars => MigrationInv'
    BY StepInv DEF DeploymentNext, deploymentVars, migrationVars
  <1> QED BY <1>1, <1>2, PTL DEF DeploymentSpec

\* Each version is applied once, after all before it, and recorded with it; no run
\* meets what another has created.
THEOREM VersionsAreAppliedOnce == DeploymentSpec => []AppliedOnce
  <1>1. MigrationInv => AppliedOnce
    BY DEF MigrationInv
  <1> QED BY <1>1, MigrationInvariance, PTL

\* What a COMMIT does to a database that has the versions before that of its run.
LEMMA CommittedNext ==
  ASSUME MigrationInv, NEW m \in Runs, Committed(m), run[m].at \notin ledger,
         1..(run[m].at - 1) \subseteq ledger
  PROVE  \E v \in Versions : /\ schema = 1..(v - 1) /\ ledger = 1..(v - 1)
                             /\ schema' = 1..v /\ ledger' = 1..v
  <1> DEFINE v == run[m].at
  <1>1. v \in Versions /\ v \in Nat \ {0} /\ v <= Latest /\ Latest \in Nat
    BY MigrationAssumption DEF MigrationInv, MigrationTypeOK, Run, Versions
  <1>2. /\ ledger = schema /\ schema \subseteq Versions
        /\ \A w \in schema, u \in Versions : u < w => u \in schema
        /\ v \notin schema /\ 1..(v - 1) \subseteq schema
        /\ schema' = schema \cup {v} /\ ledger' = ledger \cup {v}
    BY DEF MigrationInv, MigrationTypeOK, AppliedOnce, Committed
  <1> HIDE DEF v
  <1>3. ASSUME NEW w \in schema PROVE w \in 1..(v - 1)
    <2>1. w \in Nat /\ 1 <= w
      BY <1>1, <1>2 DEF Versions
    <2>2. ~(v < w) /\ w # v
      BY <1>1, <1>2
    <2>3. QED
      BY <1>1, <2>1, <2>2
  <1>4. schema = 1..(v - 1)
    BY <1>2, <1>3
  <1>5. 1..v = 1..(v - 1) \cup {v}
    BY <1>1
  <1> QED BY <1>1, <1>2, <1>4, <1>5

\* The database goes from one version to the next, whichever runs apply it, die and are
\* repeated (migrate.go).
THEOREM VersionsFollowOneAnother == DeploymentSpec => VersionsFollow
  <1> DEFINE Follows == \E v \in Versions : /\ schema = 1..(v - 1) /\ ledger = 1..(v - 1)
                                            /\ schema' = 1..v /\ ledger' = 1..v
  <1>1. ASSUME MigrationInv, [DeploymentNext]_deploymentVars
        PROVE  Follows \/ UNCHANGED <<schema, ledger>>
    <2>1. ASSUME NEW m \in Runs, Commit(m) PROVE Follows
      BY <1>1, <2>1, CommittedNext DEF Commit, MigrationInv, VersionOK, Critical
    <2>2. ASSUME NEW m \in Runs, Land(m) PROVE Follows
      BY <1>1, <2>2, CommittedNext DEF Land, MigrationInv, VersionOK
    <2> HIDE DEF Follows
    <2>3. ASSUME NEW m \in Runs,
                 \/ Begin(m) \/ LockFails(m) \/ Refuse(m) \/ Break(m) \/ Granted(m)
                 \/ CreateLedger(m) \/ Check(m)
                 \/ Apply(m) \/ Record(m) \/ Unlock(m) \/ SessionEnds(m)
          PROVE  UNCHANGED <<schema, ledger>>
      BY <2>3 DEF Begin, LockFails, Refuse, Break, Granted, CreateLedger, Check, Apply, Record, Unlock,
                  SessionEnds
    <2>4. CASE UNCHANGED migrationVars \/ UNCHANGED deploymentVars
      BY <2>4 DEF migrationVars, deploymentVars
    <2> QED BY <1>1, <2>1, <2>2, <2>3, <2>4 DEF DeploymentNext, MigrationNext, Progress
  <1>2. MigrationInv /\ [DeploymentNext]_deploymentVars => [Follows]_<<schema, ledger>>
    BY <1>1
  <1> QED BY <1>2, MigrationInvariance, PTL DEF DeploymentSpec, VersionsFollow

\* What a replica has answered stays true: nothing that is recorded is ever lost.
ReadyOK == \A r \in Replicas : probe[r] = "ready" => 1..Embedded[r] \subseteq ledger

LEMMA LedgerGrows == [MigrationNext]_migrationVars => ledger \subseteq ledger'
  <1> SUFFICES ASSUME [MigrationNext]_migrationVars PROVE ledger \subseteq ledger'
    OBVIOUS
  <1>1. ASSUME NEW m \in Runs, Commit(m) \/ Land(m) PROVE ledger \subseteq ledger'
    BY <1>1 DEF Commit, Land, Committed
  <1>2. ASSUME NEW m \in Runs, Begin(m) \/ LockFails(m) \/ Refuse(m) \/ Break(m)
        PROVE  ledger' = ledger
    BY <1>2 DEF Begin, LockFails, Refuse, Break
  <1>3. ASSUME NEW m \in Runs,
               \/ Granted(m) \/ CreateLedger(m) \/ Check(m) \/ Apply(m) \/ Record(m)
               \/ Unlock(m) \/ SessionEnds(m)
        PROVE  ledger' = ledger
    BY <1>3 DEF Granted, CreateLedger, Check, Apply, Record, Unlock, SessionEnds
  <1>4. CASE UNCHANGED migrationVars
    BY <1>4 DEF migrationVars
  <1> QED BY <1>1, <1>2, <1>3, <1>4 DEF MigrationNext, Progress

\* A run that reports success and a replica that is ready have their schema.
THEOREM SuccessCanBeTrusted == DeploymentSpec => []SuccessIsMigrated
  <1>1. DeploymentInit => ReadyOK
    BY DEF DeploymentInit, ReadyOK
  <1>2. MigrationInv /\ DeploymentTypeOK /\ ReadyOK /\ [DeploymentNext]_deploymentVars
          => ReadyOK' /\ DeploymentTypeOK'
    <2> SUFFICES ASSUME MigrationInv, DeploymentTypeOK, ReadyOK, [DeploymentNext]_deploymentVars
                 PROVE  ReadyOK' /\ DeploymentTypeOK'
      OBVIOUS
    <2>1. MigrationTypeOK'
      BY StepInv DEF DeploymentNext, deploymentVars, migrationVars, MigrationInv
    <2>2. CASE MigrationNext /\ UNCHANGED probe
      BY <2>1, <2>2, LedgerGrows DEF ReadyOK, DeploymentTypeOK
    <2>3. CASE ReadinessNext /\ UNCHANGED migrationVars
      BY <2>1, <2>3 DEF ReadinessNext, Ask, FindTables, FindLedger, LedgerComplete, ProbeFails,
                        migrationVars, ReadyOK, DeploymentTypeOK, Probe
    <2>4. CASE UNCHANGED deploymentVars
      BY <2>1, <2>4 DEF deploymentVars, ReadyOK, DeploymentTypeOK
    <2> QED BY <2>2, <2>3, <2>4 DEF DeploymentNext
  <1>3. DeploymentInit => DeploymentTypeOK
    BY InitInv DEF DeploymentInit, DeploymentTypeOK, MigrationInv, Probe
  <1>4. MigrationInv /\ ReadyOK => SuccessIsMigrated
    BY DEF MigrationInv, VersionOK, AppliedOnce, ReadyOK, SuccessIsMigrated
  <1> QED BY <1>1, <1>2, <1>3, <1>4, MigrationInvariance, PTL DEF DeploymentSpec

-----------------------------------------------------------------------------
(* From the start of a server to its exit.                                 *)

\* What the invariant says of one server and its handlers.
LEMMA OfServer ==
  ASSUME NEW s \in Servers, LifecycleInv
  PROVE  /\ server[s] \in Server /\ main \in Main
         /\ main.pc \in {"build", "listen", "listenMetrics"} => server[s].pc = "none"
         /\ main.pc \in {"join", "close", "exited"} => server[s].pc \in {"none", "returned"}
         /\ server[s].pc \in {"none", "called"} => server[s].loop = "none"
         /\ server[s].listener => server[s].pc \in {"called", "select"} \/ (main.pc = "listenMetrics" /\ s = "public")
         /\ server[s].loop = "broken" => ~server[s].listener
         /\ server[s].loop = "broken" /\ server[s].pc = "returned" => server[s].failed
         /\ server[s].taken => server[s].pc = "returned" /\ (server[s].failed => main.failed)
         /\ main.pc = "join" => server[s].taken
         /\ main.pc \in {"close", "exited"} => server[s].taken \/ main.failed
         /\ \A r \in Requests : handler[r].on = s =>
              /\ Active(r) => server[s].pc \notin {"none", "called"}
              /\ Active(r) /\ server[s].pc = "await" => handler[r].cut
              /\ Active(r) /\ server[s].pc = "returned" => handler[r].cut \/ server[s].loop = "broken"
              /\ handler[r].cut => server[s].failed
  BY DEF LifecycleInv, LifecycleTypeOK, ServersOK, HandlersOK

\* A step of one server keeps the invariant if its new record is right about run and
\* about the handlers.
LEMMA ServerInv ==
  ASSUME LifecycleInv, NEW s \in Servers, NEW v \in Server,
         server' = [server EXCEPT ![s] = v],
         UNCHANGED <<main, ctx, job, pool, handler>>,
         main.pc \in {"build", "listen", "listenMetrics"} => v.pc = "none",
         main.pc \in {"join", "close", "exited"} => v.pc \in {"none", "returned"},
         v.pc \in {"none", "called"} => v.loop = "none",
         v.listener => v.pc \in {"called", "select"} \/ (main.pc = "listenMetrics" /\ s = "public"),
         v.loop = "broken" => ~v.listener,
         v.loop = "broken" /\ v.pc = "returned" => v.failed,
         v.taken => v.pc = "returned" /\ (v.failed => main.failed),
         main.pc = "join" => v.taken,
         main.pc \in {"close", "exited"} => v.taken \/ main.failed,
         \A r \in Requests : handler[r].on = s =>
              /\ Active(r) => v.pc \notin {"none", "called"}
              /\ Active(r) /\ v.pc = "await" => handler[r].cut
              /\ Active(r) /\ v.pc = "returned" => handler[r].cut \/ v.loop = "broken"
              /\ handler[r].cut => v.failed
  PROVE  LifecycleInv'
  <1>1. \A o \in Servers : server'[o] = IF o = s THEN v ELSE server[o]
    BY DEF LifecycleInv, LifecycleTypeOK
  <1>2. LifecycleTypeOK'
    BY DEF LifecycleInv, LifecycleTypeOK
  <1>3. ServersOK'
    BY <1>1 DEF LifecycleInv, ServersOK
  <1>4. PoolOK'
    BY DEF LifecycleInv, PoolOK
  <1>5. \A r \in Requests : handler[r].on \in Servers /\ (Active(r)' <=> Active(r))
    BY DEF LifecycleInv, LifecycleTypeOK, Handler, Active
  <1>6. HandlersOK'
    BY <1>1, <1>5 DEF LifecycleInv, HandlersOK
  <1> QED BY <1>2, <1>3, <1>4, <1>6 DEF LifecycleInv

\* A step of one handler keeps the invariant if its new record is right about its server.
LEMMA HandlerInv ==
  ASSUME LifecycleInv, NEW r \in Requests, NEW h \in Handler,
         handler' = [handler EXCEPT ![r] = h],
         UNCHANGED <<main, ctx, server, job, pool>>,
         h.pc \in {"running", "querying"} =>
           /\ server[h.on].pc \notin {"none", "called"}
           /\ server[h.on].pc = "await" => h.cut
           /\ server[h.on].pc = "returned" => h.cut \/ server[h.on].loop = "broken",
         h.cut => server[h.on].failed
  PROVE  LifecycleInv'
  <1>1. \A q \in Requests : handler'[q] = IF q = r THEN h ELSE handler[q]
    BY DEF LifecycleInv, LifecycleTypeOK
  <1>2. LifecycleTypeOK'
    BY DEF LifecycleInv, LifecycleTypeOK
  <1>3. ServersOK' /\ PoolOK'
    BY DEF LifecycleInv, ServersOK, PoolOK
  <1>4. HandlersOK'
    BY <1>1 DEF LifecycleInv, HandlersOK, Active
  <1> QED BY <1>2, <1>3, <1>4 DEF LifecycleInv

-----------------------------------------------------------------------------
\* Before its goroutine runs, a server has no request.
LEMMA ServeBeginsInv == ASSUME NEW s \in Servers, LifecycleInv, ServeBegins(s) PROVE LifecycleInv'
  <1> PICK fails \in BOOLEAN :
        server' = [server EXCEPT ![s] =
          IF ServeDone THEN [server[s] EXCEPT !.pc = "returned", !.listener = FALSE,
                                              !.failed = server[s].failed \/ fails]
                       ELSE [server[s] EXCEPT !.pc = "select", !.loop = "starting"]]
    BY DEF ServeBegins
  <1> DEFINE v == IF ServeDone THEN [server[s] EXCEPT !.pc = "returned", !.listener = FALSE,
                                              !.failed = server[s].failed \/ fails]
                            ELSE [server[s] EXCEPT !.pc = "select", !.loop = "starting"]
  <1>1. v \in Server
    BY OfServer DEF Server
  <1>2. server' = [server EXCEPT ![s] = v] /\ UNCHANGED <<main, ctx, job, pool, handler>>
    BY DEF ServeBegins
  <1>3. /\ IF ServeDone THEN v.pc = "returned" /\ ~v.listener /\ v.loop = server[s].loop
                        ELSE v.pc = "select" /\ v.loop = "starting" /\ v.listener = server[s].listener
        /\ server[s].failed => v.failed
        /\ v.taken = server[s].taken
    BY OfServer DEF Server
  <1> HIDE DEF v
  <1>4. /\ main.pc \in {"build", "listen", "listenMetrics"} => v.pc = "none"
        /\ main.pc \in {"join", "close", "exited"} => v.pc \in {"none", "returned"}
        /\ v.pc \in {"none", "called"} => v.loop = "none"
        /\ v.listener => v.pc \in {"called", "select"} \/ (main.pc = "listenMetrics" /\ s = "public")
        /\ v.loop = "broken" => ~v.listener
        /\ v.loop = "broken" /\ v.pc = "returned" => v.failed
    BY <1>3, OfServer DEF ServeBegins, Main
  <1>5. /\ v.taken => v.pc = "returned" /\ (v.failed => main.failed)
        /\ main.pc = "join" => v.taken
        /\ main.pc \in {"close", "exited"} => v.taken \/ main.failed
    BY <1>3, OfServer DEF ServeBegins
  <1>6. \A r \in Requests : handler[r].on = s =>
          /\ Active(r) => v.pc \notin {"none", "called"}
          /\ Active(r) /\ v.pc = "await" => handler[r].cut
          /\ Active(r) /\ v.pc = "returned" => handler[r].cut \/ v.loop = "broken"
          /\ handler[r].cut => v.failed
    BY <1>3, OfServer DEF ServeBegins
  <1> QED BY <1>1, <1>2, <1>4, <1>5, <1>6, ServerInv

\* The loop begins to accept, or ends because Shutdown has come first.
LEMMA LoopStartsInv == ASSUME NEW s \in Servers, LifecycleInv, LoopStarts(s) PROVE LifecycleInv'
  <1> DEFINE v == IF server[s].pc = "select" THEN [server[s] EXCEPT !.loop = "accepting"]
                            ELSE [server[s] EXCEPT !.loop = "ended", !.listener = FALSE]
  <1>1. v \in Server
    BY OfServer DEF Server
  <1>2. server' = [server EXCEPT ![s] = v] /\ UNCHANGED <<main, ctx, job, pool, handler>>
    BY DEF LoopStarts
  <1>3. /\ IF server[s].pc = "select" THEN v.loop = "accepting" /\ v.listener = server[s].listener
                                  ELSE v.loop = "ended" /\ ~v.listener
        /\ v.pc = server[s].pc /\ v.failed = server[s].failed /\ v.taken = server[s].taken
    BY OfServer DEF Server
  <1> HIDE DEF v
  <1>4. /\ main.pc \in {"build", "listen", "listenMetrics"} => v.pc = "none"
        /\ main.pc \in {"join", "close", "exited"} => v.pc \in {"none", "returned"}
        /\ v.pc \in {"none", "called"} => v.loop = "none"
        /\ v.listener => v.pc \in {"called", "select"} \/ (main.pc = "listenMetrics" /\ s = "public")
        /\ v.loop = "broken" => ~v.listener
        /\ v.loop = "broken" /\ v.pc = "returned" => v.failed
    BY <1>3, OfServer DEF LoopStarts, Main
  <1>5. /\ v.taken => v.pc = "returned" /\ (v.failed => main.failed)
        /\ main.pc = "join" => v.taken
        /\ main.pc \in {"close", "exited"} => v.taken \/ main.failed
    BY <1>3, OfServer DEF LoopStarts
  <1>6. \A r \in Requests : handler[r].on = s =>
          /\ Active(r) => v.pc \notin {"none", "called"}
          /\ Active(r) /\ v.pc = "await" => handler[r].cut
          /\ Active(r) /\ v.pc = "returned" => handler[r].cut \/ v.loop = "broken"
          /\ handler[r].cut => v.failed
    BY <1>3, OfServer DEF LoopStarts
  <1> QED BY <1>1, <1>2, <1>4, <1>5, <1>6, ServerInv

\* A loop breaks only under a server that has not begun to shut down.
LEMMA LoopBreaksInv == ASSUME NEW s \in Servers, LifecycleInv, LoopBreaks(s) PROVE LifecycleInv'
  <1> DEFINE v == [server[s] EXCEPT !.loop = "broken", !.listener = FALSE]
  <1>1. v \in Server
    BY OfServer DEF Server
  <1>2. server' = [server EXCEPT ![s] = v] /\ UNCHANGED <<main, ctx, job, pool, handler>>
    BY DEF LoopBreaks
  <1>3. /\ v.loop = "broken" /\ ~v.listener
        /\ v.pc = server[s].pc /\ v.failed = server[s].failed /\ v.taken = server[s].taken
    BY OfServer DEF Server
  <1> HIDE DEF v
  <1>4. /\ main.pc \in {"build", "listen", "listenMetrics"} => v.pc = "none"
        /\ main.pc \in {"join", "close", "exited"} => v.pc \in {"none", "returned"}
        /\ v.pc \in {"none", "called"} => v.loop = "none"
        /\ v.listener => v.pc \in {"called", "select"} \/ (main.pc = "listenMetrics" /\ s = "public")
        /\ v.loop = "broken" => ~v.listener
        /\ v.loop = "broken" /\ v.pc = "returned" => v.failed
    BY <1>3, OfServer DEF LoopBreaks, Main
  <1>5. /\ v.taken => v.pc = "returned" /\ (v.failed => main.failed)
        /\ main.pc = "join" => v.taken
        /\ main.pc \in {"close", "exited"} => v.taken \/ main.failed
    BY <1>3, OfServer DEF LoopBreaks
  <1>6. \A r \in Requests : handler[r].on = s =>
          /\ Active(r) => v.pc \notin {"none", "called"}
          /\ Active(r) /\ v.pc = "await" => handler[r].cut
          /\ Active(r) /\ v.pc = "returned" => handler[r].cut \/ v.loop = "broken"
          /\ handler[r].cut => v.failed
    BY <1>3, OfServer DEF LoopBreaks
  <1> QED BY <1>1, <1>2, <1>4, <1>5, <1>6, ServerInv

\* A loop whose listener is closed ends.
LEMMA LoopEndsInv == ASSUME NEW s \in Servers, LifecycleInv, LoopEnds(s) PROVE LifecycleInv'
  <1> DEFINE v == [server[s] EXCEPT !.loop = "ended"]
  <1>1. v \in Server
    BY OfServer DEF Server
  <1>2. server' = [server EXCEPT ![s] = v] /\ UNCHANGED <<main, ctx, job, pool, handler>>
    BY DEF LoopEnds
  <1>3. /\ v.loop = "ended"
        /\ v.pc = server[s].pc /\ v.listener = server[s].listener /\ v.failed = server[s].failed /\ v.taken = server[s].taken
    BY OfServer DEF Server
  <1> HIDE DEF v
  <1>4. /\ main.pc \in {"build", "listen", "listenMetrics"} => v.pc = "none"
        /\ main.pc \in {"join", "close", "exited"} => v.pc \in {"none", "returned"}
        /\ v.pc \in {"none", "called"} => v.loop = "none"
        /\ v.listener => v.pc \in {"called", "select"} \/ (main.pc = "listenMetrics" /\ s = "public")
        /\ v.loop = "broken" => ~v.listener
        /\ v.loop = "broken" /\ v.pc = "returned" => v.failed
    BY <1>3, OfServer DEF LoopEnds, Main
  <1>5. /\ v.taken => v.pc = "returned" /\ (v.failed => main.failed)
        /\ main.pc = "join" => v.taken
        /\ main.pc \in {"close", "exited"} => v.taken \/ main.failed
    BY <1>3, OfServer DEF LoopEnds
  <1>6. \A r \in Requests : handler[r].on = s =>
          /\ Active(r) => v.pc \notin {"none", "called"}
          /\ Active(r) /\ v.pc = "await" => handler[r].cut
          /\ Active(r) /\ v.pc = "returned" => handler[r].cut \/ v.loop = "broken"
          /\ handler[r].cut => v.failed
    BY <1>3, OfServer DEF LoopEnds
  <1> QED BY <1>1, <1>2, <1>4, <1>5, <1>6, ServerInv

\* A broken loop makes its server fail.
LEMMA ServeFailsInv == ASSUME NEW s \in Servers, LifecycleInv, ServeFails(s) PROVE LifecycleInv'
  <1> DEFINE v == [server[s] EXCEPT !.pc = "returned", !.failed = TRUE]
  <1>1. v \in Server
    BY OfServer DEF Server
  <1>2. server' = [server EXCEPT ![s] = v] /\ UNCHANGED <<main, ctx, job, pool, handler>>
    BY DEF ServeFails
  <1>3. /\ v.pc = "returned" /\ v.failed
        /\ v.loop = server[s].loop /\ v.listener = server[s].listener /\ v.taken = server[s].taken
    BY OfServer DEF Server
  <1> HIDE DEF v
  <1>4. /\ main.pc \in {"build", "listen", "listenMetrics"} => v.pc = "none"
        /\ main.pc \in {"join", "close", "exited"} => v.pc \in {"none", "returned"}
        /\ v.pc \in {"none", "called"} => v.loop = "none"
        /\ v.listener => v.pc \in {"called", "select"} \/ (main.pc = "listenMetrics" /\ s = "public")
        /\ v.loop = "broken" => ~v.listener
        /\ v.loop = "broken" /\ v.pc = "returned" => v.failed
    BY <1>3, OfServer DEF ServeFails, Main
  <1>5. /\ v.taken => v.pc = "returned" /\ (v.failed => main.failed)
        /\ main.pc = "join" => v.taken
        /\ main.pc \in {"close", "exited"} => v.taken \/ main.failed
    BY <1>3, OfServer DEF ServeFails
  <1>6. \A r \in Requests : handler[r].on = s =>
          /\ Active(r) => v.pc \notin {"none", "called"}
          /\ Active(r) /\ v.pc = "await" => handler[r].cut
          /\ Active(r) /\ v.pc = "returned" => handler[r].cut \/ v.loop = "broken"
          /\ handler[r].cut => v.failed
    BY <1>3, OfServer DEF ServeFails
  <1> QED BY <1>1, <1>2, <1>4, <1>5, <1>6, ServerInv

\* Shutdown closes the listener before anything else.
LEMMA ShutdownBeginsInv == ASSUME NEW s \in Servers, LifecycleInv, ShutdownBegins(s) PROVE LifecycleInv'
  <1> DEFINE v == [server[s] EXCEPT !.pc = "shutdown", !.listener = FALSE]
  <1>1. v \in Server
    BY OfServer DEF Server
  <1>2. server' = [server EXCEPT ![s] = v] /\ UNCHANGED <<main, ctx, job, pool, handler>>
    BY DEF ShutdownBegins
  <1>3. /\ v.pc = "shutdown" /\ ~v.listener
        /\ v.loop = server[s].loop /\ v.failed = server[s].failed /\ v.taken = server[s].taken
    BY OfServer DEF Server
  <1> HIDE DEF v
  <1>4. /\ main.pc \in {"build", "listen", "listenMetrics"} => v.pc = "none"
        /\ main.pc \in {"join", "close", "exited"} => v.pc \in {"none", "returned"}
        /\ v.pc \in {"none", "called"} => v.loop = "none"
        /\ v.listener => v.pc \in {"called", "select"} \/ (main.pc = "listenMetrics" /\ s = "public")
        /\ v.loop = "broken" => ~v.listener
        /\ v.loop = "broken" /\ v.pc = "returned" => v.failed
    BY <1>3, OfServer DEF ShutdownBegins, Main
  <1>5. /\ v.taken => v.pc = "returned" /\ (v.failed => main.failed)
        /\ main.pc = "join" => v.taken
        /\ main.pc \in {"close", "exited"} => v.taken \/ main.failed
    BY <1>3, OfServer DEF ShutdownBegins
  <1>6. \A r \in Requests : handler[r].on = s =>
          /\ Active(r) => v.pc \notin {"none", "called"}
          /\ Active(r) /\ v.pc = "await" => handler[r].cut
          /\ Active(r) /\ v.pc = "returned" => handler[r].cut \/ v.loop = "broken"
          /\ handler[r].cut => v.failed
    BY <1>3, OfServer DEF ShutdownBegins
  <1> QED BY <1>1, <1>2, <1>4, <1>5, <1>6, ServerInv

\* Shutdown is over when no handler is at work any more.
LEMMA ShutdownEndsInv == ASSUME NEW s \in Servers, LifecycleInv, ShutdownEnds(s) PROVE LifecycleInv'
  <1> DEFINE v == [server[s] EXCEPT !.pc = "await"]
  <1>1. v \in Server
    BY OfServer DEF Server
  <1>2. server' = [server EXCEPT ![s] = v] /\ UNCHANGED <<main, ctx, job, pool, handler>>
    BY DEF ShutdownEnds
  <1>3. /\ v.pc = "await"
        /\ v.loop = server[s].loop /\ v.listener = server[s].listener /\ v.failed = server[s].failed /\ v.taken = server[s].taken
    BY OfServer DEF Server
  <1> HIDE DEF v
  <1>4. /\ main.pc \in {"build", "listen", "listenMetrics"} => v.pc = "none"
        /\ main.pc \in {"join", "close", "exited"} => v.pc \in {"none", "returned"}
        /\ v.pc \in {"none", "called"} => v.loop = "none"
        /\ v.listener => v.pc \in {"called", "select"} \/ (main.pc = "listenMetrics" /\ s = "public")
        /\ v.loop = "broken" => ~v.listener
        /\ v.loop = "broken" /\ v.pc = "returned" => v.failed
    BY <1>3, OfServer DEF ShutdownEnds, Main, Drained, Busy
  <1>5. /\ v.taken => v.pc = "returned" /\ (v.failed => main.failed)
        /\ main.pc = "join" => v.taken
        /\ main.pc \in {"close", "exited"} => v.taken \/ main.failed
    BY <1>3, OfServer DEF ShutdownEnds
  <1>6. \A r \in Requests : handler[r].on = s =>
          /\ Active(r) => v.pc \notin {"none", "called"}
          /\ Active(r) /\ v.pc = "await" => handler[r].cut
          /\ Active(r) /\ v.pc = "returned" => handler[r].cut \/ v.loop = "broken"
          /\ handler[r].cut => v.failed
    BY <1>3, OfServer DEF ShutdownEnds, Drained, Busy
  <1> QED BY <1>1, <1>2, <1>4, <1>5, <1>6, ServerInv

\* Once the loop has ended, Serve returns what went wrong.
LEMMA ServeReturnsInv == ASSUME NEW s \in Servers, LifecycleInv, ServeReturns(s) PROVE LifecycleInv'
  <1> DEFINE v == [server[s] EXCEPT !.pc = "returned", !.loop = "ended",
                               !.failed = server[s].failed \/ server[s].loop = "broken"]
  <1>1. v \in Server
    BY OfServer DEF Server
  <1>2. server' = [server EXCEPT ![s] = v] /\ UNCHANGED <<main, ctx, job, pool, handler>>
    BY DEF ServeReturns
  <1>3. /\ v.pc = "returned" /\ v.loop = "ended" /\ (server[s].failed => v.failed)
        /\ v.listener = server[s].listener /\ v.taken = server[s].taken
    BY OfServer DEF Server
  <1> HIDE DEF v
  <1>4. /\ main.pc \in {"build", "listen", "listenMetrics"} => v.pc = "none"
        /\ main.pc \in {"join", "close", "exited"} => v.pc \in {"none", "returned"}
        /\ v.pc \in {"none", "called"} => v.loop = "none"
        /\ v.listener => v.pc \in {"called", "select"} \/ (main.pc = "listenMetrics" /\ s = "public")
        /\ v.loop = "broken" => ~v.listener
        /\ v.loop = "broken" /\ v.pc = "returned" => v.failed
    BY <1>3, OfServer DEF ServeReturns, Main
  <1>5. /\ v.taken => v.pc = "returned" /\ (v.failed => main.failed)
        /\ main.pc = "join" => v.taken
        /\ main.pc \in {"close", "exited"} => v.taken \/ main.failed
    BY <1>3, OfServer DEF ServeReturns
  <1>6. \A r \in Requests : handler[r].on = s =>
          /\ Active(r) => v.pc \notin {"none", "called"}
          /\ Active(r) /\ v.pc = "await" => handler[r].cut
          /\ Active(r) /\ v.pc = "returned" => handler[r].cut \/ v.loop = "broken"
          /\ handler[r].cut => v.failed
    BY <1>3, OfServer DEF ServeReturns
  <1> QED BY <1>1, <1>2, <1>4, <1>5, <1>6, ServerInv

\* When the time is over, every handler at work is cut and the server fails.
LEMMA ShutdownTimesOutInv == ASSUME NEW s \in Servers, LifecycleInv, ShutdownTimesOut(s)
                            PROVE  LifecycleInv'
  <1> DEFINE v == [server[s] EXCEPT !.pc = "await", !.failed = TRUE]
  <1>1. \A o \in Servers : server'[o] = IF o = s THEN v ELSE server[o]
    BY DEF ShutdownTimesOut, LifecycleInv, LifecycleTypeOK
  <1>2. \A r \in Requests : handler'[r] = IF handler[r].on = s /\ Active(r)
                                            THEN [handler[r] EXCEPT !.cut = TRUE] ELSE handler[r]
    BY DEF ShutdownTimesOut
  <1>3. /\ v \in Server /\ v.pc = "await" /\ v.failed /\ ~v.listener /\ ~v.taken
        /\ main.pc = "serve" /\ v.loop = server[s].loop
    BY OfServer DEF ShutdownTimesOut, Server, Main
  <1>4. \A r \in Requests : handler[r] \in Handler
    BY DEF LifecycleInv, LifecycleTypeOK
  <1>5. \A r \in Requests : /\ handler'[r] \in Handler
                            /\ handler'[r].on = handler[r].on /\ handler'[r].pc = handler[r].pc
                            /\ handler'[r].cut <=> handler[r].cut \/ (handler[r].on = s /\ Active(r))
    BY <1>2, <1>4 DEF Handler
  <1> HIDE DEF v
  <1>6. LifecycleTypeOK'
    <2>1. server' \in [Servers -> Server] /\ handler' \in [Requests -> Handler]
      BY <1>1, <1>3, <1>5 DEF ShutdownTimesOut, LifecycleInv, LifecycleTypeOK
    <2> QED BY <2>1 DEF ShutdownTimesOut, LifecycleInv, LifecycleTypeOK
  <1>7. ServersOK'
    BY <1>1, <1>3, OfServer DEF ShutdownTimesOut, LifecycleInv, ServersOK
  <1>8. PoolOK'
    BY DEF ShutdownTimesOut, LifecycleInv, PoolOK
  <1>9. HandlersOK'
    <2> SUFFICES ASSUME NEW r \in Requests
                 PROVE  /\ Active(r)' => server'[handler'[r].on].pc \notin {"none", "called"}
                        /\ Active(r)' /\ server'[handler'[r].on].pc = "await" => handler'[r].cut
                        /\ Active(r)' /\ server'[handler'[r].on].pc = "returned" =>
                             handler'[r].cut \/ server'[handler'[r].on].loop = "broken"
                        /\ handler'[r].cut => server'[handler'[r].on].failed
      BY DEF HandlersOK
    <2>1. Active(r)' <=> Active(r)
      BY <1>5 DEF Active
    <2>2. handler[r].on \in Servers
      BY <1>4 DEF Handler
    <2>3. CASE handler[r].on = s
      BY <1>1, <1>3, <1>5, <2>1, <2>3
    <2>4. CASE handler[r].on # s
      BY <1>1, <1>5, <2>1, <2>2, <2>4 DEF LifecycleInv, HandlersOK
    <2> QED BY <2>3, <2>4
  <1> QED BY <1>6, <1>7, <1>8, <1>9 DEF LifecycleInv

\* run takes the result of a server: what failed there failed run.
LEMMA ReceiveInv == ASSUME NEW s \in Servers, LifecycleInv, Receive(s) PROVE LifecycleInv'
  <1> DEFINE v == [server[s] EXCEPT !.taken = TRUE]
             last == \A o \in Servers \ {s} : server[o].taken
  <1>0. server' = [server EXCEPT ![s] = v]
    BY DEF Receive
  <1>1. \A o \in Servers : server'[o] = IF o = s THEN v ELSE server[o]
    BY DEF Receive, LifecycleInv, LifecycleTypeOK
  <1>2. main' = [pc |-> IF last THEN "join" ELSE "serve", failed |-> main.failed \/ server[s].failed]
    BY DEF Receive
  <1>3. /\ v \in Server /\ v.taken /\ v.pc = "returned" /\ v.loop = server[s].loop
        /\ v.failed = server[s].failed /\ v.listener = server[s].listener
        /\ main.pc = "serve" /\ main \in Main
    BY OfServer DEF Receive, Server
  <1>4. /\ main'.pc \in {"join", "serve"} /\ (main'.pc = "join" => last)
        /\ main.failed \/ server[s].failed => main'.failed
    BY <1>2, <1>3, OfServer DEF Main, Server
  <1>5. UNCHANGED <<job, pool, handler>> /\ ctx' \subseteq {"signal", "serve", "maintenance"}
    BY DEF Receive, CancelServers, LifecycleInv, LifecycleTypeOK
  <1> HIDE DEF v
  <1>6. LifecycleTypeOK'
    <2>1. main' \in Main
      BY <1>2, <1>3, OfServer DEF Main, Server
    <2>2. server' \in [Servers -> Server]
      BY <1>0, <1>3 DEF LifecycleInv, LifecycleTypeOK
    <2> QED BY <1>5, <2>1, <2>2 DEF LifecycleInv, LifecycleTypeOK
  <1>7. ServersOK'
    <2> SUFFICES ASSUME NEW o \in Servers
                 PROVE  /\ main'.pc \in {"build", "listen", "listenMetrics"} => server'[o].pc = "none"
                        /\ main'.pc \in {"join", "close", "exited"} => server'[o].pc \in {"none", "returned"}
                        /\ server'[o].pc \in {"none", "called"} => server'[o].loop = "none"
                        /\ server'[o].listener => server'[o].pc \in {"called", "select"} \/ (main'.pc = "listenMetrics" /\ o = "public")
                        /\ server'[o].loop = "broken" => ~server'[o].listener
                        /\ server'[o].loop = "broken" /\ server'[o].pc = "returned" => server'[o].failed
                        /\ server'[o].taken => server'[o].pc = "returned" /\ (server'[o].failed => main'.failed)
                        /\ main'.pc = "join" => server'[o].taken
                        /\ main'.pc \in {"close", "exited"} => server'[o].taken \/ main'.failed
      BY DEF ServersOK
    <2>1. CASE o = s
      <3>1. server'[o] = v
        BY <1>1, <2>1
      <3>2. /\ server[s].loop = "broken" => ~server[s].listener
            /\ server[s].loop = "broken" => server[s].failed
            /\ server[s].listener => server[s].pc \in {"called", "select"}
            /\ server[s].pc = "returned"
        BY <1>3, OfServer DEF Receive
      <3> HIDE DEF last
      <3>3. /\ v.loop = "broken" => ~v.listener
            /\ v.loop = "broken" => v.failed
            /\ ~v.listener
        BY <1>3, <3>2
      <3>4. v.failed => main'.failed
        BY <1>3, <1>4
      <3> QED BY <1>3, <1>4, <3>1, <3>3, <3>4
    <2>2. CASE o # s
      <3>1. server'[o] = server[o] /\ (last => server[o].taken)
        BY <1>1, <2>2
      <3> HIDE DEF last
      <3> QED BY <1>3, <1>4, <3>1, OfServer
    <2> QED BY <2>1, <2>2
  <1>8. PoolOK'
    BY <1>3, <1>4, <1>5 DEF LifecycleInv, PoolOK
  <1>9. HandlersOK'
    <2>1. \A r \in Requests : handler[r].on \in Servers /\ (Active(r)' <=> Active(r))
      BY <1>5 DEF LifecycleInv, LifecycleTypeOK, Handler, Active
    <2>2. \A o \in Servers : /\ server'[o].pc = server[o].pc /\ server'[o].loop = server[o].loop
                             /\ server'[o].failed = server[o].failed
      BY <1>1, <1>3 DEF Receive
    <2> QED BY <1>5, <2>1, <2>2 DEF LifecycleInv, HandlersOK
  <1> QED BY <1>6, <1>7, <1>8, <1>9 DEF LifecycleInv

-----------------------------------------------------------------------------
\* A request reaches a server that accepts, or one that was abandoned.
LEMMA AcceptInv == ASSUME NEW r \in Requests, NEW s \in Servers, LifecycleInv, Accept(r, s) PROVE LifecycleInv'
  <1> DEFINE h == [pc |-> "running", on |-> s, cut |-> FALSE]
  <1>0. handler[r] \in Handler
    BY DEF LifecycleInv, LifecycleTypeOK
  <1>1. h \in Handler /\ handler' = [handler EXCEPT ![r] = h]
    BY <1>0 DEF Accept, Handler
  <1>2. h.pc = "running" /\ h.on = s /\ ~h.cut
    BY <1>0 DEF Handler
  <1>3. UNCHANGED <<main, ctx, server, job, pool>>
    BY DEF Accept
  <1> HIDE DEF h
  <1>4. /\ h.pc \in {"running", "querying"} =>
             /\ server[h.on].pc \notin {"none", "called"}
             /\ server[h.on].pc = "await" => h.cut
             /\ server[h.on].pc = "returned" => h.cut \/ server[h.on].loop = "broken"
        /\ h.cut => server[h.on].failed
    BY <1>2, OfServer DEF Accept, Abandoned
  <1> QED BY <1>1, <1>3, <1>4, HandlerInv

\* A handler goes to the database.
LEMMA QueryInv == ASSUME NEW r \in Requests, LifecycleInv, Query(r) PROVE LifecycleInv'
  <1> DEFINE h == [handler[r] EXCEPT !.pc = "querying"]
  <1>0. handler[r] \in Handler
    BY DEF LifecycleInv, LifecycleTypeOK
  <1>1. h \in Handler /\ handler' = [handler EXCEPT ![r] = h]
    BY <1>0 DEF Query, Handler
  <1>2. h.pc = "querying" /\ h.on = handler[r].on /\ h.cut = handler[r].cut
    BY <1>0 DEF Handler
  <1>3. UNCHANGED <<main, ctx, server, job, pool>>
    BY DEF Query
  <1> HIDE DEF h
  <1>4. /\ h.pc \in {"running", "querying"} =>
             /\ server[h.on].pc \notin {"none", "called"}
             /\ server[h.on].pc = "await" => h.cut
             /\ server[h.on].pc = "returned" => h.cut \/ server[h.on].loop = "broken"
        /\ h.cut => server[h.on].failed
    BY <1>2 DEF Query, Alive, Active, LifecycleInv, HandlersOK
  <1> QED BY <1>1, <1>3, <1>4, HandlerInv

\* A handler comes back from the database.
LEMMA AnsweredInv == ASSUME NEW r \in Requests, LifecycleInv, Answered(r) PROVE LifecycleInv'
  <1> DEFINE h == [handler[r] EXCEPT !.pc = "running"]
  <1>0. handler[r] \in Handler
    BY DEF LifecycleInv, LifecycleTypeOK
  <1>1. h \in Handler /\ handler' = [handler EXCEPT ![r] = h]
    BY <1>0 DEF Answered, Handler
  <1>2. h.pc = "running" /\ h.on = handler[r].on /\ h.cut = handler[r].cut
    BY <1>0 DEF Handler
  <1>3. UNCHANGED <<main, ctx, server, job, pool>>
    BY DEF Answered
  <1> HIDE DEF h
  <1>4. /\ h.pc \in {"running", "querying"} =>
             /\ server[h.on].pc \notin {"none", "called"}
             /\ server[h.on].pc = "await" => h.cut
             /\ server[h.on].pc = "returned" => h.cut \/ server[h.on].loop = "broken"
        /\ h.cut => server[h.on].failed
    BY <1>2 DEF Answered, Active, LifecycleInv, HandlersOK
  <1> QED BY <1>1, <1>3, <1>4, HandlerInv

\* A handler finishes.
LEMMA FinishInv == ASSUME NEW r \in Requests, LifecycleInv, Finish(r) PROVE LifecycleInv'
  <1> DEFINE h == [handler[r] EXCEPT !.pc = "done"]
  <1>0. handler[r] \in Handler
    BY DEF LifecycleInv, LifecycleTypeOK
  <1>1. h \in Handler /\ handler' = [handler EXCEPT ![r] = h]
    BY <1>0 DEF Finish, Handler
  <1>2. h.pc = "done" /\ h.on = handler[r].on /\ h.cut = handler[r].cut
    BY <1>0 DEF Handler
  <1>3. UNCHANGED <<main, ctx, server, job, pool>>
    BY DEF Finish
  <1> HIDE DEF h
  <1>4. /\ h.pc \in {"running", "querying"} =>
             /\ server[h.on].pc \notin {"none", "called"}
             /\ server[h.on].pc = "await" => h.cut
             /\ server[h.on].pc = "returned" => h.cut \/ server[h.on].loop = "broken"
        /\ h.cut => server[h.on].failed
    BY <1>2 DEF Finish, LifecycleInv, HandlersOK
  <1> QED BY <1>1, <1>3, <1>4, HandlerInv

\* While run starts, nothing is under way; a step of it keeps the invariant if the
\* servers are called when it goes on to serve, and if it fails when it does not.
LEMMA StartInv ==
  ASSUME LifecycleInv, main.pc \in {"build", "listen", "listenMetrics"},
         main' \in Main, server' \in [Servers -> Server],
         job' \in {"none", "pruning", "waiting", "ended"},
         pool' \in {"none", "open", "closing", "closed"},
         UNCHANGED <<ctx, handler>>,
         \A s \in Servers : /\ server'[s].loop = "none" /\ ~server'[s].taken
                            /\ server'[s].failed = server[s].failed
                            /\ server'[s].pc = IF main'.pc = "serve" THEN "called" ELSE "none"
                            /\ server'[s].listener => main'.pc = "serve" \/ (main'.pc = "listenMetrics" /\ s = "public"),
         main'.pc # "join", main'.pc \in {"close", "exited"} => main'.failed,
         main'.pc # "serve" => job' = "none",
         pool' \in {"closing", "closed"} => main'.pc = "exited"
  PROVE  LifecycleInv'
  <1>1. \A r \in Requests : /\ handler[r].on \in Servers /\ ~Active(r) /\ ~Active(r)'
                            /\ handler[r].cut => server[handler[r].on].failed
    BY DEF LifecycleInv, LifecycleTypeOK, ServersOK, HandlersOK, Handler, Active
  <1>2. LifecycleTypeOK'
    BY DEF LifecycleInv, LifecycleTypeOK
  <1>3. ServersOK'
    BY DEF ServersOK
  <1>4. PoolOK'
    BY DEF PoolOK
  <1>5. HandlersOK'
    BY <1>1 DEF HandlersOK
  <1> QED BY <1>2, <1>3, <1>4, <1>5 DEF LifecycleInv

\* What the invariant says while run starts.
LEMMA Starting ==
  ASSUME LifecycleInv, main.pc \in {"build", "listen", "listenMetrics"}
  PROVE  /\ \A s \in Servers : /\ server[s] \in Server /\ server[s].pc = "none"
                               /\ server[s].loop = "none" /\ ~server[s].taken
                               /\ server[s].listener => main.pc = "listenMetrics" /\ s = "public"
         /\ server \in [Servers -> Server] /\ main \in Main
         /\ job = "none" /\ pool \notin {"closing", "closed"}
         /\ pool \in {"none", "open", "closing", "closed"}
  BY DEF LifecycleInv, LifecycleTypeOK, ServersOK, PoolOK, Server

\* The pool is opened, or run fails with none or a closed one.
LEMMA BuildInv == LifecycleInv /\ Build => LifecycleInv'
  <1> SUFFICES ASSUME LifecycleInv, Build PROVE LifecycleInv'
    OBVIOUS
  <1>1. /\ main.pc \in {"build", "listen", "listenMetrics"}
        /\ UNCHANGED <<ctx, server, job, handler>>
    BY DEF Build
  <1>2. /\ main' \in Main /\ main'.pc \in {"listen", "exited"}
        /\ main'.pc = "exited" => main'.failed
        /\ pool' \in {"none", "open", "closing", "closed"}
        /\ pool' \in {"closing", "closed"} => main'.pc = "exited"
    <2>1. CASE main' = [main EXCEPT !.pc = "listen"] /\ pool' = "open"
      BY <1>1, <2>1, Starting DEF Main
    <2>2. CASE main' = [pc |-> "exited", failed |-> TRUE] /\ pool' \in {"none", "closed"}
      BY <2>2 DEF Main
    <2> QED BY <2>1, <2>2 DEF Build
  <1>3. \A s \in Servers : ~server[s].listener
    BY <1>1, Starting DEF Build
  <1> QED BY <1>1, <1>2, <1>3, Starting, StartInv

\* The API gets its listener, or run fails without one.
LEMMA ListenInv == LifecycleInv /\ Listen => LifecycleInv'
  <1> SUFFICES ASSUME LifecycleInv, Listen PROVE LifecycleInv'
    OBVIOUS
  <1>1. /\ main.pc \in {"build", "listen", "listenMetrics"}
        /\ UNCHANGED <<ctx, job, pool, handler>>
    BY DEF Listen
  <1>2. \A s \in Servers : ~server[s].listener
    BY <1>1, Starting DEF Listen
  <1>3. CASE main' = [main EXCEPT !.pc = "listenMetrics"]
               /\ server' = [server EXCEPT !["public"] = [@ EXCEPT !.listener = TRUE]]
    <2>1. main' \in Main /\ main'.pc = "listenMetrics"
      BY <1>1, <1>3, Starting DEF Main
    <2>2. \A s \in Servers :
            server'[s] = IF s = "public" THEN [server[s] EXCEPT !.listener = TRUE] ELSE server[s]
      BY <1>1, <1>3, Starting DEF Servers
    <2>3. \A s \in Servers : /\ server'[s] \in Server /\ server'[s].loop = "none"
                             /\ ~server'[s].taken /\ server'[s].failed = server[s].failed
                             /\ server'[s].pc = "none" /\ (server'[s].listener => s = "public")
      BY <1>1, <1>2, <2>2, Starting, ZenonT(40) DEF Server
    <2>4. server' \in [Servers -> Server]
      BY <1>1, <1>3, <2>3, Starting
    <2> QED BY <1>1, <2>1, <2>3, <2>4, Starting, StartInv
  <1>4. CASE main' = [pc |-> "close", failed |-> TRUE] /\ UNCHANGED server
    <2>1. main' \in Main /\ main'.pc = "close" /\ main'.failed
      BY <1>4 DEF Main
    <2> QED BY <1>1, <1>2, <1>4, <2>1, Starting, StartInv
  <1> QED BY <1>3, <1>4 DEF Listen

\* Both servers are called and the job begins, or run fails and closes what it has.
LEMMA ListenMetricsInv == LifecycleInv /\ ListenMetrics => LifecycleInv'
  <1> SUFFICES ASSUME LifecycleInv, ListenMetrics PROVE LifecycleInv'
    OBVIOUS
  <1>1. /\ main.pc \in {"build", "listen", "listenMetrics"}
        /\ UNCHANGED <<ctx, pool, handler>>
    BY DEF ListenMetrics
  <1>2. CASE /\ main' = [main EXCEPT !.pc = "serve"] /\ job' = "pruning"
             /\ server' = [s \in Servers |-> [server[s] EXCEPT !.listener = TRUE, !.pc = "called"]]
    <2>1. main' \in Main /\ main'.pc = "serve"
      BY <1>1, <1>2, Starting DEF Main
    <2>2. \A s \in Servers : server'[s] = [server[s] EXCEPT !.listener = TRUE, !.pc = "called"]
      BY <1>2
    <2>3. \A s \in Servers : /\ server'[s] \in Server /\ server'[s].loop = "none"
                             /\ ~server'[s].taken /\ server'[s].failed = server[s].failed
                             /\ server'[s].pc = "called"
      BY <1>1, <2>2, Starting, ZenonT(40) DEF Server
    <2>4. server' \in [Servers -> Server]
      BY <1>2, <2>2, <2>3
    <2>5. job' = "pruning"
      BY <1>2
    <2>6. \A s \in Servers : /\ server'[s].pc = IF main'.pc = "serve" THEN "called" ELSE "none"
                             /\ server'[s].listener => main'.pc = "serve"
      BY <2>1, <2>3
    <2> QED BY <1>1, <2>1, <2>3, <2>4, <2>5, <2>6, Starting, StartInv
  <1>3. CASE /\ main' = [pc |-> "close", failed |-> TRUE] /\ UNCHANGED job
             /\ server' = [server EXCEPT !["public"] = [@ EXCEPT !.listener = FALSE]]
    <2>1. main' \in Main /\ main'.pc = "close" /\ main'.failed
      BY <1>3 DEF Main
    <2>2. \A s \in Servers :
            server'[s] = IF s = "public" THEN [server[s] EXCEPT !.listener = FALSE] ELSE server[s]
      BY <1>1, <1>3, Starting DEF Servers
    <2>3. \A s \in Servers : /\ server'[s] \in Server /\ server'[s].loop = "none"
                             /\ ~server'[s].taken /\ server'[s].failed = server[s].failed
                             /\ server'[s].pc = "none"
      BY <1>1, <2>2, Starting, ZenonT(40) DEF Server
    <2>4. server' \in [Servers -> Server]
      BY <1>1, <1>3, <2>3, Starting
    <2>5. \A s \in Servers : ~server'[s].listener
      BY <1>1, <2>2, Starting DEF Server
    <2> QED BY <1>1, <1>3, <2>1, <2>3, <2>4, <2>5, Starting, StartInv
  <1> QED BY <1>2, <1>3 DEF ListenMetrics

\* run, on its way out, waits for the job and closes the pool.
LEMMA EndInv == LifecycleInv /\ (Join \/ Close \/ Closed) => LifecycleInv'
  <1> SUFFICES ASSUME LifecycleInv, Join \/ Close \/ Closed PROVE LifecycleInv'
    OBVIOUS
  <1>1. UNCHANGED <<ctx, server, job, handler>>
    BY DEF Join, Close, Closed
  <1>2. /\ main' \in Main /\ main'.pc \in {"close", "exited"} /\ main'.failed = main.failed
        /\ main.pc \in {"join", "close", "exited"} /\ (main.pc = "join" => job = "ended")
        /\ pool' \in {"none", "open", "closing", "closed"}
    <2>1. main \in Main /\ pool \in {"none", "open", "closing", "closed"}
      BY DEF LifecycleInv, LifecycleTypeOK
    <2>2. CASE Join
      BY <2>1, <2>2 DEF Join, JobJoined, Main
    <2>3. CASE Close
      BY <2>1, <2>3 DEF Close, Main
    <2>4. CASE Closed
      BY <2>1, <2>4 DEF Closed, Exit, Main, LifecycleInv, PoolOK
    <2> QED BY <2>2, <2>3, <2>4
  <1>3. LifecycleTypeOK'
    BY <1>1, <1>2 DEF LifecycleInv, LifecycleTypeOK
  <1>4. ServersOK'
    BY <1>1, <1>2 DEF LifecycleInv, ServersOK
  <1>5. PoolOK'
    BY <1>1, <1>2 DEF LifecycleInv, PoolOK
  <1>6. HandlersOK'
    BY <1>1 DEF LifecycleInv, HandlersOK, Active
  <1> QED BY <1>3, <1>4, <1>5, <1>6 DEF LifecycleInv

\* The job prunes only until run has waited for it, and a signal changes nothing else.
LEMMA JobInv == LifecycleInv /\ (Pruned \/ Ticks \/ JobEnds \/ Signal) => LifecycleInv'
  <1> SUFFICES ASSUME LifecycleInv, Pruned \/ Ticks \/ JobEnds \/ Signal PROVE LifecycleInv'
    OBVIOUS
  <1>1. /\ UNCHANGED <<main, server, pool, handler>>
        /\ job' \in {"none", "pruning", "waiting", "ended"}
        /\ ctx' \subseteq {"signal", "serve", "maintenance"}
        /\ job \in {"none", "ended"} => job' = job
    BY DEF Pruned, Ticks, JobEnds, Signal, LifecycleInv, LifecycleTypeOK
  <1>2. LifecycleTypeOK' /\ ServersOK' /\ PoolOK'
    BY <1>1 DEF LifecycleInv, LifecycleTypeOK, ServersOK, PoolOK
  <1>3. HandlersOK'
    BY <1>1 DEF LifecycleInv, HandlersOK, Active
  <1> QED BY <1>2, <1>3 DEF LifecycleInv

-----------------------------------------------------------------------------
\* Before its start the process has nothing.
LEMMA LifecycleInitInv == LifecycleInit => LifecycleInv
  BY DEF LifecycleInit, LifecycleInv, LifecycleTypeOK, Main, Server, Handler, Servers, ServersOK,
         PoolOK, HandlersOK, Active

\* No step of run, of a server, of the job or of a handler gets out of the invariant.
LEMMA LifecycleStepInv == LifecycleInv /\ [LifecycleNext]_serverVars => LifecycleInv'
  <1> SUFFICES ASSUME LifecycleInv, [LifecycleNext]_serverVars PROVE LifecycleInv'
    OBVIOUS
  <1>1. ASSUME NEW s \in Servers, ServeStep(s) \/ LoopBreaks(s) PROVE LifecycleInv'
    BY <1>1, ServeBeginsInv, LoopStartsInv, LoopBreaksInv, LoopEndsInv, ServeFailsInv,
       ShutdownBeginsInv, ShutdownEndsInv, ShutdownTimesOutInv, ServeReturnsInv, ReceiveInv
    DEF ServeStep
  <1>2. ASSUME NEW r \in Requests, NEW s \in Servers, Accept(r, s) PROVE LifecycleInv'
    BY <1>2, AcceptInv
  <1>3. ASSUME NEW r \in Requests, Query(r) \/ Answered(r) \/ Finish(r) PROVE LifecycleInv'
    BY <1>3, QueryInv, AnsweredInv, FinishInv
  <1>4. CASE MainStep
    BY <1>4, BuildInv, ListenInv, ListenMetricsInv, EndInv DEF MainStep
  <1>5. CASE Pruned \/ Ticks \/ JobEnds \/ Signal
    BY <1>5, JobInv
  <1>6. CASE UNCHANGED serverVars
    BY <1>6 DEF serverVars, LifecycleInv, LifecycleTypeOK, ServersOK, PoolOK, HandlersOK, Active
  <1> QED BY <1>1, <1>2, <1>3, <1>4, <1>5, <1>6 DEF LifecycleNext, Gone

\* run, its two servers, the job, the pool and the handlers agree in every state
\* (cmd/server/main.go, internal/server/server.go).
THEOREM LifecycleInvariance == LifecycleSpec => []LifecycleInv
  <1>1. LifecycleInit => LifecycleInv
    BY LifecycleInitInv
  <1>2. LifecycleInv /\ [LifecycleNext]_serverVars => LifecycleInv'
    BY LifecycleStepInv
  <1> QED BY <1>1, <1>2, PTL DEF LifecycleSpec

\* The pool is closed after the job and the servers have ended; whoever may still want
\* it was cut or abandoned.
THEOREM PoolIsLast == LifecycleSpec => []PoolClosesLast
  <1>1. LifecycleInv => PoolClosesLast
    <2> SUFFICES ASSUME LifecycleInv, pool \in {"closing", "closed"}
                 PROVE  /\ job \in {"none", "ended"}
                        /\ \A s \in Servers : server[s].pc \in {"none", "returned"} /\ ~server[s].listener
                        /\ \A r \in Requests : Active(r) => handler[r].cut \/ Abandoned(handler[r].on)
      BY DEF PoolClosesLast
    <2>1. main.pc \in {"close", "exited"} /\ job \in {"none", "ended"}
      BY DEF LifecycleInv, PoolOK
    <2>2. \A s \in Servers : server[s].pc \in {"none", "returned"} /\ ~server[s].listener
      BY <2>1 DEF LifecycleInv, ServersOK
    <2>3. \A r \in Requests : handler[r].on \in Servers
      BY DEF LifecycleInv, LifecycleTypeOK, Handler
    <2>4. \A r \in Requests : Active(r) => handler[r].cut \/ Abandoned(handler[r].on)
      BY <2>2, <2>3 DEF LifecycleInv, HandlersOK, Abandoned
    <2> QED BY <2>1, <2>2, <2>4
  <1> QED BY <1>1, LifecycleInvariance, PTL

\* When the process exits without an error, every request that was begun has finished
\* on a connection nobody closed under it.
THEOREM CleanExit == LifecycleSpec => []CleanExitCutsNothing
  <1>1. LifecycleInv => CleanExitCutsNothing
    <2> SUFFICES ASSUME LifecycleInv, main.pc = "exited", ~main.failed, NEW r \in Requests
                 PROVE  handler[r].pc \in {"none", "done"} /\ ~handler[r].cut
      BY DEF CleanExitCutsNothing, Exited
    <2>1. handler[r] \in Handler /\ handler[r].on \in Servers
      BY DEF LifecycleInv, LifecycleTypeOK, Handler
    <2>2. server[handler[r].on].pc = "returned" /\ ~server[handler[r].on].failed
      BY <2>1 DEF LifecycleInv, ServersOK
    <2>3. server[handler[r].on].loop # "broken"
      BY <2>1, <2>2 DEF LifecycleInv, ServersOK
    <2>4. ~handler[r].cut
      BY <2>2 DEF LifecycleInv, HandlersOK
    <2>5. ~Active(r)
      BY <2>2, <2>3, <2>4 DEF LifecycleInv, HandlersOK
    <2> QED BY <2>1, <2>4, <2>5 DEF Active, Handler
  <1> QED BY <1>1, LifecycleInvariance, PTL
=============================================================================
