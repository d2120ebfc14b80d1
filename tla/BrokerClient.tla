---------------------------- MODULE BrokerClient ----------------------------
(***************************************************************************)
(* The Skill's command-line client.  Every command is a process of its     *)
(* own; the processes of a user share one JSON credential file and the     *)
(* broker's sessions, and nothing else: no lock is held between reading    *)
(* the file, refreshing the session and writing the file.                  *)
(*                                                                         *)
(* A process has one HTTP request out at a time, so process p uses the     *)
(* request p of module Sessions.  A client that gives up leaves its        *)
(* request to the server.                                                  *)
(***************************************************************************)
EXTENDS Sessions

CONSTANT ClientFaults  \* which of AllClientFaults may happen

\* "network": a response is lost or comes after the client's timeout;
\* "crash": a process dies, or cannot write the file.
AllClientFaults == {"network", "crash"}

ASSUME ClientAssumption == ClientFaults \subseteq AllClientFaults

VARIABLES
  file,   \* the session in the credential file, None without a file
  proc    \* the client processes

clientVars == <<file, proc>>
allVars == <<sessionVars, clientVars>>

\* An authenticated command (any GET, a download too), logout and login.
Commands == {"use", "logout", "login"}

Working == {"check", "checked", "load", "read", "send", "wait", "refresh", "refreshing", "save",
            "recover", "resend", "final", "delete", "exchange"}
Done == {"ok", "failed", "reauthenticate", "loggedOut"}

Process == [pc : {"idle"} \cup Working \cup Done, cmd : Commands,
            creds : SessionIds \cup {None}, revoked : BOOLEAN]

ClientTypeOK ==
  /\ TypeOK
  /\ file \in SessionIds \cup {None}
  /\ proc \in [Requests -> Process]

ClientInit ==
  /\ SessionInit
  /\ file = None
  /\ proc = [p \in Requests |-> [pc |-> "idle", cmd |-> "use", creds |-> None,
                                 revoked |-> FALSE]]

Step(p, pc) == proc' = [proc EXCEPT ![p] = [@ EXCEPT !.pc = pc]]
StepWith(p, pc, s) == proc' = [proc EXCEPT ![p] = [@ EXCEPT !.pc = pc, !.creds = s]]

\* Where a command ends that needs a new login: logout takes the session for
\* inactive and removes the file.
Reauthenticate(p) == Step(p, IF proc[p].cmd = "logout" THEN "delete" ELSE "reauthenticate")

-----------------------------------------------------------------------------
(* The commands.                                                           *)

Begin(p, cmd) ==
  /\ proc[p].pc = "idle"
  /\ proc' = [proc EXCEPT ![p] = [@ EXCEPT !.cmd = cmd,
                                    !.pc = CASE cmd = "use" -> "load"
                                             [] cmd = "logout" -> "check"
                                             [] cmd = "login" -> "exchange"]]
  /\ UNCHANGED <<sessionVars, file>>

\* command_login is given a session by the device flow, and saves it.
Exchange(p, s) ==
  /\ proc[p].pc = "exchange"
  /\ Login(s)
  /\ req' = [req EXCEPT ![p] = [NoRequest EXCEPT !.new = s]]
  /\ Step(p, "save")
  /\ UNCHANGED file

\* command_logout loads the credentials once to see whether there are any to
\* revoke.  JsonCredentialStore.load looks at the file first, and then reads it:
\* a file removed in between is an error.
Check(p) ==
  /\ \/ /\ proc[p].pc = "check"
        /\ Step(p, IF file = None THEN "delete" ELSE "checked")
     \/ /\ proc[p].pc = "checked"
        /\ Step(p, IF file = None THEN "failed" ELSE "load")
  /\ UNCHANGED <<sessionVars, file>>

\* _authenticated_open loads them (again).
Load(p) ==
  /\ proc[p].pc = "load"
  /\ IF file = None THEN Reauthenticate(p) ELSE Step(p, "read")
  /\ UNCHANGED <<sessionVars, file>>

Read(p) ==
  /\ proc[p].pc = "read"
  /\ IF file = None THEN Step(p, "failed") ELSE StepWith(p, "send", file)
  /\ UNCHANGED <<sessionVars, file>>

\* _authenticated_open: the request with the access token that was loaded ...
Send(p) ==
  /\ proc[p].pc \in {"send", "resend"}
  /\ AccessArrives(p, proc[p].creds, IF proc[p].cmd = "logout" THEN "revoke" ELSE "get")
  /\ Step(p, IF proc[p].pc = "send" THEN "wait" ELSE "final")
  /\ UNCHANGED file

Succeed(p) ==
  IF proc[p].cmd = "logout"
  THEN proc' = [proc EXCEPT ![p] = [@ EXCEPT !.pc = "delete", !.revoked = TRUE]]
  ELSE Step(p, "ok")

Receive(p) ==
  /\ proc[p].pc = "wait"
  /\ \/ req[p].pc = "ok" /\ Succeed(p)
     \/ req[p].pc = "unauthorized" /\ Step(p, "refresh")
     \/ req[p].pc = "unavailable" /\ Step(p, "failed")
  /\ UNCHANGED <<sessionVars, file>>

\* ... on 401 one refresh ...
Refresh(p, t) ==
  /\ proc[p].pc = "refresh"
  /\ RefreshArrives(p, proc[p].creds, t)
  /\ Step(p, "refreshing")
  /\ UNCHANGED file

ReceiveTokens(p) ==
  /\ proc[p].pc = "refreshing"
  /\ \/ req[p].pc = "ok" /\ Step(p, "save")
     \/ req[p].pc = "unauthorized" /\ Step(p, "recover")
     \/ req[p].pc = "unavailable" /\ Step(p, "failed")
  /\ UNCHANGED <<sessionVars, file>>

\* ... whose tokens replace the file in one rename ...
Save(p) ==
  /\ proc[p].pc = "save"
  /\ file' = req[p].new
  /\ StepWith(p, IF proc[p].cmd = "login" THEN "ok" ELSE "resend", req[p].new)
  /\ UNCHANGED sessionVars

\* ... or, when somebody else refreshed first, up to a second of waiting for the
\* tokens that process saves.
DefectWriteBack(p) ==
  /\ proc[p].pc = "recover"
  /\ file \notin {None, proc[p].creds}
  /\ file' = proc[p].creds
  /\ StepWith(p, "resend", file)
  /\ UNCHANGED sessionVars

Recover(p) ==
  /\ proc[p].pc = "recover"
  /\ file \notin {None, proc[p].creds}
  /\ StepWith(p, "resend", file)
  /\ UNCHANGED <<sessionVars, file>>

RecoveryTimesOut(p) ==
  /\ proc[p].pc = "recover"
  /\ file \in {None, proc[p].creds}
  /\ \/ Reauthenticate(p)
     \/ file = None /\ Step(p, "failed")   \* removed between look and read
  /\ UNCHANGED <<sessionVars, file>>

\* Logout takes any error for an inactive session.
DefectAnyError(p) ==
  /\ proc[p].pc = "final"
  /\ \/ req[p].pc = "ok" /\ Succeed(p)
     \/ /\ req[p].pc \in {"unauthorized", "unavailable"}
        /\ Step(p, IF proc[p].cmd = "logout" THEN "delete" ELSE "failed")
  /\ UNCHANGED <<sessionVars, file>>

\* The second answer is final.  Logout takes 401 for an inactive session.
ReceiveFinal(p) ==
  /\ proc[p].pc = "final"
  /\ \/ req[p].pc = "ok" /\ Succeed(p)
     \/ /\ req[p].pc = "unauthorized"
        /\ Step(p, IF proc[p].cmd = "logout" THEN "delete" ELSE "failed")
     \/ req[p].pc = "unavailable" /\ Step(p, "failed")
  /\ UNCHANGED <<sessionVars, file>>

\* JsonCredentialStore.delete removes whatever the file holds by now.
Delete(p) ==
  /\ proc[p].pc = "delete"
  /\ file' = None
  /\ Step(p, "loggedOut")
  /\ UNCHANGED sessionVars

GivesUp(p) ==
  /\ "network" \in ClientFaults
  /\ proc[p].pc \in {"wait", "refreshing", "final"}
  /\ Step(p, "failed")
  /\ UNCHANGED <<sessionVars, file>>

ClientCrashes(p) ==
  /\ "crash" \in ClientFaults
  /\ proc[p].pc \in Working
  /\ Step(p, "failed")
  /\ UNCHANGED <<sessionVars, file>>

ProcessStep(p) ==
  \/ Check(p) \/ Load(p) \/ Read(p) \/ Send(p) \/ Receive(p) \/ ReceiveTokens(p)
  \/ Save(p) \/ Recover(p) \/ RecoveryTimesOut(p) \/ ReceiveFinal(p) \/ Delete(p)
  \/ \E s \in SessionIds : Exchange(p, s) \/ Refresh(p, s)

\* The bounds are used up: no token pair is left, or no process.
ClientQuiescent ==
  /\ now = Horizon
  /\ \A s \in SessionIds : ~Locked(s)
  /\ \A r \in Requests :
       /\ Free(r)
       /\ \/ proc[r].pc \in Done
          \/ proc[r].pc \in {"refresh", "exchange"} /\ drawn = SessionIds
  /\ UNCHANGED allVars

ClientNext ==
  \/ ServerStep /\ UNCHANGED clientVars
  \/ \E p \in Requests :
       \/ \E cmd \in Commands : Begin(p, cmd)
       \/ ProcessStep(p) \/ GivesUp(p) \/ ClientCrashes(p)
  \/ ClientQuiescent

ClientSpec == ClientInit /\ [][ClientNext]_allVars

-----------------------------------------------------------------------------
(* Properties.                                                             *)

\* A save never writes tokens that were replaced or revoked by then, and within a login
\* it never overwrites tokens that are still good: though nobody locks it, the file
\* only moves forward.
FileMovesForward ==
  [][file' \notin {None, file} =>
       /\ past[file'].status # "revoked"
       /\ file # None /\ line[file'] = line[file] => ~Active(file)]_allVars

\* A logout that revoked its session is final: no descendant of that login is
\* active, and no slower process brings tokens of it back into the file.
LogoutIsFinal ==
  \A p \in Requests :
    proc[p].pc = "loggedOut" /\ proc[p].revoked =>
      /\ \A s \in SessionIds : line[s] = line[proc[p].creds] => ~Active(s)
      /\ file # None => line[file] # line[proc[p].creds]

\* The session was revoked or its access token has expired: the broker refuses it for good.
Dead(s) == past[s].status = "revoked" \/ past[s].access <= now

\* Logout removes no tokens that it has read itself unless they are dead: it takes a
\* refusal for an inactive session ("the client removes the stale local credential
\* file", SKILL.md), but no outage, lost answer or lost race.  What another process
\* saves after logout has looked is another matter: that is removed, good or not.
LogoutRemovesDeadTokens ==
  \A p \in Requests :
    proc[p].pc = "delete" /\ file # None /\ file = proc[p].creds => Dead(file)

-----------------------------------------------------------------------------
(* The inductive invariant.                                                *)

\* Every session a process, a request or the file holds was drawn, and the file
\* holds a session of some login.
KnownOK ==
  /\ file # None => file \in drawn /\ line[file] # None
  /\ \A p \in Requests : proc[p].creds \in drawn \cup {None} /\ req[p].on \in drawn \cup {None}

ProcessesOK ==
  \A p \in Requests :
    /\ proc[p].pc \in {"send", "wait", "refresh", "refreshing", "recover", "resend", "final"} =>
         proc[p].creds # None
    /\ proc[p].pc = "refreshing" => req[p].op = "refresh"
    /\ proc[p].pc = "save" => Free(p) /\ line[req[p].new] # None
    /\ proc[p].pc \in {"wait", "final"} =>
         req[p].on = proc[p].creds /\ (proc[p].cmd = "logout" => req[p].op = "revoke")
    /\ proc[p].revoked =>
         /\ proc[p].pc \in {"delete", "loggedOut", "failed"}
         /\ req[p].op = "revoke" /\ req[p].pc = "ok" /\ req[p].on = proc[p].creds

\* Tokens that are drawn for a process which has not saved them yet.
Unsaved(p) == proc[p].pc \in {"refreshing", "save"}

\* Nobody else knows them, so nobody can have replaced or revoked them: no other
\* session of their line is active.
Secret(p) ==
  LET s == req[p].new IN
  /\ s \in drawn /\ s # file /\ ~Locked(s) /\ past[s].status # "revoked"
  /\ \A q \in Requests : s # proc[q].creds /\ s # req[q].on
  /\ line[s] # None => \A u \in SessionIds : line[u] = line[s] /\ Active(u) => u = s

UnsavedOK ==
  /\ \A p \in Requests : Unsaved(p) => Secret(p)
  /\ \A p, q \in Requests : Unsaved(p) /\ Unsaved(q) /\ req[p].new = req[q].new => p = q

\* Once a revocation is confirmed, no tokens of its line wait to be saved, and
\* the file that its process removed does not come back.
LoggedOutOK ==
  \A p \in Requests :
    /\ req[p].op = "revoke" /\ req[p].pc = "ok" =>
         \A q \in Requests : Unsaved(q) => line[req[q].new] # line[req[p].on]
    /\ proc[p].pc = "loggedOut" /\ proc[p].revoked /\ file # None =>
         line[file] # line[proc[p].creds]

ClientInv == ClientTypeOK /\ SessionInv /\ KnownOK /\ ProcessesOK /\ UnsavedOK /\ LoggedOutOK

\* Every session of a login has a history.
PastOK == \A s \in SessionIds : line[s] # None => past[s].status # "absent"

\* From the first refusal on a process holds dead tokens, until it gets others; and so
\* does a logout after its revocation.
SeenBy(p) ==
  LET s == proc[p].creds IN
  /\ s # None => line[s] # None
  /\ proc[p].pc \in {"idle", "check", "checked", "load", "read", "exchange"} => s = None
  /\ proc[p].pc \in {"wait", "final"} =>
       req[p].op # "refresh" /\ (req[p].pc = "unauthorized" => Dead(s))
  /\ proc[p].pc \in {"refresh", "refreshing", "recover"} => Dead(s)
  /\ proc[p].pc = "delete" /\ s # None => Dead(s)

SeenOK == PastOK /\ \A p \in Requests : SeenBy(p)
=============================================================================
