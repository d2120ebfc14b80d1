----------------------------- MODULE DeviceGrant -----------------------------
(***************************************************************************)
(* What the device flow promises its users, with no database, request or   *)
(* clock in it: a device code is requested once, is decided at most once   *)
(* (approved for one enterprise user, or denied), and an approval is       *)
(* turned into exactly one session of that user.  Old codes are forgotten. *)
(* Module DeviceAuthorization is shown to implement this specification.    *)
(***************************************************************************)
EXTENDS Naturals

CONSTANTS Devices,   \* device codes
          Users,     \* enterprise users
          Tickets,   \* identities of the sessions that can be issued
          None       \* no user

VARIABLES grant,     \* grant[d]: the decision on device code d
          holder,    \* holder[d]: the user d was approved for
          sessions   \* the sessions ever issued

grantVars == <<grant, holder, sessions>>

GrantStates == {"unknown", "requested", "approved", "denied", "consumed", "forgotten"}

GInit == /\ grant = [d \in Devices |-> "unknown"]
         /\ holder = [d \in Devices |-> None]
         /\ sessions = {}

Request(d) == /\ grant[d] = "unknown"
              /\ grant' = [grant EXCEPT ![d] = "requested"]
              /\ UNCHANGED <<holder, sessions>>

Approve(d, u) == /\ grant[d] = "requested"
                 /\ grant' = [grant EXCEPT ![d] = "approved"]
                 /\ holder' = [holder EXCEPT ![d] = u]
                 /\ UNCHANGED sessions

Deny(d) == /\ grant[d] = "requested"
           /\ grant' = [grant EXCEPT ![d] = "denied"]
           /\ UNCHANGED <<holder, sessions>>

Consume(d, t) ==
  /\ grant[d] = "approved"
  /\ grant' = [grant EXCEPT ![d] = "consumed"]
  /\ sessions' = sessions \cup {[dev |-> d, user |-> holder[d], poll |-> t]}
  /\ UNCHANGED holder

\* The retention job forgets a whole set of device codes at once.
Forget(D) ==
  /\ \A d \in D : grant[d] # "unknown"
  /\ grant' = [d \in Devices |-> IF d \in D THEN "forgotten" ELSE grant[d]]
  /\ holder' = [d \in Devices |-> IF d \in D THEN None ELSE holder[d]]
  /\ UNCHANGED sessions

GNext == \/ \E d \in Devices :
              \/ Request(d)
              \/ \E u \in Users : Approve(d, u)
              \/ Deny(d)
              \/ \E t \in Tickets : Consume(d, t)
         \/ \E D \in SUBSET Devices : Forget(D)

GSpec == GInit /\ [][GNext]_grantVars
=============================================================================
