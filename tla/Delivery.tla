------------------------------ MODULE Delivery -------------------------------
(***************************************************************************)
(* What a download promises about the file it is to become, when several   *)
(* processes name the same destination: an attachment gets there whole, in *)
(* one step, only after its release was recorded, at most once per         *)
(* process, and over another file only if the process was told to.         *)
(* Module DownloadFile, with broker and client, is shown to implement it.  *)
(***************************************************************************)
CONSTANTS Processes,
          None, Foreign,  \* no file, and one of somebody else
          Sizes, Unknown  \* sizes of attachments, and no size

VARIABLES stage,     \* stage[p]: a process under way is "careful" or told to overwrite, "forced"
          released,  \* released[p]: size of the attachment whose release to p is recorded
          file       \* the file at the destination

deliveryVars == <<stage, released, file>>

DInit == /\ stage = [p \in Processes |-> "idle"]
         /\ released = [p \in Processes |-> Unknown]
         /\ file \in {[of |-> o, size |-> 0] : o \in {None, Foreign}}

UnderWay(p) == stage[p] \in {"careful", "forced"}

Start(p) == /\ stage[p] = "idle"
            /\ \E s \in {"careful", "forced"} : stage' = [stage EXCEPT ![p] = s]
            /\ UNCHANGED <<released, file>>

\* The release does not wait for the process: it may have been given up.
Release(p) == /\ released[p] = Unknown
              /\ \E n \in Sizes : released' = [released EXCEPT ![p] = n]
              /\ UNCHANGED <<stage, file>>

Deliver(p) == /\ UnderWay(p) /\ released[p] # Unknown
              /\ stage[p] = "forced" \/ file.of = None
              /\ file' = [of |-> p, size |-> released[p]]
              /\ stage' = [stage EXCEPT ![p] = "over"]
              /\ UNCHANGED released

GiveUp(p) == /\ stage[p] = "idle" \/ UnderWay(p)
             /\ stage' = [stage EXCEPT ![p] = "over"]
             /\ UNCHANGED <<released, file>>

\* A file of somebody else appears.
Appear == /\ file.of = None
          /\ file' = [of |-> Foreign, size |-> 0]
          /\ UNCHANGED <<stage, released>>

DNext == \/ \E p \in Processes : Start(p) \/ Release(p) \/ Deliver(p) \/ GiveUp(p)
         \/ Appear

DSpec == DInit /\ [][DNext]_deliveryVars
=============================================================================
