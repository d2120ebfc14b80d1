---------------------------- MODULE DownloadFile ----------------------------
(***************************************************************************)
(* command_download of the client: the response goes to a temporary file,  *)
(* which is published at its destination when the response is complete.    *)
(* The processes here all name the same destination; process p uses the    *)
(* request p of module Downloads.                                          *)
(***************************************************************************)
EXTENDS Downloads

VARIABLES
  fetch,  \* the client processes
  dest    \* whose download is at the destination: a process, or None or Foreign

CONSTANTS None,     \* no file
          Foreign   \* a file of somebody else

ASSUME FileAssumption == {None, Foreign} \cap Requests = {} /\ None # Foreign

fileVars == <<fetch, dest>>
allVars == <<downloadVars, fileVars>>

Process == [pc : {"idle", "receive", "publish", "ok", "error"}, overwrite : BOOLEAN, got : Sizes]

FileTypeOK ==
  /\ DownloadTypeOK
  /\ fetch \in [Requests -> Process]
  /\ dest \in Requests \cup {None, Foreign}

FileInit ==
  /\ DownloadInit
  /\ fetch = [p \in Requests |-> [pc |-> "idle", overwrite |-> FALSE, got |-> 0]]
  /\ dest \in {None, Foreign}

\* Any other program may put a file there.
ForeignWrite ==
  /\ dest = None
  /\ dest' = Foreign
  /\ UNCHANGED <<downloadVars, fetch>>

\* An existing destination is refused before the request, unless --overwrite.
Begin(p, overwrite) ==
  /\ fetch[p].pc = "idle"
  /\ IF dest # None /\ ~overwrite
     THEN fetch' = [fetch EXCEPT ![p] = [@ EXCEPT !.pc = "error"]] /\ UNCHANGED downloadVars
     ELSE /\ fetch' = [fetch EXCEPT ![p] = [@ EXCEPT !.pc = "receive", !.overwrite = overwrite]]
          /\ \E u \in Users : Arrive(p, u, "download")
  /\ UNCHANGED dest

\* The response ends after `got` bytes.  A body without Content-Length ends by its
\* last chunk or raises; with one, a connection that closes early may look like the
\* end of the body, and the bytes are counted.
DefectNoCount(p, got) == TRUE
LooksComplete(p, got) ==
  IF dl[p].header = Unknown
  THEN dl[p].outcome = "ok" /\ got = dl[p].sent
  ELSE got = dl[p].header

Receive(p) ==
  /\ fetch[p].pc = "receive"
  /\ dl[p].outcome \in {"ok", "aborted"}
  /\ \E got \in 0..dl[p].sent :
       \/ /\ LooksComplete(p, got)
          /\ fetch' = [fetch EXCEPT ![p] = [@ EXCEPT !.pc = "publish", !.got = got]]
       \/ /\ got < dl[p].sent \/ dl[p].outcome = "aborted"
          /\ fetch' = [fetch EXCEPT ![p] = [@ EXCEPT !.pc = "error"]]
  /\ UNCHANGED <<downloadVars, dest>>

\* A problem document, or no answer at all.
ReceiveProblem(p) ==
  /\ fetch[p].pc = "receive"
  /\ dl[p].outcome = "problem"
  /\ fetch' = [fetch EXCEPT ![p] = [@ EXCEPT !.pc = "error"]]
  /\ UNCHANGED <<downloadVars, dest>>

\* os.replace, or os.link, which fails when the name is taken; after a link the
\* temporary name is removed, and if that fails the command does.
DefectReplace(p) == TRUE
MayPublish(p) == fetch[p].overwrite \/ dest = None

Publish(p) ==
  /\ fetch[p].pc = "publish"
  /\ IF MayPublish(p)
     THEN /\ dest' = p
          /\ \E pc \in {"ok", IF fetch[p].overwrite THEN "ok" ELSE "error"} :
               fetch' = [fetch EXCEPT ![p] = [@ EXCEPT !.pc = pc]]
     ELSE /\ fetch' = [fetch EXCEPT ![p] = [@ EXCEPT !.pc = "error"]]
          /\ UNCHANGED dest
  /\ UNCHANGED downloadVars

\* A process may be killed, its temporary file stays behind.
Killed(p) ==
  /\ fetch[p].pc \in {"receive", "publish"}
  /\ fetch' = [fetch EXCEPT ![p] = [@ EXCEPT !.pc = "error"]]
  /\ UNCHANGED <<downloadVars, dest>>

FileQuiescent ==
  /\ \A p \in Requests :
       \/ fetch[p].pc = "idle" /\ dl[p].pc = "end"
       \/ fetch[p].pc \in {"ok", "error"} /\ dl[p].pc \in {"idle", "end"}
  /\ UNCHANGED allVars

ServerStep(r) == HandlerStep(r) /\ UNCHANGED fileVars

FileNext ==
  \/ \E p \in Requests :
       \/ \E overwrite \in BOOLEAN : Begin(p, overwrite)
       \/ \E u \in Users : fetch[p].pc = "idle" /\ Arrive(p, u, "list") /\ UNCHANGED fileVars
       \/ ServerStep(p)
       \/ Receive(p) \/ ReceiveProblem(p) \/ Publish(p) \/ Killed(p)
  \/ ForeignWrite \/ FileQuiescent

FileSpec == FileInit /\ [][FileNext]_allVars

-----------------------------------------------------------------------------
(* Properties.                                                             *)

\* A published file has the size its approval names, or is the whole attachment
\* when none is named: never a part of it, wherever the transfer broke.
PublishedHasItsSize ==
  dest \in Requests =>
    /\ fetch[dest].got = IF dl[dest].size > 0 THEN dl[dest].size ELSE dl[dest].whole
    /\ <<dest, "allowed">> \in audit

\* Without --overwrite nothing at the destination is replaced, not even a file
\* that appeared during the transfer.
NothingOverwritten ==
  [][dest' # dest => dest = None \/ (dest' \in Requests /\ fetch[dest'].overwrite)]_allVars

\* Implementation of the abstract delivery: a process is under way from its request to
\* its end, and an attachment is released when the allowed record is stored.
AttachmentSize(d) == IF d.size > 0 THEN d.size ELSE d.whole

StageOf(f) ==
  CASE f.pc = "idle" -> "idle"
    [] f.pc \in {"receive", "publish"} -> IF f.overwrite THEN "forced" ELSE "careful"
    [] f.pc \in {"ok", "error"} -> "over"

stageBar == [p \in Requests |-> StageOf(fetch[p])]
releasedBar ==
  [p \in Requests |-> IF <<p, "allowed">> \in audit THEN AttachmentSize(dl[p]) ELSE Unknown]
fileBar == [of |-> dest, size |-> IF dest \in Requests THEN fetch[dest].got ELSE 0]

Promise == INSTANCE Delivery WITH
             Processes <- Requests,
             stage <- stageBar,
             released <- releasedBar,
             file <- fileBar

\* Broker and client keep the promise of module Delivery, wherever the two, the
\* connection or the audit table fail: an attachment appears at the destination in one
\* step, whole, after its record, and not again once its process has ended.
ImplementsDelivery == Promise!DSpec

-----------------------------------------------------------------------------
(* The inductive invariant.                                                *)

\* What a process publishes, or has published, is a response that ended, with the
\* size its approval names.
FetchOK(p) ==
  /\ fetch[p].pc \in {"receive", "publish"} => dl[p].op = "download" /\ dl[p].pc # "idle"
  /\ fetch[p].pc = "publish" \/ dest = p =>
       /\ dl[p].op = "download" /\ dl[p].outcome \in {"ok", "aborted"}
       /\ fetch[p].got = IF dl[p].size > 0 THEN dl[p].size ELSE dl[p].whole
  /\ dest = p => fetch[p].pc \in {"ok", "error"}

FileInv ==
  /\ FileTypeOK
  /\ DownloadInv
  /\ \A p \in Requests : FetchOK(p)

\* Once the allowed record of a request is stored, its sizes are settled.
SettledOK(r) == <<r, "allowed">> \in audit => dl[r].pc \in {"stream", "close", "end"}

DeliveryInv == FileInv /\ \A r \in Requests : SettledOK(r)
=============================================================================
