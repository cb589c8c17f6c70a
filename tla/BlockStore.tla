----------------------------- MODULE BlockStore -----------------------------
(***************************************************************************)
(* What the download agent promises its host, with no partitions to        *)
(* switch, no transfers and no waits: a store of sectors addressed by      *)
(* region, and one request at a time that either takes effect on the       *)
(* addressed sector and is answered, or is not answered.  Silence says     *)
(* nothing of whether a write has taken effect, nor whether its effect     *)
(* will last: until a write has settled a reset or the loss of power may   *)
(* leave anything in its sector, whoever is asked for what meanwhile.      *)
(***************************************************************************)
EXTENDS Naturals

CONSTANTS Regions, Sectors, Data, Requests, BootRequest,
          NoReply, Hello, Ack, DataReply(_)

VARIABLES
  store, req, busy, reply,
  unsettled   \* the sector whose write has not settled, in a set

vars == <<store, req, busy, reply, unsettled>>

Init ==
  /\ store \in [Regions -> [Sectors -> Data]]
  /\ req = BootRequest /\ busy = TRUE /\ reply = NoReply
  /\ unsettled = {}

Request(r) ==
  /\ ~busy
  /\ req' = r /\ busy' = TRUE /\ reply' = NoReply
  /\ UNCHANGED <<store, unsettled>>

Writes == req.kind = "write" /\ req.region \in Regions
Put(d) == store' = [store EXCEPT ![req.region][req.sector] = d]

\* The effect of a write, before its answer.
Store ==
  /\ busy /\ Writes /\ Put(req.data)
  /\ unsettled' = {<<req.region, req.sector>>}
  /\ UNCHANGED <<req, busy, reply>>

\* The write has come to its end, in its own time.
Settle == unsettled' = {} /\ UNCHANGED <<store, req, busy, reply>>

\* The answers a request may get: the contents of the addressed sector, an
\* acknowledgement of what is in the store, both only when nothing is left to
\* settle, or none.  The other requests are always answered: emmc_init has no
\* result, and the EXT_CSD buffer is sent also when the register could not be read.
Answer ==
  /\ busy /\ busy' = FALSE
  /\ UNCHANGED <<store, req, unsettled>>
  /\ \/ req.kind \in {"read", "write", "verify"} /\ reply' = NoReply
     \/ req.kind = "boot" /\ reply' = Hello
     \/ req.kind = "init" /\ reply' = Ack
     \/ req.kind = "ext" /\ \E d \in Data : reply' = DataReply(d)
     \/ /\ req.kind = "read" /\ req.region \in Regions /\ unsettled = {}
        /\ reply' = DataReply(store[req.region][req.sector])
     \/ /\ Writes /\ store[req.region][req.sector] = req.data /\ unsettled = {}
        /\ reply' = Ack

\* What has not settled may have any contents.
Interrupted ==
  /\ unsettled' = {}
  /\ \E d \in Data :
       store' = [r \in Regions |->
                   [s \in Sectors |-> IF <<r, s>> \in unsettled THEN d ELSE store[r][s]]]

\* The requests that initialize reset the store.
Reset ==
  /\ busy /\ req.kind \in {"boot", "init", "verify"}
  /\ Interrupted /\ UNCHANGED <<req, busy, reply>>

\* The agent dies, with or without power to the store.
Crash ==
  /\ req' = BootRequest /\ busy' = TRUE /\ reply' = NoReply
  /\ Interrupted \/ UNCHANGED <<store, unsettled>>

Next ==
  \/ \E r \in Requests : Request(r)
  \/ Store \/ Settle \/ Answer \/ Reset \/ Crash

Spec == Init /\ [][Next]_vars
=============================================================================
