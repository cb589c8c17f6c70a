---------------------------- MODULE DownloadAgent ----------------------------
(***************************************************************************)
(* The whole of the download agent between the host and the card: the host *)
(* and the pipes of UsbSession, the command loop of stage2.c, which reads  *)
(* a command to its end, calls the driver and sends the reply, and the     *)
(* eMMC driver and the card of EmmcDriver where UsbSession has the store   *)
(* of a driver it knows nothing of.                                        *)
(*                                                                         *)
(* The loop is one thread with the driver: it takes nothing from the pipe  *)
(* and sends nothing while a function of the driver runs (pc # "loop"),    *)
(* the emmc_init before the loop included.  The host and the card go on.   *)
(***************************************************************************)
EXTENDS EmmcDriver

CONSTANTS
  RegionId, Blocks, BlockWords, ChunkWords, OutCap, InCap, Upsets, MaxUpsets

VARIABLES
  host, cmd, sent, got, done, out, in, agent, req, toSend, upsets,
  held   \* auxiliary: what the region held when the driver was called

usb == <<host, cmd, sent, got, done, out, in, agent, req, toSend, upsets>>
stack == <<vars, usb, held>>

\* The region as the loop sees it: the driver's write has an effect once the
\* driver has returned.
Shown == IF pc = "loop" THEN medium[RegionId] ELSE held

U == INSTANCE UsbSession WITH store <- Shown, ExtReplies <- Data

\* The driver's request for what has been read from the pipe.  A sector beyond
\* the card fails like a region that does not exist.
OpOf(r) ==
  LET known == r.region \in Regions /\ r.sector \in Sectors
      data == IF r.kind = "write" THEN r.data ELSE Zero
  IN IF r.kind = "ext" THEN Op("ext", User, FirstSector, Zero)
     ELSE IF known THEN Op(r.kind, r.region, r.sector, data)
     ELSE Op(r.kind, BadRegion, FirstSector, data)

-----------------------------------------------------------------------------

HostStep ==
  /\ UNCHANGED <<vars, held>>
  /\ \/ U!Connect \/ U!Disconnect \/ \E c \in U!Commands : U!Begin(c)
     \/ U!HostWrites \/ U!HostReads \/ U!Abort \/ U!Interrupt

\* A dword is taken, or a packet sent, between two calls of the driver.
LoopStep ==
  /\ pc = "loop" /\ UNCHANGED <<vars, held>>
  /\ \/ U!RecvMagic \/ U!RecvCmd \/ U!RecvRegion \/ U!RecvBlock \/ U!RecvData
     \/ U!SendPacket

\* emmc_read_sector, emmc_write_sector or emmc_read_ext_csd is called.
Call ==
  /\ agent = "exec" /\ Loop(OpOf(req))
  /\ held' = medium[RegionId]
  /\ UNCHANGED usb

Work == DriverStep /\ pc' # "loop" /\ UNCHANGED <<usb, held>>

\* What the loop does with the driver's result.  The dword sent when emmc_init
\* has returned is taken by the program that loads the agent, before a session.
Respond ==
  \/ reply'.tag = "none" /\ agent' = "magic" /\ UNCHANGED toSend
  \/ reply'.tag = "ack" /\ U!Reply(U!AckReply)
  \/ reply'.tag = "data" /\ U!Reply(U!DataReply(reply'.data))
  \/ reply'.tag = "hello" /\ UNCHANGED <<agent, toSend>>

Result ==
  /\ DriverStep /\ pc' = "loop"
  /\ Respond
  /\ UNCHANGED <<host, cmd, sent, got, done, out, in, req, upsets, held>>

StackInit == Init /\ held = medium[RegionId] /\ U!Init

StackNext ==
  \/ HostStep \/ LoopStep \/ Call \/ Work \/ Result
  \/ CardFinish /\ UNCHANGED <<usb, held>>

StackSpec == StackInit /\ [][StackNext]_stack

-----------------------------------------------------------------------------
(* Correctness                                                             *)

\* The components fit: the region's number is the only dword of the protocol
\* that names a region, and whatever is sent for a sector can be stored.
Fits ==
  /\ RegionId \in Regions /\ U!Words \cap Regions = {RegionId}
  /\ [1..BlockWords -> U!Words] \subseteq Data
  /\ Data \subseteq [1..BlockWords -> UNION {{d[i] : i \in 1..BlockWords} : d \in Data}]
  /\ Blocks \subseteq [1..BlockWords -> UNION {{b[i] : i \in 1..BlockWords} : b \in Blocks}]
  /\ ChunkWords \in Nat \ {0, 1} /\ BlockWords \in {ChunkWords * n : n \in 1..BlockWords}
  /\ OutCap \in Nat \ {0} /\ InCap \in Nat \ {0}
  /\ Upsets \subseteq {"abort", "interrupt", "late"} /\ MaxUpsets \in Nat

\* What the host of UsbSession sees is what it would see of a store.
IsUsbSession == U!Spec

\* As long as nothing has been cut off, read_sector returns what the sector
\* holds on the card, and when write_sector returns True the block it was
\* given is on the card: through the pipes, the loop, the partition cache, the
\* transfers and the card's programming.
HostAndCardAgree ==
  upsets = <<>> /\ host = "idle" =>
    /\ done.kind = "read" => done.data = medium[RegionId][done.sector]
    /\ done.kind = "write" => medium[RegionId][done.sector] = cmd.block

\* Unless a command is cut off while it is being sent, the region holds what it
\* held before or what somebody has handed to write_sector, in every sector.
OnlyBlocksOnCard ==
  "abort" \notin U!Range(upsets) =>
    \A s \in Sectors : medium[RegionId][s] \in Blocks
=============================================================================
