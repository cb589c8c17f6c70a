----------------------------- MODULE EmmcDriver -----------------------------
(***************************************************************************)
(* The eMMC driver of the download agent (stage2_static/mt8113_emmc.c) and *)
(* the command loop of stage2.c that calls it, against the eMMC card.      *)
(*                                                                         *)
(* The driver is one thread of control: pc is the command of the eMMC      *)
(* protocol it is about to send, or the wait it is in, and current_partition*)
(* is its cache of the card's PARTITION_ACCESS field, so that CMD6 is sent *)
(* only when the region changes.  A polling loop (wait for CMDRDY, CMD13   *)
(* until state 4, CMD1 until not busy, FIFO and XFER_COMPL polls) is one   *)
(* step with the outcomes it can have.                                     *)
(*                                                                         *)
(* The card is external: the eMMC state machine (idle, ready, ident, stby, *)
(* tran, data, rcv, prg), its PARTITION_ACCESS field and the medium.  What *)
(* can go wrong on the bus is the constant Faults, a set of pairs          *)
(* <<kind, step>>, so that a run or a theorem names precisely the faults   *)
(* under which a property holds:                                           *)
(*   <<"lost", c>>    the response to c is lost (or arrives damaged: only  *)
(*                    CMDRDY is polled), or the card never saw c           *)
(*   <<"busy", w>>    the card is not in state 4 within the 1000 polls of w*)
(*   <<"error", t>>   a data transfer ends with an error that is seen      *)
(*   <<"late", t>>    the controller reports the end of the transfer after *)
(*                    the driver has stopped looking (see PioRead, PioWrite)*)
(*   <<"refuse", c>>  the card answers c with an error bit                 *)
(*   <<"restart", r>> r = "warm": the SoC resets and the card keeps its    *)
(*                    state; r = "cold": the card loses power too          *)
(***************************************************************************)
EXTENDS Naturals, Sequences

CONSTANTS
  Regions,        \* the regions switch_partition knows (EMMC_PART_*)
  User, Boot0,    \* two of them: the region selected by CMD0, and boot0
  NoPart,         \* the initial value 0xFF of current_partition
  BadRegion,      \* a region number the driver does not know
  Sectors,
  Data,           \* contents of a sector
  Zero,           \* the buffer after memset
  ExtCsd,         \* the contents of the EXT_CSD register
  VerifySectors,  \* the two sectors emmc_boot0_verify_test reads
  Faults

\* No command names the number NoPart: it would be a hit of the cache until the first
\* emmc_init that succeeds, though no region.  The client of the repository sends 0 to 2.
ASSUME ConstantsAssumption ==
  /\ User \in Regions /\ Boot0 \in Regions
  /\ NoPart \notin Regions
  /\ BadRegion \notin Regions \cup {NoPart}
  /\ Zero \in Data
  /\ ExtCsd \in Data
  /\ VerifySectors \in [1..2 -> Sectors]

VARIABLES
  pc,                 \* where the driver is; "loop": waiting for a command
  op,                 \* the command being executed
  current_partition,
  reads,              \* read transfers completed during this command
  buf,                \* the caller's 512-byte buffer
  reply,              \* what was last sent to the host
  cardState, cardPart, \* the card: its state, its PARTITION_ACCESS
  stale,              \* the next read transfer may deliver old data
  medium,             \* the contents of the card
  programming         \* the sector the card is programming, in a set

driver == <<pc, op, current_partition, reads, buf, reply>>
card == <<cardState, cardPart, stale, medium, programming>>
vars == <<driver, card>>

-----------------------------------------------------------------------------

Op(kind, region, sector, data) ==
  [kind |-> kind, region |-> region, sector |-> sector, data |-> data]

FirstSector == VerifySectors[1]

BootOp == Op("boot", User, FirstSector, Zero)

\* What the host can ask for: 0x1000 (init), 0x1001, 0x1002, 0x1003, 0x7000.
Commands ==
  {Op(k, User, FirstSector, Zero) : k \in {"init", "ext", "verify"}}
    \cup {Op("read", r, s, Zero) : r \in Regions \cup {BadRegion}, s \in Sectors}
    \cup {Op("write", r, s, d) :
            r \in Regions \cup {BadRegion}, s \in Sectors, d \in Data}

NoReply == [tag |-> "none", data |-> Zero]
Hello == [tag |-> "hello", data |-> Zero]
Ack == [tag |-> "ack", data |-> Zero]
DataReply(d) == [tag |-> "data", data |-> d]

Steps == {"loop",
           "cmd0", "cmd1", "cmd2", "cmd3", "cmd7", "initReady",
           "switch", "switchReady", "ready",
           "cmd17", "cmd8", "cmd24", "rx", "rxReady", "tx", "txReady"}
CardStates == {"idle", "ready", "ident", "stby", "tran", "data", "rcv", "prg"}

TypeOK ==
  /\ pc \in Steps
  /\ op \in Commands \cup {BootOp}
  /\ current_partition \in Regions \cup {NoPart}
  /\ reads \in 0..4
  /\ buf \in Data
  /\ reply \in {NoReply, Hello, Ack} \cup {DataReply(d) : d \in Data}
  /\ cardState \in CardStates
  /\ cardPart \in Regions
  /\ stale \in BOOLEAN
  /\ medium \in [Regions -> [Sectors -> Data]]
  /\ programming \subseteq Regions \X Sectors

Lost(cmd) == <<"lost", cmd>> \in Faults
Busy(wait) == <<"busy", wait>> \in Faults
Error(transfer) == <<"error", transfer>> \in Faults
Late(transfer) == <<"late", transfer>> \in Faults
Refuse(cmd) == <<"refuse", cmd>> \in Faults

\* The region and sector the current command addresses: emmc_boot0_verify_test
\* reads two sectors of boot0, every read_sector being two read transfers.
Region == IF op.kind = "verify" THEN Boot0 ELSE op.region
Sector == IF op.kind = "verify" THEN VerifySectors[IF reads < 2 THEN 1 ELSE 2]
                                ELSE op.sector

-----------------------------------------------------------------------------
(* stage2.c: the command loop                                              *)

Loop(o) ==
  /\ pc = "loop"
  /\ pc' = CASE o.kind \in {"init", "verify"} -> "cmd0"
             [] o.kind \in {"read", "write"} -> "switch"
             [] o.kind = "ext" -> "ready"
  /\ op' = o
  /\ reads' = 0
  /\ buf' = o.data
  /\ reply' = NoReply
  /\ UNCHANGED <<current_partition, card>>

\* The function called by the loop has returned: ok is "its result was 0".
\* EXT_CSD is sent whatever the result; a read or write that failed sends
\* nothing; emmc_init has no result; the self-test prints on the UART.
\* Mutant: a failed read sends its buffer.
Return_FailedReadSends(ok) ==
  /\ pc' = "loop"
  /\ reply' = CASE op.kind \in {"read", "ext"} -> DataReply(buf')
                [] op.kind = "write" /\ ok -> Ack
                [] op.kind = "init" -> Ack
                [] op.kind = "boot" -> Hello
                [] OTHER -> NoReply
  /\ UNCHANGED op

Return(ok) ==
  /\ pc' = "loop"
  /\ reply' = CASE op.kind = "boot" -> Hello
                [] op.kind = "init" -> Ack
                [] op.kind = "ext" -> DataReply(buf')
                [] op.kind = "read" /\ ok -> DataReply(buf')
                [] op.kind = "write" /\ ok -> Ack
                [] OTHER -> NoReply
  /\ UNCHANGED op

\* return -1
Fail == UNCHANGED <<current_partition, reads, buf>> /\ Return(FALSE)

Continue(label) == pc' = label /\ UNCHANGED <<op, reply>>
Goto(label) == Continue(label) /\ UNCHANGED <<current_partition, reads, buf>>

-----------------------------------------------------------------------------
(* The card and the bus (external)                                         *)

\* Command cmd is legal in the states of from, the only ones in which the
\* card executes and answers it.  Answered: CMDRDY came and the card has
\* executed it.  Unanswered: msdc_send_cmd returns -1; the card has ignored
\* the command, or executed it and the response is lost.
Answered(from) == cardState \in from

Executes(cmd, from) == cardState \in from /\ Lost(cmd)

Ignored(cmd, from) ==
  /\ cardState \notin from \/ Lost(cmd)
  /\ UNCHANGED card

\* In its new state the card is not programming.
BecomesCard(st, part) ==
  cardState' = st /\ cardPart' = part /\ programming' = {} /\ UNCHANGED <<stale, medium>>

\* A card that is reset or loses its power may leave anything in the sector it is
\* programming, also when the driver has stopped waiting for it.
Interrupted ==
  /\ programming' = {}
  /\ \E d \in Data :
       medium' = [r \in Regions |->
                    [s \in Sectors |-> IF <<r, s>> \in programming THEN d ELSE medium[r][s]]]

\* The card leaves the data and programming states by itself.
CardFinish ==
  /\ cardState \in {"data", "prg"}
  /\ BecomesCard("tran", cardPart)
  /\ UNCHANGED driver

\* msdc_wait_card_ready: CMD13 until the card reports state 4 (tran).
WaitOk == cardState = "tran" /\ UNCHANGED card
WaitFails(wait) ==
  /\ cardState \notin {"tran", "data", "prg"} \/ Busy(wait)
  /\ UNCHANGED card

-----------------------------------------------------------------------------
(* emmc_init                                                               *)

\* What follows emmc_init in its caller: emmc_read_ext_csd calls it after
\* each of its two transfers, the self-test before its reads.
AfterInit ==
  /\ UNCHANGED <<reads, buf>>
  /\ \/ op.kind = "verify" /\ Continue("switch")
     \/ op.kind = "ext" /\ reads < 2 /\ Continue("cmd8")
     \/ op.kind \in {"boot", "init"} /\ Return(TRUE)
     \/ op.kind = "ext" /\ reads = 2 /\ Return(TRUE)

InitReturns == AfterInit /\ UNCHANGED current_partition

\* CMD0 has no response and its result is not looked at.  The card resets to
\* idle and to the user region, whatever it is doing.
Cmd0 ==
  /\ pc = "cmd0"
  /\ Goto("cmd1")
  /\ \/ cardState' = "idle" /\ cardPart' = User /\ Interrupted /\ UNCHANGED stale
     \/ Ignored("cmd0", CardStates)

\* Mutant: emmc_init goes on after a command that failed.
InitCommand_GoesOn(cmd, from, to, next) ==
  /\ pc = cmd
  /\ \/ Answered({from}) /\ BecomesCard(to, cardPart)
     \/ Ignored(cmd, {from})
  /\ Goto(next)

\* CMD1 (retried), CMD2, CMD3, CMD7 take the card from one state to the next;
\* emmc_init returns at the first that is not answered.
InitCommand(cmd, from, to, next) ==
  /\ pc = cmd
  /\ \/ Answered({from}) /\ BecomesCard(to, cardPart) /\ Goto(next)
     \/ Executes(cmd, {from}) /\ BecomesCard(to, cardPart) /\ InitReturns
     \/ Ignored(cmd, {from}) /\ InitReturns

Cmd1 == InitCommand("cmd1", "idle", "ready", "cmd2")
Cmd2 == InitCommand("cmd2", "ready", "ident", "cmd3")
Cmd3 == InitCommand("cmd3", "ident", "stby", "cmd7")
Cmd7 == InitCommand("cmd7", "stby", "tran", "initReady")

\* Mutant: emmc_init does not reset the cached partition.
InitReady_KeepsCache ==
  /\ pc = "initReady"
  /\ WaitOk \/ WaitFails("initReady")
  /\ InitReturns

InitReady ==
  /\ pc = "initReady"
  /\ \/ WaitOk /\ AfterInit /\ current_partition' = User
     \/ WaitFails("initReady") /\ InitReturns

-----------------------------------------------------------------------------
(* emmc_switch_partition                                                   *)

SwitchCached ==
  /\ pc = "switch"
  /\ Region = current_partition
  /\ Goto("ready")
  /\ UNCHANGED card

\* Mutant: no default case for an unknown region.
SwitchBadRegion_Accepted ==
  /\ pc = "switch"
  /\ Region \notin Regions \cup {current_partition}
  /\ current_partition' = Region
  /\ Continue("ready") /\ UNCHANGED <<reads, buf, card>>

SwitchBadRegion ==
  /\ pc = "switch"
  /\ Region \notin Regions \cup {current_partition}
  /\ Fail
  /\ UNCHANGED card

\* CMD6 writes PARTITION_CONFIG.  A card that refuses answers too: the
\* SWITCH_ERROR bit of its status is not looked at.
SwitchPartition ==
  /\ pc = "switch"
  /\ Region \in Regions \ {current_partition}
  /\ UNCHANGED <<medium, programming>>
  /\ \/ /\ Answered({"tran"}) /\ Goto("switchReady")
        /\ \/ cardState' = "prg" /\ cardPart' = Region /\ stale' = TRUE
           \/ Refuse("cmd6") /\ UNCHANGED card
     \/ /\ Executes("cmd6", {"tran"}) /\ Fail
        /\ cardState' = "prg" /\ cardPart' = Region /\ stale' = TRUE
     \/ Ignored("cmd6", {"tran"}) /\ Fail

SwitchReady ==
  /\ pc = "switchReady"
  /\ \/ /\ WaitOk
        /\ current_partition' = Region
        /\ Continue("ready")
        /\ UNCHANGED <<reads, buf>>
     \/ WaitFails("switchReady") /\ Fail

\* The wait before the read, write or EXT_CSD command.
Ready ==
  /\ pc = "ready"
  /\ \/ /\ WaitOk
        /\ Goto(CASE op.kind \in {"read", "verify"} -> "cmd17"
                  [] op.kind = "write" -> "cmd24"
                  [] OTHER -> "cmd8")
     \/ WaitFails("ready") /\ Fail

-----------------------------------------------------------------------------
(* emmc_read_sector and emmc_read_ext_csd                                  *)

\* Mutant: a command that failed is sent again, for ever.
ReadCommand_Retries(cmd) ==
  /\ pc = cmd
  /\ \/ Answered({"tran"}) /\ BecomesCard("data", cardPart) /\ Goto("rx")
     \/ Ignored(cmd, {"tran"}) /\ Goto("ready")

\* CMD17 and CMD8 start a transfer from the card.
ReadCommand(cmd) ==
  /\ pc = cmd
  /\ \/ Answered({"tran"}) /\ BecomesCard("data", cardPart) /\ Goto("rx")
     \/ Executes(cmd, {"tran"}) /\ BecomesCard("data", cardPart) /\ Fail
     \/ Ignored(cmd, {"tran"}) /\ Fail

Cmd17 == ReadCommand("cmd17")
Cmd8 == ReadCommand("cmd8")

Addressed == IF op.kind = "ext" THEN ExtCsd ELSE medium[cardPart][Sector]

\* 128 words arrive in the buffer.  The first transfer after a switch or a
\* write may deliver what the host controller still had.  Damaged data is
\* noticed by its CRC, unless the error is raised after the last look at it.
Rx ==
  /\ pc = "rx"
  /\ UNCHANGED <<current_partition, reads, cardState, cardPart, medium, programming>>
  /\ \/ /\ Continue("rxReady")
        /\ \/ buf' = Addressed
           \/ (stale \/ Late("rx")) /\ buf' \in Data
        /\ stale' = FALSE
     \/ /\ Error("rx")
        /\ buf' \in Data
        /\ Return(FALSE)
        /\ UNCHANGED stale

\* Mutant: a sector is read once.
RxReady_ReadsOnce ==
  /\ pc = "rxReady"
  /\ WaitOk /\ reads' = reads + 1 /\ UNCHANGED <<current_partition, buf>>
  /\ \/ op.kind = "ext" /\ Continue("cmd0")
     \/ op.kind # "ext" /\ Return(TRUE)

\* After each transfer the driver waits for the card.  A sector is read
\* twice; EXT_CSD too, with emmc_init after each; the self-test goes on to
\* its second sector through emmc_switch_partition.
RxReady ==
  /\ pc = "rxReady"
  /\ \/ /\ WaitOk
        /\ reads' = reads + 1
        /\ UNCHANGED <<current_partition, buf>>
        /\ \/ op.kind = "ext" /\ Continue("cmd0")
           \/ op.kind # "ext" /\ reads \in {0, 2} /\ Continue("cmd17")
           \/ op.kind = "verify" /\ reads = 1 /\ Continue("switch")
           \/ op.kind = "read" /\ reads = 1 /\ Return(TRUE)
           \/ op.kind = "verify" /\ reads = 3 /\ Return(TRUE)
     \/ WaitFails("rxReady") /\ Fail

-----------------------------------------------------------------------------
(* emmc_write_sector                                                       *)

\* The error bits of the response to CMD24 are looked at.
Cmd24 ==
  /\ pc = "cmd24"
  /\ \/ Answered({"tran"}) /\ BecomesCard("rcv", cardPart) /\ Goto("tx")
     \/ Answered({"tran"}) /\ Refuse("cmd24") /\ Fail /\ UNCHANGED card
     \/ Executes("cmd24", {"tran"}) /\ BecomesCard("rcv", cardPart) /\ Fail
     \/ Ignored("cmd24", {"tran"}) /\ Fail

\* The card takes the block and programs it.
Programs ==
  /\ cardState' = "prg"
  /\ stale' = TRUE
  /\ medium' = [medium EXCEPT ![cardPart][Sector] = buf]
  /\ programming' = {<<cardPart, Sector>>}
  /\ UNCHANGED cardPart

\* The card drops the block (CRC error) or still waits for the rest of it.
Drops == \E st \in {"tran", "rcv"} : BecomesCard(st, cardPart)

\* Mutant: a CRC error ends the wait like XFER_COMPL.
Tx_ErrorEnds ==
  /\ pc = "tx"
  /\ Programs \/ (Error("tx") /\ Drops)
  /\ Goto("txReady")

\* FIFO loop and wait for XFER_COMPL.  Outcomes: the end of the transfer is
\* seen; an error is seen; XFER_COMPL is seen by the very last poll, which
\* the code takes for a timeout; no poll sees anything, which it takes for
\* success (the counter has wrapped).
Tx ==
  /\ pc = "tx"
  /\ \/ Programs /\ Goto("txReady")
     \/ Programs /\ Late("tx") /\ Fail
     \/ Error("tx") /\ Drops /\ Fail
     \/ Late("tx") /\ Drops /\ Goto("txReady")

TxReady ==
  /\ pc = "txReady"
  /\ \/ WaitOk /\ UNCHANGED <<current_partition, reads, buf>> /\ Return(TRUE)
     \/ WaitFails("txReady") /\ Fail

-----------------------------------------------------------------------------

\* The agent dies and is loaded again (command 0x3000, unplugging).  A warm
\* reset leaves the card as it is, and it goes on programming; a cold one takes
\* its power.
Restart ==
  /\ pc' = "cmd0"
  /\ op' = BootOp
  /\ current_partition' = NoPart
  /\ reads' = 0
  /\ buf' = Zero
  /\ reply' = NoReply
  /\ \/ <<"restart", "warm">> \in Faults /\ UNCHANGED card
     \/ /\ <<"restart", "cold">> \in Faults
        /\ cardState' = "idle" /\ cardPart' = User
        /\ stale' = TRUE /\ Interrupted

Init ==
  /\ pc = "cmd0"
  /\ op = BootOp
  /\ current_partition = NoPart
  /\ reads = 0
  /\ buf = Zero
  /\ reply = NoReply
  /\ \/ cardState = "idle" /\ cardPart = User
     \/ cardState = "tran" /\ cardPart \in Regions
  /\ stale \in BOOLEAN
  /\ medium \in [Regions -> [Sectors -> Data]]
  /\ programming = {}

DriverStep ==
  \/ Cmd0 \/ Cmd1 \/ Cmd2 \/ Cmd3 \/ Cmd7 \/ InitReady
  \/ SwitchCached \/ SwitchBadRegion \/ SwitchPartition \/ SwitchReady
  \/ Ready \/ Cmd17 \/ Cmd8 \/ Rx \/ RxReady
  \/ Cmd24 \/ Tx \/ TxReady

Next ==
  \/ \E o \in Commands : Loop(o)
  \/ DriverStep
  \/ CardFinish
  \/ Restart

Spec == Init /\ [][Next]_vars

\* The agent is a single loop that never yields, and the card finishes what
\* it has begun.  Nothing obliges the host to send a command.
Fairness == WF_vars(DriverStep) /\ WF_vars(CardFinish)
FairSpec == Spec /\ Fairness

-----------------------------------------------------------------------------
(* Correctness                                                             *)

\* The faults after which driver and card may disagree on the partition: they
\* strike where the card has switched and the driver does not know, or the
\* other way round.
PartitionFaults ==
  {<<"lost", "cmd6">>, <<"busy", "switchReady">>, <<"refuse", "cmd6">>,
   <<"lost", "cmd7">>, <<"busy", "initReady">>}

\* Faults the driver takes for success, or success it takes for a fault.
LateFaults == {<<"late", "rx">>, <<"late", "tx">>}

\* Every data transfer of emmc_read_sector and emmc_write_sector goes to the
\* region the caller named, although CMD6 is skipped on a cache hit.
RightRegion ==
  pc \in {"rx", "tx"} /\ op.kind # "ext" => cardPart = Region

\* Whatever went wrong before, a value that emmc_init or
\* emmc_switch_partition puts in current_partition is where the card is.
NewCacheIsTrue ==
  [][current_partition' \in Regions \ {current_partition}
       => cardPart' = current_partition']_vars

\* The data sent for command 0x1001 is what the addressed sector holds.
ReadIsCurrent ==
  pc = "loop" /\ op.kind = "read" /\ reply.tag = "data"
    => op.region \in Regions /\ reply.data = medium[op.region][op.sector]

\* When 0xD0D0D0D0 is sent for command 0x1002, the addressed sector holds
\* the block of the request.
AckedIsStored ==
  pc = "loop" /\ op.kind = "write" /\ reply = Ack
    => op.region \in Regions /\ medium[op.region][op.sector] = op.data

\* What is sent for command 0x1003 is EXT_CSD, or all zeros after an error
\* (the comment in stage2.c).
ExtCsdOrZeros ==
  pc = "loop" /\ op.kind = "ext" => reply.data \in {ExtCsd, Zero}

\* The driver and the card together behave as a store of sectors that
\* executes one request at a time.
BS == INSTANCE BlockStore WITH
        store <- medium, unsettled <- programming, req <- op, busy <- (pc # "loop"),
        Requests <- Commands, BootRequest <- BootOp
ImplementsBlockStore == BS!Spec

\* Every command ends: whatever fails, the agent comes back to its loop, unless
\* it is restarted for ever.
CommandEnds == <>[][~Restart]_vars => ((pc # "loop") ~> (pc = "loop"))
=============================================================================
