----------------------------- MODULE SdcCommand -----------------------------
(***************************************************************************)
(* The word msdc_command_start writes to SDC_CMD, by its fields, and the   *)
(* commands mmc.c of the original payload sends.  The controller must be   *)
(* told the exact response and the data phase, and the numbers of eMMC and *)
(* SD commands collide: 6, 8 and 13 are data commands of an SD card.       *)
(***************************************************************************)
EXTENDS Naturals

CONSTANT blksz  \* host->blksz (0x200)

Command(opcode, resp, type, arg) == [opcode |-> opcode, resp |-> resp, type |-> type, arg |-> arg]

\* The commands of mmc.c; an argument counts only in CMD7, whose card is 1.
SentCommands == {
  Command(0, "NONE", "BC", 0), Command(1, "R3", "BCR", 0), Command(2, "R2", "BCR", 0),
  Command(3, "R1", "AC", 1), Command(6, "R1B", "AC", 1), Command(7, "R1", "AC", 1),
  Command(13, "R1", "AC", 1), Command(17, "R1", "ADTC", 0), Command(18, "R1", "ADTC", 0),
  Command(23, "R1", "AC", 1), Command(24, "R1", "ADTC", 0), Command(25, "R1", "ADTC", 0)}

ResponseType(cmd) ==
  CASE cmd.opcode \in {1, 41} -> "R3"
    [] cmd.opcode = 3 -> IF cmd.type = "BCR" THEN "R6" ELSE "R1"
    [] cmd.opcode = 39 -> "R4"
    [] cmd.opcode = 40 -> "R5"
    [] cmd.opcode = 7 -> IF cmd.arg # 0 THEN "R1B" ELSE "NONE"
    [] cmd.opcode \in {8, 13, 52, 53} -> "R1"
    [] OTHER -> cmd.resp

msdc_rsp == [NONE |-> 0, R1 |-> 1, R2 |-> 2, R3 |-> 3, R4 |-> 4, R5 |-> 1, R6 |-> 1,
             R7 |-> 1, R1B |-> 7]

\* 1 for a single block, 2 for several, 0 for no data.
DataType(cmd) ==
  CASE cmd.opcode \in {18, 25} -> 2
    [] cmd.opcode \in {17, 19, 22, 24, 51} -> 1
    [] cmd.opcode \in {6, 8, 13} /\ cmd.type = "ADTC" -> 1
    [] OTHER -> 0

\* rawcmd, without auto commands and SDIO.
RawCommand(cmd) ==
  [opcode |-> cmd.opcode, rsptyp |-> msdc_rsp[ResponseType(cmd)], dtype |-> DataType(cmd),
   rw |-> IF cmd.opcode \in {24, 25} THEN "write" ELSE "read",
   stop |-> cmd.opcode = 12, vol_swt |-> cmd.opcode = 11,
   blklen |-> IF cmd.opcode = 12 THEN 0 ELSE blksz]

-----------------------------------------------------------------------------

\* What eMMC cards do for these commands (JESD84): how they respond and whether
\* blocks come or go.
CardResponds(opcode) ==
  CASE opcode = 0 -> {0} [] opcode = 1 -> {3} [] opcode = 2 -> {2}
    [] opcode \in {6, 7} -> {1, 7} [] OTHER -> {1}

\* The controller waits for the response the card sends and for data only where
\* blocks move, in their direction.
WordFits(cmd) ==
  LET w == RawCommand(cmd)
  IN /\ w.rsptyp \in CardResponds(cmd.opcode)
     /\ w.dtype # 0 <=> cmd.type = "ADTC"
     /\ w.dtype = 2 <=> cmd.opcode \in {18, 25}
     /\ w.dtype # 0 => w.blklen = blksz /\ (w.rw = "write" <=> cmd.opcode \in {24, 25})
     /\ ~w.stop /\ ~w.vol_swt
=============================================================================
