------------------------------ MODULE OrigMsdc ------------------------------
(***************************************************************************)
(* The commands and data phases of the original payload's controller       *)
(* driver (stage2_static_orig/drivers/sd.c), poll by poll.  A transfer is  *)
(* a command and one block by way of the FIFO.  Three things make it       *)
(* delicate.  The driver returns as soon as the last word is in or out of  *)
(* the FIFO and never waits for the end of the data phase: an error of the *)
(* phase is found by the next transfer, in bits nobody has cleared.  A     *)
(* read that sees an error half-way leaves the words of the FIFO there.    *)
(* And only some of the error paths reset the controller.                  *)
(***************************************************************************)
EXTENDS Naturals

CONSTANTS
  Words,      \* words in a block (0x200 bytes, 128)
  FifoWords,  \* MSDC_FIFO_SZ (32 words)
  ThdWords    \* MSDC_FIFO_THD (16 words)

\* What is assumed of them.
MsdcConstants ==
  /\ Words \in Nat \ {0} /\ ThdWords \in Nat \ {0} /\ FifoWords \in Nat
  /\ ThdWords <= FifoWords

VARIABLES
  pc,
  opcode,       \* of the command at hand or of the last one
  left,         \* words of the block still to move between buffer and FIFO
  ret,          \* what the last call returned
  rx, stale,    \* words to be read in the FIFO; those of an earlier block
  tx,           \* words to be sent in the FIFO
  int,          \* bits of MSDC_INT that are up
  phase, moved, \* the data phase on the bus and the words it has moved
  hurt, owed,   \* history: a phase ended in an error; so did one of an earlier call
  taken,        \* history: words of an earlier block among those read
  brokeOff      \* history: a read has stopped half-way since the last reset

driver == <<pc, opcode, left, ret>>
fifo == <<rx, stale, tx>>
bus == <<phase, moved>>
history == <<hurt, owed, taken, brokeOff>>
vars == <<driver, fifo, int, bus, history>>

\* SWITCH, SEND_STATUS, READ_SINGLE and _MULTIPLE_BLOCK, WRITE_BLOCK and _MULTIPLE_BLOCK
Opcodes == {6, 13, 17, 18, 24, 25}

\* The direction of the data phase that rawcmd asks for.
DataOf(op) == IF op \in {17, 18} THEN "read" ELSE IF op \in {24, 25} THEN "write" ELSE "none"

DataErrors == {"DATTMO", "DATCRCERR"}
CommandBits == {"CMDRDY", "RSPCRCERR", "CMDTMO"}

TypeOK ==
  /\ pc \in {"idle", "start", "polling", "look", "take", "left", "fill"}
  /\ opcode \in Opcodes /\ left \in 0..Words /\ ret \in {"none", "ok", "error"}
  /\ rx \in 0..FifoWords /\ stale \in 0..rx /\ tx \in 0..FifoWords
  /\ int \in SUBSET (DataErrors \cup CommandBits \cup {"XFER_COMPL"})
  /\ phase \in {"none", "read", "write"} /\ moved \in 0..Words
  /\ hurt \in BOOLEAN /\ owed \in BOOLEAN
  /\ taken \in 0..Words /\ brokeOff \in BOOLEAN

Least(a, b) == IF a < b THEN a ELSE b

-----------------------------------------------------------------------------
(* The driver                                                              *)

Ok == pc' = "idle" /\ ret' = "ok" /\ UNCHANGED <<hurt, owed>>

\* An error return tells the caller of every error there has been.
Error == pc' = "idle" /\ ret' = "error" /\ hurt' = FALSE /\ owed' = FALSE

\* Mutant: the FIFOs are not cleared with the controller.
ResetHw_FifoKept ==
  /\ int' = {} /\ phase' = "none" /\ moved' = 0 /\ brokeOff' = FALSE
  /\ UNCHANGED fifo

\* msdc_reset_hw: the controller, the FIFOs and the interrupts.
ResetHw ==
  /\ rx' = 0 /\ stale' = 0 /\ tx' = 0 /\ int' = {}
  /\ phase' = "none" /\ moved' = 0 /\ brokeOff' = FALSE

\* mmc_send_status is only called from __mmc_switch.
Call(op) ==
  /\ pc = "idle" /\ (op = 13 => opcode \in {6, 13})
  /\ pc' = "start" /\ opcode' = op /\ ret' = "none"
  /\ UNCHANGED <<left, fifo, int, bus, history>>

\* sdc_send_cmd, when no data phase keeps the controller busy.
Start ==
  /\ pc = "start" /\ (opcode = 13 \/ phase = "none")
  /\ pc' = "polling"
  /\ owed' = (owed \/ hurt) /\ hurt' = FALSE /\ taken' = 0
  /\ UNCHANGED <<opcode, left, ret, fifo, int, bus, brokeOff>>

\* The first half of the body of msdc_command_resp_polling.
Polling ==
  /\ pc = "polling" /\ int \cap CommandBits # {}
  /\ \/ /\ "CMDRDY" \in int /\ int' = int \ CommandBits
        /\ IF DataOf(opcode) = "none" THEN Ok /\ UNCHANGED left
           ELSE pc' = "look" /\ left' = Words /\ UNCHANGED <<ret, hurt, owed>>
        /\ UNCHANGED <<fifo, bus, brokeOff>>
     \/ "CMDRDY" \notin int /\ Error /\ ResetHw /\ UNCHANGED left
  /\ UNCHANGED <<opcode, taken>>

\* Mutant: what is up before the transfer does not concern it.
Look_Clears ==
  /\ pc = "look" /\ int' = {}
  /\ pc' = IF DataOf(opcode) = "read" THEN "take" ELSE "fill"
  /\ UNCHANGED <<opcode, left, ret, fifo, bus, history>>

\* The look at MSDC_INT before the first word.
Look ==
  /\ pc = "look"
  /\ \/ int \cap DataErrors # {} /\ Error /\ ResetHw
     \/ /\ int \cap DataErrors = {} /\ int' = int \ {"XFER_COMPL"}
        /\ pc' = IF DataOf(opcode) = "read" THEN "take" ELSE "fill"
        /\ UNCHANGED <<ret, fifo, bus, hurt, owed, brokeOff>>
  /\ UNCHANGED <<opcode, left, taken>>

\* Words from the FIFO: a threshold's worth or what is left.
Take ==
  /\ pc = "take"
  /\ LET n == Least(left, ThdWords)
     IN \/ /\ rx >= n
           /\ left' = left - n /\ rx' = rx - n /\ stale' = stale - Least(stale, n)
           /\ taken' = taken + Least(stale, n)
           /\ IF left = n THEN Ok ELSE pc' = "left" /\ UNCHANGED <<ret, hurt, owed>>
        \/ rx < n /\ pc' = "left" /\ UNCHANGED <<left, rx, stale, taken, ret, hurt, owed>>
  /\ UNCHANGED <<opcode, tx, int, bus, brokeOff>>

\* Mutant: only DATCRCERR ends the loop.
Left_CrcOnly ==
  /\ pc = "left"
  /\ \/ /\ "DATCRCERR" \in int /\ Error
        /\ int' = {} /\ stale' = rx /\ brokeOff' = TRUE
     \/ /\ "DATCRCERR" \notin int /\ pc' = "take"
        /\ UNCHANGED <<ret, stale, int, hurt, owed, brokeOff>>
  /\ UNCHANGED <<opcode, left, rx, tx, bus, taken>>

\* The look at MSDC_INT while words are left: no reset here.
Left ==
  /\ pc = "left"
  /\ \/ /\ int \cap DataErrors # {} /\ Error
        /\ int' = {} /\ stale' = rx /\ brokeOff' = TRUE
     \/ /\ int \cap DataErrors = {} /\ pc' = "take"
        /\ UNCHANGED <<ret, stale, int, hurt, owed, brokeOff>>
  /\ UNCHANGED <<opcode, left, rx, tx, bus, taken>>

\* Words to the FIFO, whenever it is empty.
Fill ==
  /\ pc = "fill" /\ tx = 0
  /\ LET n == Least(left, FifoWords)
     IN /\ tx' = n /\ left' = left - n
        /\ IF left = n THEN Ok ELSE UNCHANGED <<pc, ret, hurt, owed>>
  /\ UNCHANGED <<opcode, rx, stale, int, bus, taken, brokeOff>>

Driver == Start \/ Polling \/ Look \/ Take \/ Left \/ Fill

-----------------------------------------------------------------------------
(* The controller and the card (external)                                  *)

\* The card's response, its absence or a damaged one; the data phase of an
\* accepted command begins.
Respond(bit) ==
  /\ pc = "polling" /\ int \cap CommandBits = {}
  /\ int' = int \cup {bit}
  /\ IF bit # "CMDTMO" /\ DataOf(opcode) # "none"
     THEN phase' = DataOf(opcode) /\ moved' = 0 ELSE UNCHANGED bus
  /\ UNCHANGED <<driver, fifo, history>>

\* A word on the bus.  A full or empty FIFO stops the clock of the card.
Move ==
  /\ moved < Words /\ moved' = moved + 1
  /\ \/ phase = "read" /\ rx < FifoWords /\ rx' = rx + 1 /\ UNCHANGED tx
     \/ phase = "write" /\ tx > 0 /\ tx' = tx - 1 /\ UNCHANGED rx
  /\ UNCHANGED <<driver, stale, int, phase, history>>

\* The end of a data phase: the block is fine, damaged, or (a read's at any
\* time) the card is silent.
End(bit) ==
  /\ phase # "none" /\ (moved = Words \/ (phase = "read" /\ bit = "DATTMO"))
  /\ int' = int \cup {bit} /\ phase' = "none" /\ moved' = 0
  /\ hurt' = (hurt \/ bit \in DataErrors)
  /\ UNCHANGED <<driver, fifo, owed, taken, brokeOff>>

Controller ==
  \/ \E bit \in CommandBits : Respond(bit)
  \/ Move
  \/ \E bit \in DataErrors \cup {"XFER_COMPL"} : End(bit)

Init ==
  /\ pc = "idle" /\ opcode = 17 /\ left = 0 /\ ret = "none"
  /\ rx = 0 /\ stale = 0 /\ tx = 0 /\ int = {} /\ phase = "none" /\ moved = 0
  /\ hurt = FALSE /\ owed = FALSE /\ taken = 0 /\ brokeOff = FALSE

Next == (\E op \in Opcodes : Call(op)) \/ Driver \/ Controller

Spec == Init /\ [][Next]_vars

\* The driver never yields; the controller answers and ends its data phases.
Fairness == WF_vars(Driver) /\ WF_vars(Controller)

-----------------------------------------------------------------------------
(* Correctness                                                             *)

TransferOk == pc = "idle" /\ ret = "ok" /\ DataOf(opcode) # "none"

\* However late the error of a data phase comes, no transfer after it succeeds
\* before a call has failed.
NoSilentDamage == TransferOk => ~owed

\* A block reported as read holds words of an earlier one only after a read
\* has broken off, which leaves them in the FIFO until the next reset.
ReadIsOwnBlock == TransferOk /\ ~brokeOff => taken = 0

\* Every command and transfer ends: the polls have no limit, so they must not
\* wait for what does not come.
TransfersEnd == (pc # "idle") ~> (pc = "idle")
=============================================================================
