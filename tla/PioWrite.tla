------------------------------ MODULE PioWrite ------------------------------
(***************************************************************************)
(* The data phase of emmc_write_sector (stage2_static/mt8113_emmc.c): after*)
(* CMD24 the driver fills the transmit FIFO by polling, waits for          *)
(* XFER_COMPL by polling, and then for the card to leave the programming   *)
(* state, while the host controller empties the FIFO onto the bus and the  *)
(* card takes or drops the block.  timeout_val is a uint32_t that the loop *)
(* conditions decrement also when it is zero.                              *)
(*                                                                         *)
(* EmmcDriver has this phase as the outcomes of its actions Tx and TxReady;*)
(* the fault <<"late", "tx">> is late.                                     *)
(***************************************************************************)
EXTENDS Naturals

CONSTANTS
  Words,        \* words in a block (128)
  FifoWords,    \* words the FIFO holds (32)
  FifoTimeout,  \* polls of the FIFO loop (100000)
  XferTimeout,  \* polls of the XFER_COMPL loop (1000000)
  Modulus       \* of timeout_val (2^32)

\* What is assumed of them.
WriteConstants ==
  /\ Words \in Nat \ {0} /\ FifoWords \in Nat \ {0}
  /\ XferTimeout \in Nat \ {0, 1} /\ FifoTimeout \in Nat \ {0}
  /\ Modulus \in Nat /\ XferTimeout < Modulus /\ FifoTimeout < Modulus

VARIABLES
  pc, timeout_val, words_written,
  ret,          \* what emmc_write_sector returns
  tx, sent,     \* words in the FIFO, words the card has received
  int,          \* bits of MSDC_INT that are up
  cardState, programmed,
  late          \* whether this controller ends transfers after the polls, too

vars == <<pc, timeout_val, words_written, ret, tx, sent, int, cardState, programmed, late>>
driver == <<pc, timeout_val, words_written, ret>>

Errors == {"DATCRCERR", "DATTMO"}

TypeOK ==
  /\ pc \in {"cmd24", "fill", "filled", "xfer", "check", "ready"}
  /\ timeout_val \in 0..(Modulus - 1)
  /\ words_written \in 0..Words
  /\ ret \in {"none", "ok", "error"}
  /\ tx \in 0..FifoWords
  /\ sent \in 0..Words
  /\ int \in SUBSET (Errors \cup {"XFER_COMPL"})
  /\ cardState \in {"tran", "rcv", "silent", "prg"}
  /\ programmed \in BOOLEAN /\ late \in BOOLEAN

\* timeout_val--, evaluated whether or not the loop goes on, modulo Modulus.
Decrement == timeout_val' = IF timeout_val = 0 THEN Modulus - 1 ELSE timeout_val - 1

-----------------------------------------------------------------------------
(* The driver                                                              *)

\* FIFO and interrupts cleared, CMD24 accepted by the card.
Cmd24 ==
  /\ pc = "cmd24" /\ cardState = "tran"
  /\ pc' = "fill" /\ timeout_val' = FifoTimeout /\ words_written' = 0
  /\ ret' = "none" /\ tx' = 0 /\ sent' = 0 /\ int' = {}
  /\ cardState' = "rcv" /\ programmed' = FALSE
  /\ UNCHANGED late

Fail == pc' = "cmd24" /\ ret' = "error"

\* Mutant: the driver does not look whether the FIFO has room.
Fill_NoRoomCheck ==
  /\ pc = "fill" /\ Decrement
  /\ IF timeout_val > 0 /\ words_written < Words
     THEN tx' = tx + 1 /\ words_written' = words_written + 1 /\ UNCHANGED pc
     ELSE pc' = "filled" /\ UNCHANGED <<tx, words_written>>
  /\ UNCHANGED <<ret, sent, int, cardState, programmed, late>>

Fill ==
  /\ pc = "fill" /\ Decrement
  /\ IF timeout_val > 0 /\ words_written < Words
     THEN /\ IF tx < FifoWords
             THEN tx' = tx + 1 /\ words_written' = words_written + 1
             ELSE UNCHANGED <<tx, words_written>>
          /\ UNCHANGED pc
     ELSE pc' = "filled" /\ UNCHANGED <<tx, words_written>>
  /\ UNCHANGED <<ret, sent, int, cardState, programmed, late>>

Filled ==
  /\ pc = "filled"
  /\ IF words_written < Words
     THEN Fail /\ UNCHANGED timeout_val
     ELSE pc' = "xfer" /\ timeout_val' = XferTimeout /\ UNCHANGED ret
  /\ UNCHANGED <<words_written, tx, sent, int, cardState, programmed, late>>

\* Mutant: any bit of MSDC_INT ends the wait.
Xfer_AnyBit ==
  /\ pc = "xfer"
  /\ late \/ timeout_val > 2 \/ int # {}
  /\ Decrement
  /\ pc' = IF timeout_val = 0 \/ int # {} THEN "check" ELSE "xfer"
  /\ UNCHANGED <<ret, words_written, tx, sent, int, cardState, programmed, late>>

\* One evaluation of the loop condition and, if it holds, of the body.  When
\* transfers are not late, MSDC_INT is up before the last poll but one.
Xfer ==
  /\ pc = "xfer"
  /\ late \/ timeout_val > 2 \/ int # {}
  /\ Decrement
  /\ IF timeout_val = 0 \/ "XFER_COMPL" \in int THEN pc' = "check" /\ UNCHANGED ret
     ELSE IF int \cap Errors # {} THEN Fail
     ELSE UNCHANGED <<pc, ret>>
  /\ UNCHANGED <<words_written, tx, sent, int, cardState, programmed, late>>

\* Mutant: the test of the limit is off by one.
Check_OffByOne ==
  /\ pc = "check"
  /\ IF timeout_val <= 1 THEN Fail /\ UNCHANGED int
                         ELSE pc' = "ready" /\ int' = {} /\ UNCHANGED ret
  /\ UNCHANGED <<timeout_val, words_written, tx, sent, cardState, programmed, late>>

\* if (timeout_val == 0), then MSDC_INT = MSDC_INT.
Check ==
  /\ pc = "check"
  /\ IF timeout_val = 0 THEN Fail /\ UNCHANGED int
                        ELSE pc' = "ready" /\ int' = {} /\ UNCHANGED ret
  /\ UNCHANGED <<timeout_val, words_written, tx, sent, cardState, programmed, late>>

\* msdc_wait_card_ready; the commands it sends clear MSDC_INT.
Ready ==
  /\ pc = "ready"
  /\ \/ cardState = "tran" /\ pc' = "cmd24" /\ ret' = "ok"
     \/ cardState # "tran" /\ Fail
  /\ int' = {}
  /\ UNCHANGED <<timeout_val, words_written, tx, sent, cardState, programmed, late>>

-----------------------------------------------------------------------------
(* The controller and the card (external)                                  *)

Shift ==
  /\ cardState = "rcv" /\ tx > 0
  /\ tx' = tx - 1 /\ sent' = sent + 1
  /\ UNCHANGED <<driver, int, cardState, programmed, late>>

\* The card answers the complete block: it programs it, or drops it.
Accept ==
  /\ cardState = "rcv" /\ sent = Words
  /\ cardState' = "prg" /\ programmed' = TRUE
  /\ UNCHANGED <<driver, tx, sent, int, late>>

Reject ==
  /\ cardState = "rcv" /\ sent = Words
  /\ cardState' = "tran" /\ int' = int \cup {"DATCRCERR"}
  /\ UNCHANGED <<driver, tx, sent, programmed, late>>

\* The card is silent.
DataTimeout ==
  /\ cardState = "rcv" /\ sent = Words
  /\ cardState' = "silent" /\ int' = int \cup {"DATTMO"}
  /\ UNCHANGED <<driver, tx, sent, programmed, late>>

Finish ==
  /\ cardState = "prg"
  /\ cardState' = "tran" /\ int' = int \cup {"XFER_COMPL"}
  /\ UNCHANGED <<driver, tx, sent, programmed, late>>

\* The host runs emmc_init, or the next command finds the card ready again.
Recover ==
  /\ pc = "cmd24" /\ cardState \in {"rcv", "silent"}
  /\ cardState' = "tran"
  /\ UNCHANGED <<driver, tx, sent, int, programmed, late>>

Init ==
  /\ pc = "cmd24" /\ timeout_val = 0 /\ words_written = 0 /\ ret = "none"
  /\ tx = 0 /\ sent = 0 /\ int = {}
  /\ cardState = "tran" /\ programmed = FALSE
  /\ late \in BOOLEAN

Next ==
  \/ Cmd24 \/ Fill \/ Filled \/ Xfer \/ Check \/ Ready
  \/ Shift \/ Accept \/ Reject \/ DataTimeout \/ Finish \/ Recover

Spec == Init /\ [][Next]_vars

\* The driver never yields.  Nothing is assumed of the controller or the card.
Fairness == WF_vars(Fill \/ Filled \/ Xfer \/ Check \/ Ready)

-----------------------------------------------------------------------------
(* Correctness                                                             *)

\* A write reported as done is on the card when the loop was left because of
\* XFER_COMPL, as it is unless transfers end late: the end of a transfer is never
\* taken from the one before.
OkIsProgrammed == ret = "ok" /\ (~late \/ timeout_val < XferTimeout) => programmed

\* Unless transfers end late, a write reported as failed is not on the card.
ErrorIsNotProgrammed == ~late /\ ret = "error" => ~programmed

\* What the result of emmc_write_sector says of the card.
WriteTells == OkIsProgrammed /\ ErrorIsNotProgrammed

\* "Write timeout waiting for XFER_COMPL" (mt8113_emmc.c:444-445): when every
\* poll has gone by without the end of the transfer, the write is not carried
\* on as if it had been seen.
TimeoutIsReported == pc = "ready" => timeout_val < XferTimeout

\* emmc_write_sector returns, whatever the card does.  (A timely controller is
\* one the last polls of Xfer wait for: nothing is said of it here.)
WriteEnds == (late /\ pc # "cmd24") ~> (pc = "cmd24")
=============================================================================
