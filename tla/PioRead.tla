------------------------------- MODULE PioRead -------------------------------
(***************************************************************************)
(* The data phase of emmc_read_sector and emmc_read_ext_csd                *)
(* (stage2_static/mt8113_emmc.c): after CMD17 or CMD8 the driver empties   *)
(* the receive FIFO by polling, word by word, until it has a block or sees *)
(* XFER_COMPL, and then looks once at the error bits, while the controller *)
(* fills the FIFO and raises XFER_COMPL or an error at the end.            *)
(*                                                                         *)
(* When the controller raises the end of a transfer relative to its last   *)
(* word is not known from the code: it is the variable end, which no step  *)
(* changes.                                                                *)
(*   "with_last_word"  together with the last word's arrival in the FIFO   *)
(*   "after_drain"     after the driver has taken the last word            *)
(*   "any"             at any time after the last word                     *)
(***************************************************************************)
EXTENDS Naturals

CONSTANTS
  Words,     \* words in a block (128)
  FifoWords, \* words the FIFO holds (32)
  Timeout,   \* polls of each loop (100000)
  Modulus    \* of timeout_val (2^32)

\* What is assumed of them.
ReadConstants ==
  /\ Words \in Nat \ {0} /\ FifoWords \in Nat \ {0}
  /\ Timeout \in Nat \ {0} /\ Modulus \in Nat /\ Timeout < Modulus

VARIABLES
  pc, timeout_val, fifo_count, words_read,
  ret,              \* what the caller gets
  rx, arrived,      \* words in the FIFO, words that have arrived in it
  int,              \* bits of MSDC_INT that are up
  damaged,          \* the block was damaged on the bus
  end               \* when this controller raises the end of a transfer

driver == <<pc, timeout_val, fifo_count, words_read, ret>>
vars == <<driver, rx, arrived, int, damaged, end>>

Ends == {"with_last_word", "after_drain", "any"}

Errors == {"DATCRCERR", "DATTMO"}

TypeOK ==
  /\ pc \in {"cmd17", "wait", "poll", "take", "look", "status"}
  /\ timeout_val \in 0..(Modulus - 1)
  /\ fifo_count \in 0..FifoWords
  /\ words_read \in 0..Words
  /\ ret \in {"none", "ok", "error"}
  /\ rx \in 0..FifoWords
  /\ arrived \in 0..Words
  /\ int \in SUBSET (Errors \cup {"XFER_COMPL"})
  /\ damaged \in BOOLEAN /\ end \in Ends

\* timeout_val--, evaluated whether or not the loop goes on, modulo Modulus.
Decrement == timeout_val' = IF timeout_val = 0 THEN Modulus - 1 ELSE timeout_val - 1

-----------------------------------------------------------------------------
(* The driver                                                              *)

\* FIFO drained, interrupts cleared, the command accepted by the card.
Cmd17 ==
  /\ pc = "cmd17"
  /\ pc' = "wait" /\ timeout_val' = Timeout /\ fifo_count' = 0
  /\ words_read' = 0 /\ ret' = "none"
  /\ rx' = 0 /\ arrived' = 0 /\ int' = {} /\ damaged' \in BOOLEAN
  /\ UNCHANGED end

\* Wait for data to start arriving, or for any data interrupt.
Wait ==
  /\ pc = "wait"
  /\ IF timeout_val > 0 /\ rx = 0 /\ int = {}
     THEN Decrement /\ UNCHANGED pc
     ELSE pc' = "poll" /\ timeout_val' = Timeout
  /\ UNCHANGED <<fifo_count, words_read, ret, rx, arrived, int, damaged, end>>

\* Mutant: the outer loop is left one word early.
Poll_OneWordShort ==
  /\ pc = "poll" /\ Decrement
  /\ IF timeout_val > 0 /\ words_read < Words - 1
     THEN fifo_count' = rx /\ pc' = "take"
     ELSE pc' = "status" /\ UNCHANGED fifo_count
  /\ UNCHANGED <<words_read, ret, rx, arrived, int, damaged, end>>

\* The condition of the outer loop, and the first look at the FIFO.
Poll ==
  /\ pc = "poll" /\ Decrement
  /\ IF timeout_val > 0 /\ words_read < Words
     THEN fifo_count' = rx /\ pc' = "take"
     ELSE pc' = "status" /\ UNCHANGED fifo_count
  /\ UNCHANGED <<words_read, ret, rx, arrived, int, damaged, end>>

\* The inner loop: a word from RXDATA, and another look at the FIFO.
Take ==
  /\ pc = "take"
  /\ IF fifo_count > 0 /\ words_read < Words
     THEN /\ words_read' = words_read + 1
          /\ rx' = rx - 1 /\ fifo_count' = rx - 1
          /\ UNCHANGED pc
     ELSE pc' = "look" /\ UNCHANGED <<words_read, rx, fifo_count>>
  /\ UNCHANGED <<timeout_val, ret, arrived, int, damaged, end>>

Look ==
  /\ pc = "look"
  /\ pc' = IF "XFER_COMPL" \in int THEN "status" ELSE "poll"
  /\ UNCHANGED <<timeout_val, fifo_count, words_read, ret, rx, arrived, int, damaged, end>>

\* Mutant: the error bits are not looked at.
Status_NoErrors ==
  /\ pc = "status"
  /\ ret' = IF words_read < Words THEN "error" ELSE "ok"
  /\ pc' = "cmd17" /\ int' = {}
  /\ UNCHANGED <<timeout_val, fifo_count, words_read, rx, arrived, damaged, end>>

\* int_status = MSDC_INT, the only look at the error bits.
Status ==
  /\ pc = "status"
  /\ ret' = IF int \cap Errors # {} \/ words_read < Words THEN "error" ELSE "ok"
  /\ pc' = "cmd17" /\ int' = {}
  /\ UNCHANGED <<timeout_val, fifo_count, words_read, rx, arrived, damaged, end>>

-----------------------------------------------------------------------------
(* The controller (external)                                               *)

EndBit == IF damaged THEN "DATCRCERR" ELSE "XFER_COMPL"

\* A full FIFO stops the clock of the card.
Arrive ==
  /\ pc # "cmd17" /\ int = {} /\ arrived < Words /\ rx < FifoWords
  /\ arrived' = arrived + 1 /\ rx' = rx + 1
  /\ int' = IF end = "with_last_word" /\ arrived' = Words THEN {EndBit} ELSE {}
  /\ UNCHANGED <<driver, damaged, end>>

RaiseEnd ==
  /\ pc # "cmd17" /\ int = {} /\ arrived = Words
  /\ end = "any" \/ (end = "after_drain" /\ rx = 0)
  /\ int' = {EndBit}
  /\ UNCHANGED <<driver, rx, arrived, damaged, end>>

\* The card sends nothing, or no more.
DataTimeout ==
  /\ pc # "cmd17" /\ int = {} /\ arrived < Words
  /\ int' = {"DATTMO"}
  /\ damaged' = TRUE
  /\ UNCHANGED <<driver, rx, arrived, end>>

Init ==
  /\ pc = "cmd17" /\ timeout_val = 0 /\ fifo_count = 0 /\ words_read = 0
  /\ ret = "none" /\ rx = 0 /\ arrived = 0 /\ int = {} /\ damaged = FALSE
  /\ end \in Ends

Next ==
  \/ Cmd17 \/ Wait \/ Poll \/ Take \/ Look \/ Status
  \/ Arrive \/ RaiseEnd \/ DataTimeout

Spec == Init /\ [][Next]_vars

\* The driver never yields.
Fairness == WF_vars(Wait \/ Poll \/ Take \/ Look \/ Status)

-----------------------------------------------------------------------------
(* Correctness                                                             *)

\* A block reported as read was not damaged.  This needs the end of a
\* transfer to be raised no later than its last word can be taken.
OkIsUndamaged == end = "with_last_word" /\ ret = "ok" => ~damaged

\* An undamaged block is not reported as a read error, unless the polls of
\* the loop were used up.  This needs the end of a transfer to be raised only
\* when the last word has been taken: the loop is left at XFER_COMPL with the
\* words that came after its last look at the FIFO still in there.
ErrorIsDamagedOrSlow ==
  end = "after_drain" /\ ret = "error" => damaged \/ timeout_val = Modulus - 1

\* What the result of emmc_read_sector says of the block.
ReadTells == OkIsUndamaged /\ ErrorIsDamagedOrSlow

\* The read returns, whatever the controller does.
ReadEnds == (pc # "cmd17") ~> (pc = "cmd17")
=============================================================================
