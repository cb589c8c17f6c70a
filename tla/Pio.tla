-------------------------------- MODULE Pio ---------------------------------
(***************************************************************************)
(* The three data phases side by side: the writes and the reads of the     *)
(* new payload (PioWrite, PioRead) and the transfers of the original one   *)
(* (OrigMsdc).  A behaviour is one of one machine; the others do not move. *)
(***************************************************************************)
EXTENDS Naturals

CONSTANTS Words, FifoWords, ThdWords, FifoTimeout, XferTimeout, Timeout, Modulus

VARIABLES
  which,
  w_pc, w_timeout, words_written, w_ret, w_tx, sent, w_int, cardState, programmed, late,
  r_pc, r_timeout, fifo_count, words_read, r_ret, r_rx, arrived, r_int, damaged, end,
  m_pc, opcode, left, m_ret, m_rx, stale, m_tx, m_int, phase, moved, hurt, owed, taken, brokeOff

W == INSTANCE PioWrite WITH pc <- w_pc, timeout_val <- w_timeout, ret <- w_ret,
                            tx <- w_tx, int <- w_int
R == INSTANCE PioRead WITH pc <- r_pc, timeout_val <- r_timeout, ret <- r_ret,
                           rx <- r_rx, int <- r_int
M == INSTANCE OrigMsdc WITH pc <- m_pc, ret <- m_ret, rx <- m_rx, tx <- m_tx, int <- m_int

ASSUME PioAssumption == W!WriteConstants /\ R!ReadConstants /\ M!MsdcConstants

wvars == <<w_pc, w_timeout, words_written, w_ret, w_tx, sent, w_int, cardState,
           programmed, late>>
rvars == <<r_pc, r_timeout, fifo_count, words_read, r_ret, r_rx, arrived, r_int,
           damaged, end>>
mvars == <<m_pc, opcode, left, m_ret, m_rx, stale, m_tx, m_int, phase, moved, hurt,
           owed, taken, brokeOff>>
vars == <<which, wvars, rvars, mvars>>

Init ==
  /\ W!Init /\ R!Init /\ M!Init
  /\ \/ which = "write" /\ end = "any"
     \/ which = "read" /\ ~late
     \/ which = "orig" /\ ~late /\ end = "any"

Next ==
  \/ which = "write" /\ W!Next /\ UNCHANGED <<which, rvars, mvars>>
  \/ which = "read" /\ R!Next /\ UNCHANGED <<which, wvars, mvars>>
  \/ which = "orig" /\ M!Next /\ UNCHANGED <<which, wvars, rvars>>

Spec == Init /\ [][Next]_vars /\ W!Fairness /\ R!Fairness /\ M!Fairness

-----------------------------------------------------------------------------

\* Counters, FIFO levels and interrupt bits stay in their ranges: no word is put
\* in a full FIFO or taken from an empty one.
TypeOK == W!TypeOK /\ R!TypeOK /\ M!TypeOK

\* emmc_write_sector: a write reported as done is on the card, and unless transfers
\* end late, one reported as failed is not.
WriteTells == W!WriteTells

\* emmc_read_sector: a block reported as read was not damaged, and an undamaged
\* block is reported as failed only for slowness.
ReadTells == R!ReadTells

\* The original driver: damage is reported before another transfer succeeds.
NoSilentDamage == M!NoSilentDamage

\* The original driver: a block read has words of its own only.
ReadIsOwnBlock == M!ReadIsOwnBlock

\* Every transfer of both payloads returns.
TransfersEnd == W!WriteEnds /\ R!ReadEnds /\ M!TransfersEnd
=============================================================================
