------------------------------ MODULE PioProofs ------------------------------
(***************************************************************************)
(* The three data phases for blocks, FIFOs, thresholds, limits and widths  *)
(* of the counter of any size: an inductive invariant of each machine, from*)
(* the three the safety properties of Pio, and that the ends of the        *)
(* transfers of the new payload are those EmmcDriver has.                  *)
(***************************************************************************)
EXTENDS Pio, TLAPS

-----------------------------------------------------------------------------
(* The writes of the new payload                                           *)

\* Every word of the driver is in the FIFO or on the card.
WriteCountInv == words_written = sent + w_tx

\* MSDC_INT and the card tell the fate of the block: the end is up for a block that is
\* programmed, an error for one that is not.
WriteCardInv ==
  /\ "XFER_COMPL" \in w_int => programmed /\ cardState = "tran"
  /\ programmed => w_int \cap W!Errors = {} /\ sent = Words
  /\ cardState = "rcv" => ~programmed /\ w_int \cap W!Errors = {}
  /\ cardState = "prg" => programmed
  /\ cardState = "silent" => ~programmed

\* How far the counter may be down in the loop that waits for the end.
WriteLimitInv ==
  /\ w_pc = "xfer" => w_timeout <= XferTimeout /\ (~late => w_timeout >= 2)
  /\ w_pc = "check" /\ ~late => w_timeout >= 1

\* Behind the loop the end has been seen, unless the counter has wrapped.
WriteSeenInv ==
  w_pc \in {"check", "ready"} /\ (~late \/ w_timeout < XferTimeout)
    => programmed /\ cardState = "tran"

\* Where the driver is, and what it has returned.
WriteReturnInv ==
  /\ w_pc # "cmd24" => w_ret = "none"
  /\ w_pc \in {"xfer", "check", "ready"} => words_written = Words
  /\ w_ret = "error" /\ ~late /\ cardState = "rcv" => words_written < Words
  /\ w_pc = "cmd24" /\ cardState = "rcv" => w_ret = "error"

WriteInvariant ==
  W!TypeOK /\ WriteCountInv /\ WriteCardInv /\ WriteLimitInv /\ WriteSeenInv
    /\ WriteReturnInv /\ W!WriteTells

\* The first states satisfy the invariant.
LEMMA WriteInit == ASSUME W!WriteConstants, W!Init PROVE WriteInvariant
<1> USE DEF W!WriteConstants, W!Init
<1>1. W!TypeOK
  <2>1. w_int \in SUBSET (W!Errors \cup {"XFER_COMPL"})
    OBVIOUS
  <2>2. w_timeout \in 0..(Modulus - 1) /\ {words_written, sent} \subseteq 0..Words
          /\ w_tx \in 0..FifoWords
    OBVIOUS
  <2> QED BY <2>1, <2>2 DEF W!TypeOK
<1>2. WriteCountInv /\ WriteCardInv /\ WriteLimitInv /\ WriteSeenInv /\ WriteReturnInv
        /\ W!WriteTells
  BY DEF WriteCountInv, WriteCardInv, WriteLimitInv, WriteSeenInv, WriteReturnInv,
         W!WriteTells, W!OkIsProgrammed, W!ErrorIsNotProgrammed
<1> QED BY <1>1, <1>2 DEF WriteInvariant

\* Types: no word is put in a full FIFO or sent from an empty one.
LEMMA WriteTypeStep == ASSUME W!WriteConstants, WriteInvariant, W!Next PROVE W!TypeOK'
<1> USE DEF W!WriteConstants, WriteInvariant, W!TypeOK, WriteCountInv, W!driver
<1>1. CASE W!Cmd24
  <2>1. w_int' \in SUBSET (W!Errors \cup {"XFER_COMPL"})
    BY <1>1 DEF W!Cmd24
  <2>2. w_timeout' \in 0..(Modulus - 1) /\ {words_written', sent'} \subseteq 0..Words
          /\ w_tx' \in 0..FifoWords
    BY <1>1 DEF W!Cmd24
  <2> QED BY <1>1, <2>1, <2>2 DEF W!Cmd24
<1>2. CASE W!Fill
  BY <1>2 DEF W!Fill, W!Decrement
<1>3. CASE W!Filled
  BY <1>3 DEF W!Filled, W!Fail
<1>4. CASE W!Xfer
  <2>1. w_timeout' \in 0..(Modulus - 1)
    BY <1>4 DEF W!Xfer, W!Decrement
  <2>2. w_pc' \in {"xfer", "check", "cmd24"} /\ w_ret' \in {"none", "ok", "error"}
    BY <1>4 DEF W!Xfer, W!Fail
  <2> QED BY <1>4, <2>1, <2>2 DEF W!Xfer
<1>5. CASE W!Check
  BY <1>5 DEF W!Check, W!Fail
<1>6. CASE W!Ready
  BY <1>6 DEF W!Ready, W!Fail
<1>7. CASE W!Shift
  BY <1>7 DEF W!Shift
<1>8. CASE W!Accept
  BY <1>8 DEF W!Accept
<1>9. CASE W!Reject \/ W!DataTimeout \/ W!Finish
  BY <1>9 DEF W!Reject, W!DataTimeout, W!Finish, W!Errors
<1>10. CASE W!Recover
  BY <1>10 DEF W!Recover
<1> QED
  BY <1>1, <1>2, <1>3, <1>4, <1>5, <1>6, <1>7, <1>8, <1>9, <1>10 DEF W!Next

\* What is known of the words, the card and the counter.
LEMMA WriteKnownStep ==
  ASSUME W!WriteConstants, WriteInvariant, W!Next
  PROVE  WriteCountInv' /\ WriteCardInv' /\ WriteLimitInv' /\ WriteSeenInv'
    /\ WriteReturnInv'
<1> USE DEF W!WriteConstants, WriteInvariant, W!TypeOK, WriteCountInv, WriteCardInv,
            WriteLimitInv, WriteSeenInv, WriteReturnInv,
            W!driver, W!Errors
<1>1. CASE W!Cmd24
  BY <1>1 DEF W!Cmd24
<1>2. CASE W!Fill
  BY <1>2 DEF W!Fill, W!Decrement
<1>3. CASE W!Filled
  BY <1>3 DEF W!Filled, W!Fail
<1>4. CASE W!Xfer
  <2>1. UNCHANGED <<words_written, w_tx, sent, w_int, cardState, programmed, late>>
    BY <1>4 DEF W!Xfer
  <2>2. CASE w_timeout = 0
    <3>1. late
      BY <1>4, <2>2 DEF W!Xfer
    <3>2. ~(w_timeout' < XferTimeout) /\ w_pc' = "check" /\ w_ret' = w_ret
      BY <1>4, <2>2 DEF W!Xfer, W!Decrement
    <3>3. w_pc = "xfer"
      BY <1>4 DEF W!Xfer
    <3> QED BY <2>1, <3>1, <3>2, <3>3
  <2>3. CASE w_timeout # 0 /\ "XFER_COMPL" \in w_int
    <3>1. w_timeout' = w_timeout - 1 /\ w_pc' = "check" /\ w_ret' = w_ret
      BY <1>4, <2>3 DEF W!Xfer, W!Decrement
    <3> QED BY <1>4, <2>1, <2>3, <3>1 DEF W!Xfer
  <2>4. CASE w_timeout # 0 /\ "XFER_COMPL" \notin w_int /\ w_int \cap W!Errors # {}
    <3>1. cardState # "rcv" /\ w_pc' = "cmd24" /\ w_ret' = "error"
      BY <1>4, <2>4 DEF W!Xfer, W!Fail
    <3> QED BY <2>1, <3>1
  <2>5. CASE w_timeout # 0 /\ "XFER_COMPL" \notin w_int /\ w_int \cap W!Errors = {}
    <3>1. w_int = {}
      BY <2>5
    <3>2. late \/ w_timeout > 2
      BY <1>4, <3>1 DEF W!Xfer
    <3>3. w_timeout' = w_timeout - 1 /\ w_pc' = "xfer" /\ w_ret' = w_ret
      BY <1>4, <2>5 DEF W!Xfer, W!Decrement
    <3> QED BY <1>4, <2>1, <3>2, <3>3 DEF W!Xfer
  <2> QED BY <2>2, <2>3, <2>4, <2>5
<1>5. CASE W!Check
  BY <1>5 DEF W!Check, W!Fail
<1>6. CASE W!Ready
  BY <1>6 DEF W!Ready, W!Fail
<1>7. CASE W!Shift
  BY <1>7 DEF W!Shift
<1>8. CASE W!Accept
  BY <1>8 DEF W!Accept
<1>9. CASE W!Reject \/ W!DataTimeout
  BY <1>9 DEF W!Reject, W!DataTimeout
<1>10. CASE W!Finish
  BY <1>10 DEF W!Finish
<1>11. CASE W!Recover
  BY <1>11 DEF W!Recover
<1> QED
  BY <1>1, <1>2, <1>3, <1>4, <1>5, <1>6, <1>7, <1>8, <1>9, <1>10, <1>11 DEF W!Next

\* The result: success only behind an end that was seen, failure only where the block was
\* not complete, was refused, or the end came late.
LEMMA WriteTellsStep == ASSUME W!WriteConstants, WriteInvariant, W!Next PROVE W!WriteTells'
<1> USE DEF W!WriteTells, W!OkIsProgrammed, W!ErrorIsNotProgrammed, WriteInvariant,
            WriteReturnInv, W!driver
<1>1. CASE W!Cmd24
  BY <1>1 DEF W!Cmd24
<1>2. CASE W!Fill
  BY <1>2 DEF W!Fill
<1>3. CASE W!Filled
  BY <1>3 DEF W!Filled, W!Fail, WriteCardInv, WriteCountInv, W!TypeOK, W!WriteConstants
<1>4. CASE W!Xfer
  BY <1>4 DEF W!Xfer, W!Fail, WriteCardInv
<1>5. CASE W!Check
  BY <1>5 DEF W!Check, W!Fail, WriteLimitInv
<1>6. CASE W!Ready
  BY <1>6 DEF W!Ready, W!Fail, WriteSeenInv
<1>7. CASE W!Shift \/ W!Reject \/ W!DataTimeout \/ W!Finish \/ W!Recover
  BY <1>7 DEF W!Shift, W!Reject, W!DataTimeout, W!Finish, W!Recover
<1>8. CASE W!Accept
  BY <1>8 DEF W!Accept, WriteCountInv, W!TypeOK, W!WriteConstants
<1> QED BY <1>1, <1>2, <1>3, <1>4, <1>5, <1>6, <1>7, <1>8 DEF W!Next

-----------------------------------------------------------------------------
(* The reads of the new payload                                            *)

\* Every word that has arrived is in the buffer or in the FIFO, and the driver takes no
\* more words than it has seen there.
ReadCountInv ==
  /\ words_read + r_rx = arrived
  /\ r_pc = "take" => fifo_count <= r_rx

\* MSDC_INT tells the fate of the block.
ReadBitsInv ==
  /\ "XFER_COMPL" \in r_int => ~damaged
  /\ r_int \cap R!Errors # {} => damaged

\* The end is up with the last word, or not before the last word has been taken.
ReadEndInv ==
  /\ end = "with_last_word" /\ r_pc # "cmd17" /\ arrived = Words => r_int # {}
  /\ end = "after_drain" /\ "XFER_COMPL" \in r_int => words_read = Words
  /\ end = "after_drain" /\ r_pc = "status" => words_read = Words \/ r_timeout = Modulus - 1
  /\ r_pc # "cmd17" => r_ret = "none"

ReadInvariant == R!TypeOK /\ ReadCountInv /\ ReadBitsInv /\ ReadEndInv /\ R!ReadTells

\* The first states satisfy the invariant.
LEMMA ReadInit == ASSUME R!ReadConstants, R!Init PROVE ReadInvariant
<1> USE DEF R!ReadConstants, R!Init
<1>1. R!TypeOK
  <2>1. r_int \in SUBSET (R!Errors \cup {"XFER_COMPL"})
    OBVIOUS
  <2>2. r_timeout \in 0..(Modulus - 1) /\ {words_read, arrived} \subseteq 0..Words
          /\ {fifo_count, r_rx} \subseteq 0..FifoWords
    OBVIOUS
  <2> QED BY <2>1, <2>2 DEF R!TypeOK
<1>2. ReadCountInv /\ ReadBitsInv /\ ReadEndInv /\ R!ReadTells
  BY DEF ReadCountInv, ReadBitsInv, ReadEndInv, R!ReadTells, R!OkIsUndamaged,
         R!ErrorIsDamagedOrSlow
<1> QED BY <1>1, <1>2 DEF ReadInvariant

\* Types: no word is taken from an empty FIFO or put behind the end of the buffer.
LEMMA ReadTypeStep == ASSUME R!ReadConstants, ReadInvariant, R!Next PROVE R!TypeOK'
<1> USE DEF R!ReadConstants, ReadInvariant, R!TypeOK, ReadCountInv, R!driver
<1>1. CASE R!Cmd17
  BY <1>1 DEF R!Cmd17
<1>2. CASE R!Wait
  BY <1>2 DEF R!Wait, R!Decrement
<1>3. CASE R!Poll
  BY <1>3 DEF R!Poll, R!Decrement
<1>4. CASE R!Take
  BY <1>4 DEF R!Take
<1>5. CASE R!Look
  BY <1>5 DEF R!Look
<1>6. CASE R!Status
  BY <1>6 DEF R!Status
<1>7. CASE R!Arrive
  <2>1. r_int' \in SUBSET (R!Errors \cup {"XFER_COMPL"})
    BY <1>7 DEF R!Arrive, R!EndBit, R!Errors
  <2> QED BY <1>7, <2>1 DEF R!Arrive
<1>8. CASE R!RaiseEnd
  <2>1. r_int' \in SUBSET (R!Errors \cup {"XFER_COMPL"})
    BY <1>8 DEF R!RaiseEnd, R!EndBit, R!Errors
  <2> QED BY <1>8, <2>1 DEF R!RaiseEnd
<1>9. CASE R!DataTimeout
  <2>1. r_int' \in SUBSET (R!Errors \cup {"XFER_COMPL"})
    BY <1>9 DEF R!DataTimeout, R!Errors
  <2> QED BY <1>9, <2>1 DEF R!DataTimeout
<1> QED BY <1>1, <1>2, <1>3, <1>4, <1>5, <1>6, <1>7, <1>8, <1>9 DEF R!Next

\* What is known of words, bits and the end.
LEMMA ReadKnownStep ==
  ASSUME R!ReadConstants, ReadInvariant, R!Next
  PROVE  ReadCountInv' /\ ReadBitsInv' /\ ReadEndInv'
<1> USE DEF R!ReadConstants, ReadInvariant, R!TypeOK, ReadCountInv, ReadBitsInv,
            ReadEndInv, R!driver, R!Errors
<1>1. CASE R!Cmd17
  BY <1>1 DEF R!Cmd17
<1>2. CASE R!Wait
  BY <1>2 DEF R!Wait, R!Decrement
<1>3. CASE R!Poll
  BY <1>3 DEF R!Poll, R!Decrement
<1>4. CASE R!Take
  BY <1>4 DEF R!Take
<1>5. CASE R!Look
  BY <1>5 DEF R!Look
<1>6. CASE R!Status
  BY <1>6 DEF R!Status
<1>7. CASE R!Arrive
  BY <1>7 DEF R!Arrive, R!EndBit
<1>8. CASE R!RaiseEnd
  BY <1>8 DEF R!RaiseEnd, R!EndBit
<1>9. CASE R!DataTimeout
  BY <1>9 DEF R!DataTimeout
<1> QED BY <1>1, <1>2, <1>3, <1>4, <1>5, <1>6, <1>7, <1>8, <1>9 DEF R!Next

\* The result: it is set from the bits and the words, and stands until the next command.
LEMMA ReadTellsStep == ASSUME R!ReadConstants, ReadInvariant, R!Next PROVE R!ReadTells'
<1> USE DEF R!ReadTells, R!OkIsUndamaged, R!ErrorIsDamagedOrSlow, ReadInvariant,
            ReadEndInv, R!driver
<1>1. CASE R!Status
  <2>1. words_read \in 0..Words /\ arrived \in 0..Words /\ r_rx \in Nat
    BY DEF R!ReadConstants, R!TypeOK
  <2>2. words_read = Words => arrived = Words
    BY <2>1 DEF ReadCountInv, R!ReadConstants
  <2>3. ~(words_read < Words) => words_read = Words
    BY <2>1 DEF R!ReadConstants
  <2>4. r_int # {} /\ r_int \cap R!Errors = {} => "XFER_COMPL" \in r_int
    BY DEF R!TypeOK
  <2>5. r_pc = "status" /\ UNCHANGED <<end, damaged, r_timeout>>
    BY <1>1 DEF R!Status
  <2>6. CASE r_int \cap R!Errors # {} \/ words_read < Words
    <3>1. r_ret' = "error"
      BY <1>1, <2>6 DEF R!Status
    <3>2. words_read # Words \/ damaged
      BY <2>1, <2>6 DEF ReadBitsInv, R!ReadConstants
    <3> QED BY <2>5, <3>1, <3>2
  <2>7. CASE ~(r_int \cap R!Errors # {} \/ words_read < Words)
    <3>1. r_ret' = "ok"
      BY <1>1, <2>7 DEF R!Status
    <3>2. end = "with_last_word" => ~damaged
      BY <2>2, <2>3, <2>4, <2>5, <2>7 DEF ReadBitsInv
    <3> QED BY <2>5, <3>1, <3>2
  <2> QED BY <2>6, <2>7
<1>2. CASE R!Cmd17
  BY <1>2 DEF R!Cmd17
<1>3. CASE R!Wait \/ R!Poll \/ R!Take \/ R!Look
  BY <1>3 DEF R!Wait, R!Poll, R!Take, R!Look
<1>4. CASE R!Arrive \/ R!RaiseEnd \/ R!DataTimeout
  BY <1>4 DEF R!Arrive, R!RaiseEnd, R!DataTimeout
<1> QED BY <1>1, <1>2, <1>3, <1>4 DEF R!Next

-----------------------------------------------------------------------------
(* The transfers of the original payload                                   *)

\* The words moved are those of this transfer.
MsdcCountInv ==
  /\ m_pc = "polling" => taken = 0
  /\ m_pc \in {"look", "take", "left", "fill"} => taken + left <= Words

\* An error nobody has been told of is in MSDC_INT, and a transfer on its way has
\* looked there.
MsdcDamageInv ==
  /\ hurt \/ owed => m_int \cap M!DataErrors # {}
  /\ m_pc \in {"take", "left", "fill"} => ~owed
  /\ M!TransferOk => ~owed

\* Words of another block are in the FIFO, or have been read, behind a broken-off read.
MsdcOwnInv ==
  /\ ~brokeOff => stale = 0
  /\ ~brokeOff /\ (m_pc \in {"polling", "look", "take", "left", "fill"}
    \/ (m_pc = "idle" /\ m_ret = "ok"))
       => taken = 0

MsdcInvariant == M!TypeOK /\ MsdcCountInv /\ MsdcDamageInv /\ MsdcOwnInv

\* The lesser of two numbers is one of them and no greater than either.
LEMMA LeastProperty ==
  ASSUME NEW a \in Nat, NEW b \in Nat
  PROVE  M!Least(a, b) \in Nat /\ M!Least(a, b) <= a /\ M!Least(a, b) <= b
           /\ (M!Least(a, b) = a \/ M!Least(a, b) = b)
BY DEF M!Least

\* The controller starts with an empty FIFO and nothing to tell.
LEMMA MsdcInit == ASSUME M!MsdcConstants, M!Init PROVE MsdcInvariant
<1> USE DEF M!MsdcConstants, M!Init
<1>1. M!TypeOK
  <2>1. m_int \in SUBSET (M!DataErrors \cup M!CommandBits \cup {"XFER_COMPL"})
    OBVIOUS
  <2>2. {left, moved, taken} \subseteq 0..Words /\ {m_rx, m_tx} \subseteq 0..FifoWords
          /\ stale \in 0..m_rx
    OBVIOUS
  <2>3. opcode \in M!Opcodes
    BY DEF M!Opcodes
  <2> QED BY <2>1, <2>2, <2>3 DEF M!TypeOK
<1>2. MsdcCountInv /\ MsdcDamageInv /\ MsdcOwnInv
  BY DEF MsdcCountInv, MsdcDamageInv, MsdcOwnInv, M!TransferOk
<1> QED BY <1>1, <1>2 DEF MsdcInvariant

\* Types.
LEMMA MsdcTypeStep == ASSUME M!MsdcConstants, MsdcInvariant, M!Next PROVE M!TypeOK'
<1> USE DEF M!MsdcConstants, MsdcInvariant, M!TypeOK, M!driver, M!fifo, M!bus, M!history
<1>1. CASE \E op \in M!Opcodes : M!Call(op)
  BY <1>1 DEF M!Call
<1>2. CASE M!Start
  <2>1. owed' \in BOOLEAN /\ hurt' \in BOOLEAN
    BY <1>2 DEF M!Start
  <2>2. taken' \in 0..Words
    BY <1>2 DEF M!Start
  <2> HIDE DEF M!MsdcConstants
  <2> QED BY <1>2, <2>1, <2>2 DEF M!Start
<1>3. CASE M!Polling
  <2>1. m_int' \subseteq m_int
    BY <1>3 DEF M!Polling, M!ResetHw
  <2>2. left' \in 0..Words /\ m_rx' \in 0..FifoWords /\ stale' \in 0..m_rx'
          /\ m_tx' \in 0..FifoWords
    BY <1>3 DEF M!Polling, M!Ok, M!ResetHw
  <2>3. m_pc' \in {"idle", "look"} /\ m_ret' \in {"none", "ok", "error"}
    BY <1>3 DEF M!Polling, M!Ok, M!Error
  <2>4. phase' \in {"none", "read", "write"} /\ moved' \in 0..Words
    BY <1>3 DEF M!Polling, M!ResetHw
  <2>5. hurt' \in BOOLEAN /\ owed' \in BOOLEAN /\ brokeOff' \in BOOLEAN
    BY <1>3 DEF M!Polling, M!Ok, M!Error, M!ResetHw
  <2> QED BY <1>3, <2>1, <2>2, <2>3, <2>4, <2>5 DEF M!Polling
<1>4. CASE M!Look
  <2>1. m_int' \subseteq m_int
    BY <1>4 DEF M!Look, M!ResetHw
  <2>2. m_rx' \in 0..FifoWords /\ stale' \in 0..m_rx' /\ m_tx' \in 0..FifoWords
    BY <1>4 DEF M!Look, M!ResetHw
  <2>3. m_pc' \in {"idle", "take", "fill"} /\ m_ret' \in {"none", "ok", "error"}
    BY <1>4 DEF M!Look, M!Error
  <2>4. phase' \in {"none", "read", "write"} /\ moved' \in 0..Words
    BY <1>4 DEF M!Look, M!ResetHw
  <2>5. hurt' \in BOOLEAN /\ owed' \in BOOLEAN /\ brokeOff' \in BOOLEAN
    BY <1>4 DEF M!Look, M!Error, M!ResetHw
  <2> QED BY <1>4, <2>1, <2>2, <2>3, <2>4, <2>5 DEF M!Look
<1>5. CASE M!Take
  <2> DEFINE n == M!Least(left, ThdWords)
             m == M!Least(stale, n)
  <2>1. n \in Nat /\ n <= left
    BY LeastProperty
  <2> HIDE DEF n
  <2>2. m \in Nat /\ m <= stale /\ m <= n /\ (m = stale \/ m = n)
    <3>1. stale \in Nat
      OBVIOUS
    <3> QED BY <2>1, <3>1, LeastProperty DEF m
  <2>3. taken + left <= Words
    BY <1>5 DEF M!Take, MsdcCountInv
  <2> HIDE DEF n, m
  <2>4. CASE m_rx >= n /\ left' = left - n /\ m_rx' = m_rx - n /\ stale' = stale - m
             /\ taken' = taken + m
    <3>1. left' \in 0..Words /\ m_rx' \in 0..FifoWords /\ stale' \in 0..m_rx'
      BY <2>1, <2>2, <2>4
    <3>2. taken' \in 0..Words
      BY <2>1, <2>2, <2>3, <2>4
    <3> QED BY <1>5, <3>1, <3>2 DEF M!Take, M!Ok
  <2>5. CASE UNCHANGED <<left, m_rx, stale, taken>>
    BY <1>5, <2>5 DEF M!Take, M!Ok
  <2> QED BY <1>5, <2>4, <2>5 DEF M!Take, n, m
<1>6. CASE M!Left
  <2>1. m_int' \subseteq m_int /\ stale' \in 0..m_rx'
    BY <1>6 DEF M!Left
  <2>2. m_pc' \in {"idle", "take"} /\ m_ret' \in {"none", "ok", "error"}
    BY <1>6 DEF M!Left, M!Error
  <2>3. hurt' \in BOOLEAN /\ owed' \in BOOLEAN /\ brokeOff' \in BOOLEAN
    BY <1>6 DEF M!Left, M!Error
  <2> QED BY <1>6, <2>1, <2>2, <2>3 DEF M!Left
<1>7. CASE M!Fill
  <2> DEFINE n == M!Least(left, FifoWords)
  <2>1. n \in Nat /\ n <= left /\ n <= FifoWords
    BY LeastProperty
  <2> HIDE DEF n
  <2>2. m_tx' = n /\ left' = left - n
    BY <1>7 DEF M!Fill, n
  <2> QED BY <1>7, <2>1, <2>2 DEF M!Fill, M!Ok
<1>8. CASE \E bit \in M!CommandBits : M!Respond(bit)
  BY <1>8 DEF M!Respond, M!DataOf
<1>9. CASE M!Move
  BY <1>9 DEF M!Move
<1>10. CASE \E bit \in M!DataErrors \cup {"XFER_COMPL"} : M!End(bit)
  BY <1>10 DEF M!End
<1> QED
  BY <1>1, <1>2, <1>3, <1>4, <1>5, <1>6, <1>7, <1>8, <1>9, <1>10 DEF M!Next, M!Driver,
  M!Controller

\* Counts.
LEMMA MsdcCountStep == ASSUME M!MsdcConstants, MsdcInvariant, M!Next PROVE MsdcCountInv'
<1> USE DEF M!MsdcConstants, MsdcInvariant, M!TypeOK, MsdcCountInv, M!driver, M!fifo,
            M!bus, M!history
<1>1. CASE \E op \in M!Opcodes : M!Call(op)
  BY <1>1 DEF M!Call
<1>2. CASE M!Start
  BY <1>2 DEF M!Start
<1>3. CASE M!Polling
  BY <1>3 DEF M!Polling, M!Ok, M!Error
<1>4. CASE M!Look
  BY <1>4 DEF M!Look, M!Error
<1>5. CASE M!Take
  <2> DEFINE n == M!Least(left, ThdWords)
             m == M!Least(stale, n)
  <2>1. n \in Nat /\ n <= left
    BY LeastProperty
  <2> HIDE DEF n
  <2>2. m \in Nat /\ m <= n
    <3>1. stale \in Nat
      OBVIOUS
    <3> QED BY <2>1, <3>1, LeastProperty DEF m
  <2> HIDE DEF m
  <2>3. \/ left' = left - n /\ taken' = taken + m
        \/ UNCHANGED <<left, taken>>
    BY <1>5 DEF M!Take, n, m
  <2>4. m_pc' # "polling"
    BY <1>5 DEF M!Take, M!Ok
  <2>5. taken + left <= Words
    BY <1>5 DEF M!Take
  <2> QED BY <2>1, <2>2, <2>3, <2>4, <2>5
<1>6. CASE M!Left
  BY <1>6 DEF M!Left, M!Error
<1>7. CASE M!Fill
  <2>1. M!Least(left, FifoWords) \in Nat
    BY LeastProperty
  <2> QED BY <1>7, <2>1 DEF M!Fill, M!Ok
<1>8. CASE M!Controller
  BY <1>8 DEF M!Controller, M!Respond, M!Move, M!End
<1> QED
  BY <1>1, <1>2, <1>3, <1>4, <1>5, <1>6, <1>7, <1>8 DEF M!Next, M!Driver

\* Errors.  Only a call that fails takes them out of MSDC_INT.
LEMMA MsdcDamageStep == ASSUME M!MsdcConstants, MsdcInvariant, M!Next PROVE MsdcDamageInv'
<1> USE DEF MsdcInvariant, M!TypeOK, MsdcDamageInv, M!TransferOk, M!driver, M!fifo,
            M!bus, M!history
<1>1. CASE \E op \in M!Opcodes : M!Call(op)
  BY <1>1 DEF M!Call
<1>2. CASE M!Start
  BY <1>2 DEF M!Start
<1>3. CASE M!Polling
  BY <1>3 DEF M!Polling, M!Ok, M!Error, M!ResetHw, M!DataErrors, M!CommandBits
<1>4. CASE M!Look
  BY <1>4 DEF M!Look, M!Error, M!ResetHw, M!DataErrors
<1>5. CASE M!Take
  BY <1>5 DEF M!Take, M!Ok
<1>6. CASE M!Left
  BY <1>6 DEF M!Left, M!Error
<1>7. CASE M!Fill
  BY <1>7 DEF M!Fill, M!Ok
<1>8. CASE \E bit \in M!CommandBits : M!Respond(bit)
  BY <1>8 DEF M!Respond
<1>9. CASE M!Move
  BY <1>9 DEF M!Move
<1>10. CASE \E bit \in M!DataErrors \cup {"XFER_COMPL"} : M!End(bit)
  BY <1>10 DEF M!End
<1> QED
  BY <1>1, <1>2, <1>3, <1>4, <1>5, <1>6, <1>7, <1>8, <1>9, <1>10 DEF M!Next, M!Driver,
  M!Controller

\* Words of other blocks.
LEMMA MsdcOwnStep == ASSUME M!MsdcConstants, MsdcInvariant, M!Next PROVE MsdcOwnInv'
<1> USE DEF M!MsdcConstants, MsdcInvariant, M!TypeOK, MsdcCountInv, MsdcOwnInv, M!driver,
            M!fifo, M!bus, M!history
<1>1. CASE \E op \in M!Opcodes : M!Call(op)
  BY <1>1 DEF M!Call
<1>2. CASE M!Start
  BY <1>2 DEF M!Start
<1>3. CASE M!Polling
  BY <1>3 DEF M!Polling, M!Ok, M!Error, M!ResetHw
<1>4. CASE M!Look
  BY <1>4 DEF M!Look, M!Error, M!ResetHw
<1>5. CASE M!Take
  <2> DEFINE n == M!Least(left, ThdWords)
             m == M!Least(stale, n)
  <2>1. n \in Nat
    BY LeastProperty
  <2> HIDE DEF n
  <2>2. m \in Nat /\ m <= stale
    <3>1. stale \in Nat
      OBVIOUS
    <3> QED BY <2>1, <3>1, LeastProperty DEF m
  <2> HIDE DEF m
  <2>3. \/ stale' = stale - m /\ taken' = taken + m
        \/ UNCHANGED <<stale, taken>>
    BY <1>5 DEF M!Take, n, m
  <2>4. m_pc = "take" /\ brokeOff' = brokeOff
    BY <1>5 DEF M!Take
  <2> QED BY <2>2, <2>3, <2>4
<1>6. CASE M!Left
  BY <1>6 DEF M!Left, M!Error
<1>7. CASE M!Fill
  BY <1>7 DEF M!Fill, M!Ok
<1>8. CASE M!Controller
  BY <1>8 DEF M!Controller, M!Respond, M!Move, M!End
<1> QED
  BY <1>1, <1>2, <1>3, <1>4, <1>5, <1>6, <1>7, <1>8 DEF M!Next, M!Driver

-----------------------------------------------------------------------------
(* The three machines together                                             *)

Invariant == WriteInvariant /\ ReadInvariant /\ MsdcInvariant

\* A machine that does not move keeps its invariant.
LEMMA WriteRests == ASSUME WriteInvariant, UNCHANGED wvars PROVE WriteInvariant'
BY DEF wvars, WriteInvariant, W!TypeOK, WriteCountInv, WriteCardInv, WriteLimitInv,
       WriteSeenInv, WriteReturnInv, W!WriteTells, W!OkIsProgrammed, W!ErrorIsNotProgrammed

\* The same of the reads.
LEMMA ReadRests == ASSUME ReadInvariant, UNCHANGED rvars PROVE ReadInvariant'
BY DEF rvars, ReadInvariant, R!TypeOK, ReadCountInv, ReadBitsInv, ReadEndInv, R!ReadTells,
       R!OkIsUndamaged, R!ErrorIsDamagedOrSlow

\* The same of the original driver.
LEMMA MsdcRests == ASSUME MsdcInvariant, UNCHANGED mvars PROVE MsdcInvariant'
BY DEF mvars, MsdcInvariant, M!TypeOK, MsdcCountInv, MsdcDamageInv, MsdcOwnInv, M!TransferOk

\* A step is one of one machine.
LEMMA Step == ASSUME Invariant, [Next]_vars PROVE Invariant'
<1> USE PioAssumption DEF Invariant
<1>1. CASE W!Next /\ UNCHANGED <<rvars, mvars>>
  BY <1>1, WriteTypeStep, WriteKnownStep, WriteTellsStep, ReadRests, MsdcRests
     DEF WriteInvariant
<1>2. CASE R!Next /\ UNCHANGED <<wvars, mvars>>
  BY <1>2, ReadTypeStep, ReadKnownStep, ReadTellsStep, WriteRests, MsdcRests
     DEF ReadInvariant
<1>3. CASE M!Next /\ UNCHANGED <<wvars, rvars>>
  BY <1>3, MsdcTypeStep, MsdcCountStep, MsdcDamageStep, MsdcOwnStep, WriteRests, ReadRests
     DEF MsdcInvariant
<1>4. CASE UNCHANGED vars
  <2>1. UNCHANGED <<wvars, rvars, mvars>>
    BY <1>4 DEF vars
  <2> QED BY <2>1, WriteRests, ReadRests, MsdcRests
<1> QED BY <1>1, <1>2, <1>3, <1>4 DEF Next

\* The invariant holds for ever.
LEMMA Always == Spec => []Invariant
<1>1. Init => Invariant
  BY WriteInit, ReadInit, MsdcInit, PioAssumption DEF Init, Invariant
<1>2. Invariant /\ [Next]_vars => Invariant'
  BY Step
<1> QED BY <1>1, <1>2, PTL DEF Spec

\* The counts of words stay inside blocks and FIFOs and the counters in their width.
THEOREM TypeCorrect == Spec => []TypeOK
<1>1. Invariant => TypeOK
  BY DEF Invariant, WriteInvariant, ReadInvariant, MsdcInvariant, TypeOK
<1> QED BY <1>1, Always, PTL

\* emmc_write_sector: a write reported as done is programmed when the end was seen, and
\* one reported as failed is not programmed unless transfers end late.
THEOREM WriteResultsTell == Spec => []WriteTells
<1>1. Invariant => WriteTells
  BY DEF Invariant, WriteInvariant, WriteTells
<1> QED BY <1>1, Always, PTL

\* emmc_read_sector: when the end comes with the last word, no damaged block is reported
\* as read; when it comes after it, only damaged or slow ones are reported as errors.
THEOREM ReadResultsTell == Spec => []ReadTells
<1>1. Invariant => ReadTells
  BY DEF Invariant, ReadInvariant, ReadTells
<1> QED BY <1>1, Always, PTL

\* Damage that the original driver has not waited for fails a call before a later
\* transfer is reported as done.
THEOREM DamageIsReported == Spec => []NoSilentDamage
<1>1. Invariant => NoSilentDamage
  BY DEF Invariant, MsdcInvariant, MsdcDamageInv, NoSilentDamage, M!NoSilentDamage
<1> QED BY <1>1, Always, PTL

\* A block the original driver reports as read is its own unless a read has broken off.
THEOREM BlocksAreOwn == Spec => []ReadIsOwnBlock
<1>1. Invariant => ReadIsOwnBlock
  BY DEF Invariant, MsdcInvariant, MsdcOwnInv, ReadIsOwnBlock, M!ReadIsOwnBlock,
         M!TransferOk
<1> QED BY <1>1, Always, PTL

-----------------------------------------------------------------------------
(* The outcomes that EmmcDriver gives the data phases are those of the     *)
(* loops.  A transfer of one sector is seen as the driver sees it: until   *)
(* it has left its loop nothing has happened, and then what the card has   *)
(* done with the block.                                                    *)

CONSTANTS
  Regions, User, Boot0, NoPart, BadRegion, Sectors, Data, Zero, ExtCsd, VerifySectors, Faults,
  written, read,    \* the commands whose transfers they are
  before            \* the card before them

\* A write: CMD24 is where the driver has returned, the answer is sent from there.  It is
\* under way until the driver knows its result and the card knows what to do with the block.
InTx ==
  \/ w_pc \in {"fill", "filled", "xfer"} \/ (w_pc = "check" /\ w_timeout = 0)
  \/ cardState = "rcv"

\* The card is seen programming until the driver has cleared the bit or given up.
CardSeen ==
  IF InTx \/ cardState = "silent" THEN "rcv"
  ELSE IF programmed /\ (w_pc = "check" \/ (w_pc = "cmd24" /\ w_ret # "ok")) THEN "prg"
  ELSE cardState

TxPc == IF InTx THEN "tx" ELSE IF w_pc = "cmd24" THEN "loop" ELSE "txReady"

TxReply == [tag |-> IF w_ret = "ok" THEN "ack" ELSE "none", data |-> Zero]

TxStale == ~InTx /\ programmed

TxMedium == IF TxStale THEN [before EXCEPT ![written.region][written.sector] = written.data]
                       ELSE before

TxProgramming == IF CardSeen = "prg" THEN {<<written.region, written.sector>>} ELSE {}

Tx == INSTANCE EmmcDriver WITH
  pc <- TxPc, op <- written, current_partition <- written.region, reads <- 0,
  buf <- written.data, reply <- TxReply, cardState <- CardSeen,
  cardPart <- written.region, stale <- TxStale, medium <- TxMedium,
  programming <- TxProgramming

\* A read: CMD17 is where the driver has returned or goes on to wait for the card.  Zero
\* stands for what a damaged block has left in the buffer.
RxPc == IF r_pc # "cmd17" THEN "rx" ELSE IF r_ret = "ok" THEN "rxReady" ELSE "loop"

RxBuf == IF r_pc = "cmd17" /\ r_ret = "ok" /\ ~damaged
         THEN before[read.region][read.sector] ELSE Zero

Rx == INSTANCE EmmcDriver WITH
  pc <- RxPc, op <- read, current_partition <- read.region, reads <- 0, buf <- RxBuf,
  reply <- [tag |-> "none", data |-> Zero], cardState <- "data", cardPart <- read.region,
  stale <- FALSE, medium <- before, programming <- {}

\* The two commands are for one sector each, of a card that has it.
Transfers ==
  /\ Zero \in Data /\ before \in [Regions -> [Sectors -> Data]]
  /\ written \in [kind : {"write"}, region : Regions, sector : Sectors, data : Data]
  /\ read \in [kind : {"read"}, region : Regions, sector : Sectors, data : {Zero}]

\* Every end of a write is one that EmmcDriver has under the faults that strike it
\* (emmc_write_sector behind its CMD24).
WriteOutcomes ==
  [][which = "write" =>
       W!Cmd24 \/ W!Recover \/ Tx!Tx \/ Tx!TxReady \/ Tx!CardFinish]_(Tx!vars)

\* Every end of a read is one of EmmcDriver's Rx (emmc_read_sector behind its CMD17).
ReadOutcomes == [][which = "read" => R!Cmd17 \/ Rx!Rx]_(Rx!vars)

-----------------------------------------------------------------------------

\* A controller that ends writes after the polls strikes with these faults, one that ends
\* reads later than with their last word with that one.
TxFaults == late => {<<"late", "tx">>, <<"busy", "txReady">>} \subseteq Faults

RxFaults == end # "with_last_word" => <<"late", "rx">> \in Faults

\* What a step of a write may be: the start of a transfer, a reset, or a step of EmmcDriver.
WriteStep == W!Cmd24 \/ W!Recover \/ Tx!Tx \/ Tx!TxReady \/ Tx!CardFinish

\* The outcomes of Tx.
LEMMA Outcome ==
  ASSUME Transfers, <<"error", "tx">> \in Faults, TxFaults,
         TxPc = "tx", CardSeen = "rcv", ~TxStale, TxMedium = before,
         TxPc' \in {"loop", "txReady"}, TxPc' = "loop" => TxReply' = Tx!NoReply,
         TxReply' # TxReply => TxPc' = "loop", TxStale' \in BOOLEAN,
         TxStale' => CardSeen' = "prg" /\ (TxPc' = "loop" => late),
         ~TxStale' => CardSeen' \in {"tran", "rcv"} /\ (TxPc' = "txReady" => late)
  PROVE  Tx!Tx
<1>1. CASE TxStale'
  <2>1. Tx!Programs
    BY <1>1 DEF Transfers, Tx!Programs, TxMedium, TxProgramming, Tx!Sector, Tx!Region
  <2>2. CASE TxPc' = "loop"
    <3>1. Tx!Fail
      BY <2>2 DEF Transfers, Tx!Fail, Tx!Return
    <3> QED BY <1>1, <2>1, <2>2, <3>1 DEF Tx!Tx, Tx!Late, TxFaults
  <2>3. CASE TxPc' = "txReady"
    <3>1. Tx!Goto("txReady")
      BY <2>3 DEF Tx!Goto, Tx!Continue
    <3> QED BY <2>1, <3>1 DEF Tx!Tx
  <2> QED BY <2>2, <2>3
<1>2. CASE ~TxStale'
  <2>0. TxStale = FALSE /\ TxStale' = FALSE
    BY <1>2 DEF TxStale
  <2>1. Tx!Drops
    BY <1>2, <2>0 DEF Tx!Drops, Tx!BecomesCard, TxMedium, TxProgramming
  <2>2. CASE TxPc' = "loop"
    <3>1. Tx!Fail
      BY <2>2 DEF Transfers, Tx!Fail, Tx!Return
    <3> QED BY <2>1, <3>1 DEF Tx!Tx, Tx!Error
  <2>3. CASE TxPc' = "txReady"
    <3>1. Tx!Goto("txReady")
      BY <2>3 DEF Tx!Goto, Tx!Continue
    <3> QED BY <1>2, <2>1, <2>3, <3>1 DEF Tx!Tx, Tx!Late, TxFaults
  <2> QED BY <2>2, <2>3
<1> QED BY <1>1, <1>2

\* Until the transfer is over there is nothing to see.
LEMMA Hidden ==
  ASSUME InTx, InTx', w_ret # "ok", w_ret' # "ok"
  PROVE  UNCHANGED Tx!vars
<1>1. TxPc = "tx" /\ TxPc' = "tx" /\ TxStale = FALSE /\ TxStale' = FALSE
  BY DEF TxPc, TxStale
<1>2. CardSeen = "rcv" /\ CardSeen' = "rcv"
  BY DEF CardSeen
<1>3. TxMedium' = TxMedium /\ TxReply' = TxReply
  BY <1>1 DEF TxMedium, TxReply
<1> QED BY <1>1, <1>2, <1>3 DEF TxProgramming, Tx!vars, Tx!driver, Tx!card

\* Every step of a write is one of EmmcDriver, starts a transfer, or does not show.
LEMMA WriteStepIsTx ==
  ASSUME W!WriteConstants, WriteInvariant, WriteInvariant', W!Next,
         Transfers, <<"error", "tx">> \in Faults, TxFaults
  PROVE  WriteStep \/ UNCHANGED Tx!vars
<1> USE DEF WriteStep
<1>1. CASE InTx /\ InTx'
  <2>1. CASE w_ret # "ok" /\ w_ret' # "ok"
    BY <1>1, <2>1, Hidden
  <2>2. CASE w_ret = "ok" \/ w_ret' = "ok"
    BY <1>1, <2>2 DEF WriteInvariant, WriteReturnInv, InTx
  <2> QED BY <2>1, <2>2
<1>2. CASE InTx /\ ~InTx' /\ ~W!Recover
  <2>1. TxPc = "tx" /\ CardSeen = "rcv" /\ ~TxStale /\ TxMedium = before
    BY <1>2 DEF TxPc, CardSeen, TxStale, TxMedium
  <2>2. TxPc' = (IF w_pc' = "cmd24" THEN "loop" ELSE "txReady") /\ TxStale' = programmed'
    BY <1>2 DEF TxPc, TxStale, WriteInvariant, W!TypeOK
  <2>3. w_ret # "ok" /\ w_ret' # "ok" /\ w_pc' \in {"check", "ready", "cmd24"}
    BY <1>2 DEF InTx, WriteInvariant, WriteReturnInv, W!TypeOK, W!Next, W!Cmd24, W!Fill, W!Filled,
         W!Xfer, W!Check, W!Ready, W!Shift, W!Accept, W!Reject, W!DataTimeout, W!Finish,
         W!Recover, W!Fail, W!driver
  <2>4. TxReply' = TxReply /\ TxReply' = Tx!NoReply
    BY <2>3 DEF TxReply, Tx!NoReply
  <2>5. ASSUME programmed'
        PROVE  CardSeen' = "prg" /\ (w_pc' = "cmd24" => late)
    <3>1. cardState' \in {"prg", "tran"}
      BY <1>2, <2>5 DEF InTx, WriteInvariant, WriteCardInv, W!TypeOK
    <3>2. ASSUME w_pc' = "ready"
          PROVE  cardState' = "prg"
      <4>1. ~(W!Cmd24 \/ W!Fill \/ W!Filled \/ W!Xfer \/ W!Ready)
        BY <3>2 DEF W!Cmd24, W!Fill, W!Filled, W!Xfer, W!Ready, W!Fail
      <4>2. ~W!Check
        BY <1>2, <3>2 DEF InTx, W!Check, W!Fail
      <4>3. ~(W!Shift \/ W!Reject \/ W!DataTimeout \/ W!Finish)
        BY <1>2, <2>5 DEF InTx, W!Shift, W!Reject, W!DataTimeout, W!Finish, W!driver,
                          WriteInvariant, WriteCardInv
      <4> QED BY <1>2, <4>1, <4>2, <4>3 DEF W!Next, W!Accept
    <3>3. CardSeen' = "prg"
      BY <1>2, <2>3, <2>5, <3>1, <3>2 DEF CardSeen
    <3>4. ASSUME w_pc' = "cmd24", ~late
          PROVE  FALSE
      <4>1. CASE W!Filled
        BY <2>5, <3>4, <4>1 DEF W!Filled, WriteInvariant, WriteCardInv, WriteCountInv, W!TypeOK
      <4>2. CASE W!Xfer
        BY <2>5, <3>4, <4>2 DEF W!Xfer, W!Fail, WriteInvariant, WriteCardInv
      <4>3. CASE W!Check
        BY <3>4, <4>3 DEF W!Check, WriteInvariant, WriteLimitInv
      <4>4. CASE W!Ready
        BY <1>2, <3>4, <4>4 DEF W!Ready, InTx, WriteInvariant, WriteSeenInv
      <4>5. CASE W!Accept
        BY <2>3, <3>4, <4>5 DEF W!Accept, W!driver, WriteInvariant, WriteReturnInv,
                                WriteCountInv, W!TypeOK
      <4>6. ~(W!Cmd24 \/ W!Fill)
        BY <3>4 DEF W!Cmd24, W!Fill
      <4>7. ~(W!Shift \/ W!Reject \/ W!DataTimeout \/ W!Finish)
        BY <1>2, <2>5, <3>4 DEF InTx, W!Shift, W!Reject, W!DataTimeout, W!Finish, W!driver,
                          WriteInvariant, WriteCardInv
      <4> QED BY <1>2, <4>1, <4>2, <4>3, <4>4, <4>5, <4>6, <4>7 DEF W!Next
    <3> QED BY <3>3, <3>4
  <2>6. ASSUME ~programmed'
        PROVE  CardSeen' \in {"tran", "rcv"} /\ (w_pc' # "cmd24" => late)
    <3>1. cardState' \in {"tran", "silent"}
      BY <1>2, <2>6 DEF InTx, WriteInvariant, WriteCardInv, W!TypeOK
    <3>2. CardSeen' \in {"tran", "rcv"}
      BY <1>2, <2>6, <3>1 DEF CardSeen
    <3>3. w_pc' # "cmd24" => late'
      BY <2>3, <2>6 DEF WriteInvariant, WriteSeenInv, W!TypeOK
    <3>4. late' = late
      BY DEF W!Next, W!Cmd24, W!Fill, W!Filled, W!Xfer, W!Check, W!Ready, W!Shift, W!Accept,
             W!Reject, W!DataTimeout, W!Finish, W!Recover, W!driver
    <3> QED BY <3>2, <3>3, <3>4
  <2> QED BY <2>1, <2>2, <2>4, <2>5, <2>6, Outcome DEF WriteInvariant, W!TypeOK
<1>3. CASE ~InTx /\ ~W!Cmd24
  <2>0. /\ TxPc = IF w_pc = "cmd24" THEN "loop" ELSE "txReady"
        /\ TxStale = programmed /\ cardState \in {"tran", "silent", "prg"}
    BY <1>3 DEF InTx, TxPc, TxStale, WriteInvariant, W!TypeOK
  <2>1. CASE W!Check
    <3>1. w_pc = "check" /\ w_pc' = "ready" /\ UNCHANGED <<cardState, programmed, w_ret>>
      BY <1>3, <2>1 DEF InTx, W!Check
    <3>2. ~InTx'
      BY <1>3, <3>1 DEF InTx
    <3>3. TxPc = "txReady" /\ TxPc' = "txReady" /\ UNCHANGED <<TxStale, TxMedium, TxReply>>
      BY <1>3, <3>1, <3>2 DEF TxPc, TxStale, TxMedium, TxReply
    <3>4. CASE programmed /\ cardState = "tran"
      <4>1. CardSeen = "prg" /\ CardSeen' = "tran"
        BY <1>3, <3>1, <3>2, <3>4 DEF CardSeen
      <4> QED BY <3>3, <4>1 DEF Tx!CardFinish, Tx!BecomesCard, TxProgramming, Tx!driver
    <3>5. CASE ~(programmed /\ cardState = "tran")
      <4>1. CardSeen' = CardSeen
        BY <1>3, <2>0, <3>1, <3>2, <3>5 DEF CardSeen, WriteInvariant, WriteCardInv
      <4> QED BY <3>3, <4>1 DEF TxProgramming, Tx!vars, Tx!driver, Tx!card
    <3> QED BY <3>4, <3>5
  <2>2. CASE W!Ready
    <3>1. w_pc = "ready" /\ w_pc' = "cmd24" /\ UNCHANGED <<cardState, programmed, late>>
      BY <2>2 DEF W!Ready, W!Fail
    <3>2. ~InTx'
      BY <1>3, <3>1 DEF InTx
    <3>3. TxPc = "txReady" /\ TxPc' = "loop" /\ UNCHANGED <<TxStale, TxMedium>>
      BY <1>3, <3>1, <3>2 DEF TxPc, TxStale, TxMedium
    <3>4. TxReply = Tx!NoReply
      BY <3>1 DEF TxReply, Tx!NoReply, WriteInvariant, WriteReturnInv
    <3>5. CASE cardState = "tran"
      <4>1. w_ret' = "ok"
        BY <2>2, <3>5 DEF W!Ready
      <4>2. CardSeen = "tran" /\ CardSeen' = "tran"
        BY <1>3, <3>1, <3>2, <3>5, <4>1 DEF CardSeen
      <4>3. TxReply' = Tx!Ack
        BY <4>1 DEF TxReply, Tx!Ack
      <4>4. Tx!Return(TRUE)
        BY <3>3, <4>3 DEF Transfers, Tx!Return
      <4> QED BY <3>3, <4>2, <4>4 DEF Tx!TxReady, Tx!WaitOk, TxProgramming, Tx!card
    <3>6. CASE cardState # "tran"
      <4>1. w_ret' = "error"
        BY <2>2, <3>6 DEF W!Ready, W!Fail
      <4>2. TxReply' = Tx!NoReply
        BY <4>1 DEF TxReply, Tx!NoReply
      <4>3. Tx!Fail
        BY <3>3, <4>2 DEF Transfers, Tx!Fail, Tx!Return
      <4>4. CardSeen' = CardSeen
        BY <1>3, <2>0, <3>1, <3>2, <3>6, <4>1 DEF CardSeen, WriteInvariant, WriteCardInv
      <4>5. CardSeen = "rcv" \/ Tx!Busy("txReady")
        <5>1. CASE cardState = "silent"
          BY <1>3, <5>1 DEF CardSeen
        <5>2. CASE cardState = "prg"
          BY <3>1, <5>2 DEF TxFaults, Tx!Busy, WriteInvariant, WriteSeenInv
        <5> QED BY <2>0, <3>6, <5>1, <5>2
      <4>6. Tx!WaitFails("txReady")
        BY <3>3, <4>4, <4>5 DEF Tx!WaitFails, TxProgramming, Tx!card
      <4> QED BY <3>3, <4>3, <4>6 DEF Tx!TxReady
    <3> QED BY <3>5, <3>6
  <2>3. CASE W!Finish
    <3>1. /\ cardState = "prg" /\ cardState' = "tran"
          /\ UNCHANGED <<programmed, w_pc, w_timeout, w_ret>>
      BY <2>3 DEF W!Finish, W!driver
    <3>2. ~InTx'
      BY <1>3, <3>1 DEF InTx
    <3>3. UNCHANGED <<TxPc, TxStale, TxMedium, TxReply>>
      BY <1>3, <3>1, <3>2 DEF TxPc, TxStale, TxMedium, TxReply
    <3>4. CASE CardSeen' = CardSeen
      BY <3>3, <3>4 DEF TxProgramming, Tx!vars, Tx!driver, Tx!card
    <3>5. CASE CardSeen' # CardSeen
      <4>1. CardSeen = "prg" /\ CardSeen' = "tran"
        BY <1>3, <3>1, <3>2, <3>5 DEF CardSeen
      <4> QED BY <3>3, <4>1 DEF Tx!CardFinish, Tx!BecomesCard, TxProgramming, Tx!driver
    <3> QED BY <3>4, <3>5
  <2>4. W!Check \/ W!Ready \/ W!Finish \/ W!Recover
    BY <1>3 DEF InTx, W!Next, W!Cmd24, W!Fill, W!Filled, W!Xfer, W!Shift, W!Accept, W!Reject,
         W!DataTimeout
  <2> QED BY <2>1, <2>2, <2>3, <2>4
<1> QED BY <1>1, <1>2, <1>3

\* Every step of a read, too.
LEMMA ReadStepIsRx ==
  ASSUME ReadInvariant, ReadInvariant', R!Next, Transfers,
         <<"error", "rx">> \in Faults, RxFaults
  PROVE  R!Cmd17 \/ Rx!Rx \/ UNCHANGED Rx!vars
<1>1. CASE R!Status
  <2>1. /\ r_pc = "status" /\ r_pc' = "cmd17" /\ r_ret' \in {"ok", "error"}
        /\ UNCHANGED <<damaged, end>>
    BY <1>1 DEF R!Status
  <2>2. RxPc = "rx" /\ RxPc' = IF r_ret' = "ok" THEN "rxReady" ELSE "loop"
    BY <2>1 DEF RxPc
  <2>3. RxBuf' \in Data
    BY <2>1 DEF Transfers, RxBuf
  <2>4. CASE r_ret' = "ok" /\ ~damaged
    <3>1. RxBuf' = Rx!Addressed
      BY <2>1, <2>4 DEF Transfers, RxBuf, Rx!Addressed, Rx!Sector
    <3> QED BY <2>2, <2>4, <3>1 DEF Rx!Rx, Rx!Continue
  <2>5. CASE r_ret' = "ok" /\ damaged
    <3>1. Rx!Late("rx")
      BY <2>1, <2>5 DEF Rx!Late, RxFaults, ReadInvariant, R!ReadTells, R!OkIsUndamaged
    <3> QED BY <2>2, <2>3, <2>5, <3>1 DEF Rx!Rx, Rx!Continue
  <2>6. CASE r_ret' = "error"
    <3>1. Rx!Return(FALSE)
      BY <2>2, <2>6 DEF Transfers, Rx!Return, Rx!NoReply
    <3> QED BY <2>2, <2>3, <3>1 DEF Rx!Rx, Rx!Error
  <2> QED BY <2>1, <2>4, <2>5, <2>6 DEF ReadInvariant, R!TypeOK
<1>2. CASE ~R!Status /\ ~R!Cmd17
  <2>1. r_pc # "cmd17" /\ r_pc' # "cmd17"
    BY <1>2 DEF R!Next, R!Wait, R!Poll, R!Take, R!Look, R!Arrive, R!RaiseEnd, R!DataTimeout,
                R!driver
  <2> QED BY <2>1 DEF RxPc, RxBuf, Rx!vars, Rx!driver, Rx!card
<1> QED BY <1>1, <1>2

\* The ends of the new payload's writes are those EmmcDriver has: with an error on the bus,
\* if no write ends after the polls, and otherwise with a late end and a busy card.
THEOREM WritesEndAsModelled ==
  ASSUME Transfers, <<"error", "tx">> \in Faults
  PROVE  Spec /\ TxFaults => WriteOutcomes
<1>1. Invariant /\ Invariant' /\ TxFaults /\ [Next]_vars
        => [which = "write" => WriteStep]_(Tx!vars)
  <2> SUFFICES ASSUME Invariant, Invariant', TxFaults, [Next]_vars
               PROVE  [which = "write" => WriteStep]_(Tx!vars)
    OBVIOUS
  <2>1. CASE which = "write" /\ W!Next
    BY <2>1, WriteStepIsTx, PioAssumption DEF Invariant
  <2>2. CASE UNCHANGED wvars
    BY <2>2 DEF wvars, InTx, CardSeen, TxPc, TxReply, TxStale, TxMedium, TxProgramming, Tx!vars,
                Tx!driver, Tx!card
  <2> QED BY <2>1, <2>2 DEF Next, vars
<1>2. TxFaults /\ [Next]_vars => TxFaults'
  <2>1. Next \/ UNCHANGED vars => late' = late
    BY DEF Next, vars, wvars, W!Next, W!Cmd24, W!Fill, W!Filled, W!Xfer, W!Check, W!Ready,
           W!Shift, W!Accept, W!Reject, W!DataTimeout, W!Finish, W!Recover, W!driver
  <2> QED BY <2>1 DEF TxFaults
<1> QED BY <1>1, <1>2, Always, PTL DEF Spec, WriteOutcomes, WriteStep

\* The same of its reads.
THEOREM ReadsEndAsModelled ==
  ASSUME Transfers, <<"error", "rx">> \in Faults
  PROVE  Spec /\ RxFaults => ReadOutcomes
<1>1. Invariant /\ Invariant' /\ RxFaults /\ [Next]_vars
        => [which = "read" => R!Cmd17 \/ Rx!Rx]_(Rx!vars)
  <2> SUFFICES ASSUME Invariant, Invariant', RxFaults, [Next]_vars
               PROVE  [which = "read" => R!Cmd17 \/ Rx!Rx]_(Rx!vars)
    OBVIOUS
  <2>1. CASE which = "read" /\ R!Next
    BY <2>1, ReadStepIsRx DEF Invariant
  <2>2. CASE UNCHANGED rvars
    BY <2>2 DEF rvars, RxPc, RxBuf, Rx!vars, Rx!driver, Rx!card
  <2> QED BY <2>1, <2>2 DEF Next, vars
<1>2. RxFaults /\ [Next]_vars => RxFaults'
  <2>1. Next \/ UNCHANGED vars => end' = end
    BY DEF Next, vars, rvars, R!Next, R!Cmd17, R!Wait, R!Poll, R!Take, R!Look, R!Status,
           R!Arrive, R!RaiseEnd, R!DataTimeout, R!driver
  <2> QED BY <2>1 DEF RxFaults
<1> QED BY <1>1, <1>2, Always, PTL DEF Spec, ReadOutcomes
=============================================================================
