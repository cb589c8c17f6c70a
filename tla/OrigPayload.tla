----------------------------- MODULE OrigPayload -----------------------------
(***************************************************************************)
(* The original payload (stage2_static_orig): the command loop of stage2.c *)
(* over the eMMC layer of drivers/mmc.c, one action per eMMC command or    *)
(* RPMB exchange.  OrigMsdc has the commands and data phases themselves;   *)
(* here a command is executed and answered ("ok"), executed with its       *)
(* answer damaged ("unheard") or not executed ("lost"), and the driver     *)
(* cannot tell the last two apart.  What makes the layer delicate is what  *)
(* it does not look at: the results of mmc_set_part, of the data phases of *)
(* RPMB frames, of every initialization command and of RPMB writes; that   *)
(* the error of a block that was written belongs to a later transfer; and  *)
(* that a read which breaks off leaves its words to the reads after it.    *)
(***************************************************************************)
EXTENDS Naturals

CONSTANTS
  Data,        \* contents of a block or of an RPMB data field
  Zeros,       \* the content of a buffer that has been cleared
  MaxCounter   \* bound: the RPMB write counter

ASSUME OrigPayloadAssumption == Zeros \in Data /\ MaxCounter \in Nat

User == 0
Boot == 1
Rpmb == 3
Unknown == 9  \* no partition

RpmbAddrs == {0, 1}

VARIABLES
  pc, step, cmd,
  type,        \* of the RPMB request at hand
  wc,          \* the write counter read
  ret,         \* of the operation the command loop has called
  reply,       \* sent to the host for the last command
  rpmb_key,    \* the array in the payload's memory
  late,        \* MSDC_INT has the error of a transfer that has returned 0
  leftover,    \* the FIFO has words of a read that has broken off
  card,
  trouble,     \* history: a fault concerns this command
  named,       \* history: the partition the host has named last, by 0x1002 or 0x6000
  before       \* history: RPMB data and counter when this command came

fifo == <<late, leftover>>
vars == <<pc, step, cmd, type, wc, ret, reply, rpmb_key, fifo, card, trouble, named, before>>

Commands ==
  [op : {"init", "read", "other"}] \cup [op : {"write", "rpmb_write"}, data : Data]
    \cup [op : {"part"}, part : {User, Boot, Rpmb}]
    \cup [op : {"rpmb_read"}, addr : RpmbAddrs] \cup [op : {"key"}, key : {"zeros", "card"}]

\* What a frame of the card says.
Frames == [data : Data, counter : 0..MaxCounter, result : {"ok", "refused"}]

\* The card: its partition blocks and RPMB data, the RPMB counter, the result of
\* the last authenticated write and the frame it would send next.
Cards == [
  state : {"down", "idle", "ready", "ident", "stby", "tran", "prg", "rcv"},
  part : {User, Boot, Rpmb}, switchError : BOOLEAN,
  blocks : [{User, Boot} -> Data],
  rpmb : [RpmbAddrs -> Data], counter : 0..MaxCounter, written : {"ok", "refused"},
  answer : Frames]

NoReply == [what |-> "none"]

TypeOK ==
  /\ pc \in {"down", "loop", "init", "cmd6", "status", "block", "request", "result",
             "response", "return"}
  /\ step \in 1..13 /\ cmd \in Commands /\ type \in {"none", "counter", "read", "write"}
  /\ wc \in 0..MaxCounter /\ ret \in {"none", "ok", "error"}
  /\ reply = NoReply \/ reply \in [what : {"ack"}] \cup [what : {"data"}, data : Data]
  /\ rpmb_key \in {"zeros", "card"} /\ card \in Cards
  /\ late \in BOOLEAN /\ leftover \in BOOLEAN
  /\ trouble \in BOOLEAN /\ named \in {User, Boot, Rpmb, Unknown}
  /\ before \in [rpmb : [RpmbAddrs -> Data], counter : 0..MaxCounter]

-----------------------------------------------------------------------------
(* The line: what may become of a command that the card takes or does not  *)
(* take in its state.  sdc_is_busy keeps every command but CMD13 waiting   *)
(* while the card programs.                                                *)

Outcomes == {"ok", "unheard", "lost"}

Sends(taken, o) == card.state # "prg" /\ (taken \/ o = "lost")

Trouble(fault) == trouble' = (trouble \/ fault)

\* msdc_reset_hw clears MSDC_INT and the FIFO.
ResetHw == late' = FALSE /\ leftover' = FALSE

\* A damaged or missing answer resets the controller.  After a 0x1002 that has
\* failed the host cannot tell where the card is.
Fails(o) ==
  /\ pc' = "return" /\ ret' = "error"
  /\ named' = IF cmd.op = "part" THEN Unknown ELSE named
  /\ IF o = "ok" THEN UNCHANGED fifo ELSE ResetHw

InTran == card.state = "tran"

-----------------------------------------------------------------------------
(* The command loop                                                        *)

\* The host loads the payload.  The memory of rpmb_key is zero, and no card
\* answers before it is initialized.
Load ==
  /\ pc = "down" /\ pc' = "loop"
  /\ rpmb_key' = "zeros" /\ named' = Unknown /\ ResetHw
  /\ card' = [card EXCEPT !.state = "down"]
  /\ UNCHANGED <<step, cmd, type, wc, ret, reply, trouble, before>>

\* 0x3000, a wrong magic or the loss of power ends the loop; what the payload and
\* the controller held is gone.
Stop ==
  /\ pc # "down" /\ pc' = "down" /\ trouble' = TRUE /\ reply' = NoReply
  /\ step' = 1 /\ wc' = 0 /\ ret' = "none" /\ rpmb_key' = "zeros" /\ named' = Unknown
  /\ ResetHw
  /\ UNCHANGED <<cmd, type, card, before>>

First(c) ==
  CASE c.op = "init" -> "init"
    [] c.op \in {"read", "write"} -> "block"
    [] c.op \in {"part", "rpmb_read", "rpmb_write"} -> "cmd6"
    [] c.op \in {"key", "other"} -> "return"

\* The first request of mmc_rpmb_read, and of mmc_rpmb_write.
FirstType(c) ==
  CASE c.op = "rpmb_read" -> "read" [] c.op = "rpmb_write" -> "counter" [] OTHER -> "none"

\* The commands with a data phase from the card.
Reads(c) == c.op \in {"read", "rpmb_read", "rpmb_write"}

\* Magic, command and arguments have come; 0x4000 has written the memory.  What
\* a fault has left behind concerns this command, unless it initializes: an error
\* not yet found, a card out of its transfer state, words for a read to take.
Receive(c) ==
  /\ pc = "loop" /\ (c.op = "rpmb_write" => card.counter < MaxCounter)
  /\ pc' = First(c) /\ cmd' = c /\ step' = 1
  /\ type' = FirstType(c) /\ ret' = "none" /\ reply' = NoReply /\ wc' = 0
  /\ rpmb_key' = IF c.op = "key" THEN c.key ELSE rpmb_key
  /\ trouble' = (c.op # "init" /\ (late \/ ~InTran \/ (leftover /\ Reads(c))))
  /\ before' = [rpmb |-> card.rpmb, counter |-> card.counter]
  /\ UNCHANGED <<fifo, card, named>>

\* Transfers that fail, 0x1002 and 0x2001 send nothing; 0x6000 and 0x2000 answer
\* whatever has happened.
Return ==
  /\ pc = "return" /\ pc' = "loop"
  /\ reply' = CASE cmd.op \in {"init", "key", "other"} -> [what |-> "ack"]
                [] cmd.op = "write" /\ ret = "ok" -> [what |-> "ack"]
                [] cmd.op = "rpmb_read" /\ reply = NoReply -> [what |-> "data", data |-> Zeros]
                [] OTHER -> reply
  /\ UNCHANGED <<step, cmd, type, wc, ret, rpmb_key, fifo, card, trouble, named, before>>

-----------------------------------------------------------------------------
(* 0x6000: initialization                                                  *)

\* The commands of mt8113_mmc_init and of mmc_init, whose first CMD1 is a probe.
InitSequence == <<"0", "1", "2", "3", "7", "13", "0", "probe", "1", "2", "3", "7">>

\* The states of the card that take a command of the sequence, and the next one.
TakenIn(c) ==
  CASE c = "0" -> {"down", "idle", "ready", "ident", "stby", "tran", "prg", "rcv"}
    [] c \in {"1", "probe"} -> {"idle"}
    [] c = "2" -> {"ready"}
    [] c = "3" -> {"ident"}
    [] c = "7" -> {"stby"}
    [] c = "13" -> {"stby", "tran", "prg", "rcv"}

LeadsTo(c) ==
  CASE c = "0" -> "idle" [] c = "1" -> "ready" [] c = "2" -> "ident" [] c = "3" -> "stby"
    [] c = "7" -> "tran" [] OTHER -> card.state

\* The result of each command is printed, or not looked at, and the next is sent.
\* mt8113_mmc_init begins with a reset of the controller and its FIFO.
InitCommand(o) ==
  /\ pc = "init" /\ step <= 12
  /\ LET c == InitSequence[step]
         taken == card.state \in TakenIn(c)
     IN /\ taken \/ o = "lost"
        /\ card' = IF o = "lost" THEN card
                   ELSE [card EXCEPT !.state = LeadsTo(c),
                                     !.part = IF c = "0" THEN User ELSE @]
  /\ Trouble(o # "ok") /\ step' = step + 1 /\ ResetHw
  /\ UNCHANGED <<pc, cmd, type, wc, ret, reply, rpmb_key, named, before>>

\* mmc_host_init resets the controller.
InitDone ==
  /\ pc = "init" /\ step = 13
  /\ pc' = "return" /\ ResetHw
  /\ named' = IF trouble THEN Unknown ELSE User
  /\ UNCHANGED <<step, cmd, type, wc, ret, reply, rpmb_key, card, trouble, before>>

-----------------------------------------------------------------------------
(* 0x1002 and the switch to RPMB: mmc_set_part                             *)

Target == IF cmd.op = "part" THEN cmd.part ELSE Rpmb

\* Mutant: the user area is taken for the default of the card.
Cmd6_NotForUser(o) ==
  /\ pc = "cmd6" /\ Sends(InTran, o) /\ Trouble(o # "ok")
  /\ IF o = "lost" \/ Target = User THEN UNCHANGED card
     ELSE \E refused \in BOOLEAN :
            card' = [card EXCEPT !.part = IF refused THEN @ ELSE Target,
                                 !.switchError = refused, !.state = "prg"]
  /\ IF o = "ok" THEN pc' = "status" /\ UNCHANGED <<ret, named, fifo>> ELSE Fails(o)
  /\ UNCHANGED <<step, cmd, type, wc, reply, rpmb_key, before>>

\* CMD6 writes 72 | part to PART_CONFIG; the card may refuse it.
Cmd6(o) ==
  /\ pc = "cmd6" /\ Sends(InTran, o) /\ Trouble(o # "ok")
  /\ IF o = "lost" THEN UNCHANGED card
     ELSE \E refused \in BOOLEAN :
            card' = [card EXCEPT !.part = IF refused THEN @ ELSE Target,
                                 !.switchError = refused, !.state = "prg"]
  /\ IF o = "ok" THEN pc' = "status" /\ UNCHANGED <<ret, named, fifo>> ELSE Fails(o)
  /\ UNCHANGED <<step, cmd, type, wc, reply, rpmb_key, before>>

\* Mutant: the wait goes on until the card has switched.
Status_UntilSwitched(o) ==
  /\ pc = "status" /\ Trouble(o # "ok" \/ card.switchError)
  /\ \/ o # "ok" /\ Fails(o)
     \/ o = "ok" /\ (card.state = "prg" \/ card.switchError) /\ UNCHANGED <<pc, ret, named, fifo>>
     \/ /\ o = "ok" /\ card.state # "prg" /\ ~card.switchError
        /\ UNCHANGED fifo
        /\ IF cmd.op = "part" THEN pc' = "return" /\ ret' = "ok" /\ named' = Target
           ELSE pc' = "request" /\ UNCHANGED <<ret, named>>
  /\ UNCHANGED <<step, cmd, type, wc, reply, rpmb_key, card, before>>

\* CMD13 until the card has left the programming state: there is no limit.
Status(o) ==
  /\ pc = "status" /\ Trouble(o # "ok" \/ card.switchError)
  /\ \/ o # "ok" /\ Fails(o)
     \/ o = "ok" /\ card.state = "prg" /\ UNCHANGED <<pc, ret, named, fifo>>
     \/ o = "ok" /\ card.state # "prg" /\ card.switchError /\ Fails(o)
     \/ /\ o = "ok" /\ card.state # "prg" /\ ~card.switchError
        /\ UNCHANGED fifo
        /\ IF cmd.op = "part" THEN pc' = "return" /\ ret' = "ok" /\ named' = Target
           ELSE pc' = "request" /\ UNCHANGED <<ret, named>>
  /\ UNCHANGED <<step, cmd, type, wc, reply, rpmb_key, card, before>>

-----------------------------------------------------------------------------
(* 0x1000 and 0x1001: mmc_read and mmc_write of a block.  The RPMB         *)
(* partition takes no CMD17 and CMD24.                                     *)

BlockTaken == InTran /\ card.part # Rpmb

\* The command fails, or the look before the first word finds the error of an
\* earlier transfer; each resets the controller.  A card that has taken CMD24 waits
\* for the block.
BlockFails(o) ==
  /\ pc = "block" /\ Sends(BlockTaken, o) /\ Trouble(o # "ok")
  /\ o = "ok" => late
  /\ pc' = "return" /\ ret' = "error" /\ ResetHw
  /\ card' = IF cmd.op = "write" /\ o # "lost" THEN [card EXCEPT !.state = "rcv"] ELSE card
  /\ UNCHANGED <<step, cmd, type, wc, reply, rpmb_key, named, before>>

\* A good block, which the words left in the FIFO push out of place by as many at
\* its end; a bad one whose error ends the loop, without a reset; one whose error
\* comes late.
ReadBlock ==
  /\ pc = "block" /\ cmd.op = "read" /\ Sends(BlockTaken, "ok") /\ ~late
  /\ \/ /\ ret' = "ok" /\ \E d \in Data : /\ d = card.blocks[card.part] \/ leftover
                                       /\ reply' = [what |-> "data", data |-> d]
        /\ Trouble(FALSE) /\ UNCHANGED fifo
     \/ ret' = "error" /\ leftover' = TRUE /\ Trouble(TRUE) /\ UNCHANGED <<reply, late>>
     \/ /\ ret' = "ok" /\ \E d \in Data : reply' = [what |-> "data", data |-> d]
        /\ late' = TRUE /\ Trouble(TRUE) /\ UNCHANGED leftover
  /\ pc' = "return"
  /\ UNCHANGED <<step, cmd, type, wc, rpmb_key, card, named, before>>

\* 0 as soon as the FIFO has the block: the card may still drop it.
WriteBlock ==
  /\ pc = "block" /\ cmd.op = "write" /\ Sends(BlockTaken, "ok") /\ ~late
  /\ \/ card' = [card EXCEPT !.blocks[card.part] = cmd.data] /\ UNCHANGED late
     \/ late' = TRUE /\ UNCHANGED card
  /\ pc' = "return" /\ ret' = "ok"
  /\ UNCHANGED <<step, cmd, type, wc, reply, rpmb_key, leftover, trouble, named, before>>

-----------------------------------------------------------------------------
(* 0x2000 and 0x2001: exchanges of RPMB frames                             *)

RpmbTaken == InTran /\ card.part = Rpmb

\* Mutant: the address is not put in the frame.
PreFrame_NoAddress(t) ==
  CASE t = "read" -> [type |-> t, addr |-> 0]
    [] t = "write" ->
         [type |-> t, addr |-> 0, counter |-> wc, data |-> cmd.data, mac |-> rpmb_key]
    [] OTHER -> [type |-> t]

\* The frame of a request, as mmc_rpmb_pre_frame fills it.  The nonce is always
\* zero; a write is to address 0, and its MAC is made with rpmb_key.
PreFrame(t) ==
  CASE t = "read" -> [type |-> t, addr |-> cmd.addr]
    [] t = "write" ->
         [type |-> t, addr |-> 0, counter |-> wc, data |-> cmd.data, mac |-> rpmb_key]
    [] OTHER -> [type |-> t]

Answer(d, result) == [data |-> d, counter |-> card.counter, result |-> result]

\* The card after a request (external): it executes a write with the right MAC and
\* counter, and otherwise prepares the frame it is asked for.
CardAfter(f) ==
  CASE f.type = "counter" -> [card EXCEPT !.answer = Answer(Zeros, "ok")]
    [] f.type = "read" -> [card EXCEPT !.answer = Answer(card.rpmb[f.addr], "ok")]
    [] f.type = "result" -> [card EXCEPT !.answer = Answer(Zeros, card.written)]
    [] f.type = "write" ->
         IF f.mac = "card" /\ f.counter = card.counter
         THEN [card EXCEPT !.rpmb[f.addr] = f.data, !.counter = @ + 1, !.written = "ok"]
         ELSE [card EXCEPT !.written = "refused"]

\* mmc_rpmb_send_command with a request: CMD23 and CMD25.  The result of the data
\* phase is not looked at: the frame may have been held back because of an
\* earlier error, which the card waits for, or be dropped by the card.
SendRequest(f, next, o) ==
  /\ Sends(RpmbTaken, o)
  /\ \/ /\ o # "ok" /\ Fails(o) /\ Trouble(TRUE)
        /\ card' = card \/ (o = "unheard" /\ card' = [card EXCEPT !.state = "rcv"])
     \/ /\ o = "ok" /\ pc' = next /\ UNCHANGED <<ret, named>>
        /\ \/ late /\ card' = [card EXCEPT !.state = "rcv"] /\ ResetHw /\ Trouble(TRUE)
           \/ ~late /\ card' = CardAfter(f) /\ UNCHANGED fifo /\ Trouble(FALSE)
           \/ ~late /\ late' = TRUE /\ UNCHANGED <<leftover, card>> /\ Trouble(TRUE)
  /\ UNCHANGED <<step, cmd, type, wc, reply, rpmb_key, before>>

\* STEP 1 and STEP 2 of mmc_rpmb_partition_ops.
Request(o) ==
  /\ pc = "request"
  /\ SendRequest(PreFrame(type), IF type = "write" THEN "result" ELSE "response", o)

RequestResult(o) == pc = "result" /\ SendRequest([type |-> "result"], "response", o)

\* What the cleared frame may hold after the data phase of a response, whose
\* result is not looked at, either: nothing after an error found before it; the
\* frame, or what the words left in the FIFO make of it; the beginning of it, with
\* the rest left in the FIFO; anything.
Cleared == [data |-> Zeros, counter |-> 0, result |-> "ok"]

Received(f) ==
  \/ late /\ ResetHw /\ f = Cleared /\ Trouble(TRUE)
  \/ ~late /\ UNCHANGED fifo /\ (f = card.answer \/ leftover) /\ Trouble(FALSE)
  \/ /\ ~late /\ leftover' = TRUE /\ UNCHANGED late /\ Trouble(TRUE)
     /\ leftover \/ f \in {Cleared, [Cleared EXCEPT !.data = card.answer.data]}
  \/ ~late /\ late' = TRUE /\ UNCHANGED leftover /\ Trouble(TRUE)

\* Mutant: the write request has the counter that its response will have.
GotCount_Ahead(f) ==
  /\ type = "counter" /\ wc' = f.counter + 1 /\ type' = "write" /\ pc' = "cmd6"
  /\ UNCHANGED <<ret, reply>>

\* mmc_rpmb_write, back from mmc_rpmb_get_write_count, sets the partition again.
GotCount(f) ==
  /\ type = "counter" /\ wc' = f.counter /\ type' = "write" /\ pc' = "cmd6"
  /\ UNCHANGED <<ret, reply>>

\* The end of mmc_rpmb_read: the data is what the host gets, whatever the result says.
GotData(f) ==
  /\ type = "read" /\ reply' = [what |-> "data", data |-> f.data]
  /\ pc' = "return" /\ ret' = "ok" /\ UNCHANGED <<type, wc>>

\* The end of mmc_rpmb_write: the result is printed.
GotResult == type = "write" /\ pc' = "return" /\ ret' = "ok" /\ UNCHANGED <<type, wc, reply>>

\* mmc_rpmb_post_frame and the way on.
PostFrame(f) == GotCount(f) \/ GotData(f) \/ GotResult

\* Mutant: a write whose response does not come is started over.
Response_Retries(o) ==
  /\ pc = "response" /\ Sends(RpmbTaken, o)
  /\ \/ /\ o # "ok" /\ type = "write" /\ type' = "counter" /\ pc' = "cmd6" /\ ResetHw
        /\ Trouble(TRUE) /\ UNCHANGED <<wc, reply, ret, named>>
     \/ o # "ok" /\ type # "write" /\ Fails(o) /\ Trouble(TRUE) /\ UNCHANGED <<type, wc, reply>>
     \/ o = "ok" /\ (\E f \in Frames : Received(f) /\ PostFrame(f)) /\ UNCHANGED named
  /\ UNCHANGED <<step, cmd, rpmb_key, card, before>>

\* STEP 3: CMD23 and CMD18.
Response(o) ==
  /\ pc = "response" /\ Sends(RpmbTaken, o)
  /\ \/ o # "ok" /\ Fails(o) /\ Trouble(TRUE) /\ UNCHANGED <<type, wc, reply>>
     \/ o = "ok" /\ (\E f \in Frames : Received(f) /\ PostFrame(f)) /\ UNCHANGED named
  /\ UNCHANGED <<step, cmd, rpmb_key, card, before>>

\* The card ends its programming state (external).
CardReady ==
  /\ card.state = "prg" /\ card' = [card EXCEPT !.state = "tran"]
  /\ UNCHANGED <<pc, step, cmd, type, wc, ret, reply, rpmb_key, fifo, trouble, named, before>>

-----------------------------------------------------------------------------

Init ==
  /\ pc = "down" /\ step = 1 /\ cmd = [op |-> "init"] /\ type = "none" /\ wc = 0
  /\ ret = "none" /\ reply = NoReply /\ rpmb_key = "zeros"
  /\ late = FALSE /\ leftover = FALSE
  /\ card = [state |-> "down", part |-> User, switchError |-> FALSE,
             blocks |-> [p \in {User, Boot} |-> Zeros], rpmb |-> [a \in RpmbAddrs |-> Zeros],
             counter |-> 0, written |-> "ok", answer |-> Cleared]
  /\ trouble = FALSE /\ named = Unknown
  /\ before = [rpmb |-> card.rpmb, counter |-> 0]

Step ==
  \/ Return \/ InitDone \/ ReadBlock \/ WriteBlock
  \/ \E o \in Outcomes :
       \/ InitCommand(o) \/ Cmd6(o) \/ BlockFails(o)
       \/ Request(o) \/ RequestResult(o) \/ Response(o)

Next ==
  \/ Load \/ Stop \/ \E c \in Commands : Receive(c)
  \/ Step \/ \E o \in Outcomes : Status(o)
  \/ CardReady

Spec == Init /\ [][Next]_vars

\* The payload does not wait for the host while it executes a command, and a
\* card ends its programming state.  No fault ends a loop of CMD13.
FairSpec == Spec /\ WF_vars(Step) /\ WF_vars(Status("ok")) /\ WF_vars(CardReady)

-----------------------------------------------------------------------------
(* Correctness: what the host may believe when the payload is back in the  *)
(* loop                                                                    *)

Untroubled == pc = "loop" /\ ~trouble

\* Blocks are those of the partition the host has named last, although the RPMB
\* commands leave the card in partition 3: the data sent is that of its block, and
\* a block acknowledged is in it unless its error is still to come.
BlocksAreRight ==
  Untroubled /\ named \in {User, Boot} =>
    /\ cmd.op = "read" /\ reply # NoReply => reply.data = card.blocks[named]
    /\ cmd.op = "write" /\ reply # NoReply => card.blocks[named] = cmd.data \/ late

\* Whatever is lost, one 0x2001 is executed at most once, with its own data, and
\* nothing else changes the RPMB data.
WriteOnce ==
  \/ card.counter = before.counter /\ card.rpmb = before.rpmb
  \/ /\ cmd.op = "rpmb_write" /\ card.counter = before.counter + 1
     /\ card.rpmb = [before.rpmb EXCEPT ![0] = cmd.data]

\* An untroubled 0x2000 sends what is stored at its address, and an untroubled
\* 0x2001 with the card's key has stored its data.
AnswersAreTrue ==
  Untroubled =>
    /\ cmd.op = "rpmb_read" /\ reply # NoReply => reply.data = card.rpmb[cmd.addr]
    /\ cmd.op = "rpmb_write" /\ rpmb_key = "card" => card.rpmb[0] = cmd.data

\* Every command comes back to the loop: no command of the driver is waited for
\* in vain, although the polls have no limit.
CommandEnds == pc \notin {"down", "loop"} ~> pc \in {"down", "loop"}

\* "STEP 2: check write result" (mmc.c:395): mmc_rpmb_write does not return
\* success for a write that the card has refused.
ResultIsChecked ==
  Untroubled /\ cmd.op = "rpmb_write" /\ ret = "ok" => card.counter = before.counter + 1
=============================================================================
