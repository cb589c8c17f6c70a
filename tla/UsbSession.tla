----------------------------- MODULE UsbSession -----------------------------
(***************************************************************************)
(* The bulk pipes between mt8113_reflash.py and the command loop of        *)
(* stage2.c.  The host is a series of sessions, one per run of the tool:   *)
(* each connects and issues commands, and ends when it is done, at an      *)
(* error, at a read timeout (5 s) or when the user interrupts it.  The     *)
(* agent takes dwords from the pipe one by one and cannot tell where a     *)
(* command begins but by having read the one before to its end; nothing is *)
(* flushed when a session begins.                                          *)
(*                                                                         *)
(* out is the pipe to the agent, in dwords; in the pipe to the host, in    *)
(* the packets that the agent's calls of usbdl_put_data make: an           *)
(* acknowledgement is one of a single dword, a sector is sent in chunks.   *)
(* The eMMC driver is what BlockStore promises: it executes the request    *)
(* and reports success, or reports failure.                                *)
(***************************************************************************)
EXTENDS Naturals, Sequences, SequencesExt

CONSTANTS
  RegionId,    \* the region the host works on
  Sectors,
  Blocks,      \* what the host may write: sequences of dwords
  BlockWords,  \* dwords in a sector (128)
  ChunkWords,  \* dwords in a chunk of a reply (USBDL_CHUNK_SIZE, 64)
  ExtReplies,  \* what may be sent for EXT_CSD: the register, or what the buffer
               \* holds when the register could not be read
  OutCap,      \* dwords the pipe to the agent holds
  InCap,       \* packets the pipe to the host holds
  Upsets,      \* what may disturb a command: "abort" while it is being sent,
               \* "interrupt" while its reply is awaited, "late" replies
  MaxUpsets    \* how often that happens

ASSUME UsbSessionAssumption ==
  /\ ChunkWords \in Nat \ {0, 1} /\ BlockWords \in {ChunkWords * n : n \in 1..BlockWords}
  /\ OutCap \in Nat \ {0} /\ InCap \in Nat \ {0}
  /\ Blocks \subseteq [1..BlockWords -> UNION {{b[i] : i \in 1..BlockWords} : b \in Blocks}]
  /\ ExtReplies \subseteq [1..BlockWords -> UNION {{b[i] : i \in 1..BlockWords} : b \in ExtReplies}]
  /\ Upsets \subseteq {"abort", "interrupt", "late"}
  /\ MaxUpsets \in Nat

VARIABLES
  host,    \* "off" (no session), "idle", "sending", "waiting"
  cmd,     \* the host's command: kind, sector, block
  sent,    \* dwords of it already sent
  got,     \* dwords of the reply already received
  done,    \* the last command that succeeded and what it returned
  out, in,
  agent,   \* what the agent reads next: "magic", "cmd", "region", "block",
           \* "data"; "exec" is a complete command, "reply" its reply
           \* being sent; "dead" the final loop
  req,     \* the agent's command: kind, region, sector, data
  toSend,  \* packets of the reply still to be sent
  store,   \* contents of the region on the card
  upsets   \* the upsets so far, a sequence

hostVars == <<host, cmd, sent, got, done>>
agentVars == <<agent, req, toSend, store>>
vars == <<hostVars, out, in, agentVars, upsets>>

Commands ==
  {[kind |-> k, sector |-> s, block |-> <<>>] : k \in {"read"}, s \in Sectors}
    \cup {[kind |-> "write", sector |-> s, block |-> b] : s \in Sectors, b \in Blocks}
    \cup {[kind |-> "ext", sector |-> CHOOSE s \in Sectors : TRUE, block |-> <<>>]}

\* What send_command, and write_sector's usbwrite of the data, put in the pipe.
Dwords(c) ==
  <<"MAGIC", c.kind>> \o (IF c.kind = "ext" THEN <<>> ELSE <<RegionId, c.sector>>)
                      \o c.block

Idle == [kind |-> "none", region |-> RegionId, sector |-> RegionId, data |-> <<>>]

\* The packets of a reply, and the dwords the host waits for.
AckReply == << <<"ACK">> >>
DataReply(b) ==
  [i \in 1..(BlockWords \div ChunkWords) |->
     SubSeq(b, (i - 1) * ChunkWords + 1, i * ChunkWords)]
ReplySize(c) == IF c.kind = "write" THEN 1 ELSE BlockWords

Words == {"MAGIC", "read", "write", "ext", RegionId} \cup Sectors
           \cup UNION {Range(b) : b \in Blocks}

TypeOK ==
  /\ host \in {"off", "idle", "sending", "waiting"}
  /\ cmd \in Commands
  /\ sent \in 0..(4 + BlockWords)
  /\ Len(got) \in 0..ReplySize(cmd)
  /\ done.kind \in {"none", "read", "write", "ext"}
  /\ out \in BoundedSeq(Words, OutCap)
  /\ Len(in) \in 0..InCap
  /\ agent \in {"magic", "cmd", "region", "block", "data", "exec", "reply", "dead"}
  /\ req.data \in BoundedSeq(Words, BlockWords)
  /\ toSend = <<>> <=> agent # "reply"
  /\ DOMAIN store = Sectors
  /\ upsets \in BoundedSeq(Upsets, MaxUpsets)

-----------------------------------------------------------------------------
(* The host                                                                *)

\* main: connect.  The pipes are left as they are.
Connect ==
  /\ host = "off"
  /\ host' = "idle"
  /\ UNCHANGED <<cmd, sent, got, done, out, in, agentVars, upsets>>

\* main is done, or raises for a reason of its own (bounds, files).
Disconnect ==
  /\ host = "idle"
  /\ host' = "off"
  /\ UNCHANGED <<cmd, sent, got, done, out, in, agentVars, upsets>>

Begin(c) ==
  /\ host = "idle"
  /\ host' = "sending" /\ cmd' = c /\ sent' = 0 /\ got' = <<>>
  /\ done' = [kind |-> "none", sector |-> c.sector, data |-> <<>>]
  /\ UNCHANGED <<out, in, agentVars, upsets>>

Send ==
  /\ host = "sending" /\ Len(out) < OutCap
  /\ out' = Append(out, Dwords(cmd)[sent + 1])
  /\ sent' = sent + 1
  /\ host' = IF sent' = Len(Dwords(cmd)) THEN "waiting" ELSE "sending"
  /\ UNCHANGED <<cmd, got, done, in, agentVars, upsets>>

Upset(kind) ==
  kind \in Upsets /\ Len(upsets) < MaxUpsets /\ upsets' = Append(upsets, kind)

\* The tool exits: what it has received of a reply is forgotten.
EndSession == host' = "off" /\ got' = <<>> /\ UNCHANGED <<cmd, sent, done>>

\* usbwrite raises when the agent no longer takes anything.
SendTimeout ==
  /\ host = "sending" /\ Len(out) = OutCap
  /\ agent = "dead" \/ (agent = "reply" /\ Len(in) = InCap)
  /\ EndSession /\ UNCHANGED <<out, in, agentVars, upsets>>

\* The user interrupts the tool, or pack() raises at a number that does not
\* fit, after some of the dwords of a command have gone.
Abort ==
  /\ Upset("abort") /\ host = "sending"
  /\ EndSession /\ UNCHANGED <<out, in, agentVars>>

Interrupt ==
  /\ Upset("interrupt") /\ host = "waiting"
  /\ EndSession /\ UNCHANGED <<out, in, agentVars>>

\* usbread: packets are added to the reply until it has the size asked for,
\* whatever command they answer.
Receive ==
  /\ host = "waiting" /\ in # <<>>
  /\ Len(got) + Len(Head(in)) <= ReplySize(cmd)
  /\ in' = Tail(in)
  /\ got' = got \o Head(in)
  /\ IF Len(got') < ReplySize(cmd)
     THEN UNCHANGED <<host, done>>
     ELSE /\ host' = "idle"
          /\ done' = [kind |-> cmd.kind, sector |-> cmd.sector, data |-> got']
  /\ UNCHANGED <<cmd, sent, out, agentVars, upsets>>

\* A packet larger than what is still asked for overflows the read, which
\* raises; the packet is lost.
ReceiveOverflow ==
  /\ host = "waiting" /\ in # <<>>
  /\ Len(got) + Len(Head(in)) > ReplySize(cmd)
  /\ in' = Tail(in)
  /\ EndSession /\ UNCHANGED <<out, agentVars, upsets>>

\* Mutant: usbread waits for ever, unless the reply is late.
ReceiveTimeout_Never ==
  /\ host = "waiting" /\ in = <<>>
  /\ Upset("late")
  /\ EndSession /\ UNCHANGED <<out, in, agentVars>>

\* Five seconds without a packet.  A reply that is not late has come by then,
\* if there is one.
NoReplyToCome ==
  \/ agent = "dead"
  \/ agent \notin {"exec", "reply"} /\ out = <<>>
ReceiveTimeout ==
  /\ host = "waiting" /\ in = <<>>
  /\ \/ NoReplyToCome /\ UNCHANGED upsets
     \/ Upset("late")
  /\ EndSession /\ UNCHANGED <<out, in, agentVars>>

-----------------------------------------------------------------------------
(* The agent                                                               *)

Recv(expected) ==
  /\ agent = expected /\ out # <<>>
  /\ out' = Tail(out)
  /\ UNCHANGED <<hostVars, in, toSend, store, upsets>>

\* Anything but the magic ends the command loop for good.
RecvMagic ==
  /\ Recv("magic")
  /\ agent' = IF Head(out) = "MAGIC" THEN "cmd" ELSE "dead"
  /\ req' = Idle

\* Mutant: command 0x1003 takes arguments like the others.
RecvCmd_ExtHasArguments ==
  /\ Recv("cmd")
  /\ agent' = IF Head(out) \in {"read", "write", "ext"} THEN "region" ELSE "magic"
  /\ req' = [req EXCEPT !.kind = Head(out)]

RecvCmd ==
  /\ Recv("cmd")
  /\ agent' = CASE Head(out) = "ext" -> "exec"
                [] Head(out) \in {"read", "write"} -> "region"
                [] OTHER -> "magic"
  /\ req' = [req EXCEPT !.kind = Head(out)]

RecvRegion ==
  /\ Recv("region")
  /\ agent' = "block" /\ req' = [req EXCEPT !.region = Head(out)]

\* Mutant: the data of a write are not read.
RecvBlock_NoData ==
  /\ Recv("block")
  /\ agent' = "exec"
  /\ req' = [req EXCEPT !.sector = Head(out)]

RecvBlock ==
  /\ Recv("block")
  /\ agent' = IF req.kind = "read" THEN "exec" ELSE "data"
  /\ req' = [req EXCEPT !.sector = Head(out)]

\* Mutant: one dword too many is read.
RecvData_OneMore ==
  /\ Recv("data")
  /\ req' = [req EXCEPT !.data = Append(@, Head(out))]
  /\ agent' = IF Len(req'.data) > BlockWords THEN "exec" ELSE "data"

RecvData ==
  /\ Recv("data")
  /\ req' = [req EXCEPT !.data = Append(@, Head(out))]
  /\ agent' = IF Len(req'.data) = BlockWords THEN "exec" ELSE "data"

Reply(r) == agent' = "reply" /\ toSend' = r

Addressed == req.region = RegionId /\ req.sector \in Sectors

\* The driver's result, and the reply: a command that failed gets none.
ExecRead ==
  /\ agent = "exec" /\ req.kind = "read" /\ Addressed
  /\ Reply(DataReply(store[req.sector]))
  /\ UNCHANGED <<hostVars, out, in, req, store, upsets>>

\* Mutant: a write is acknowledged twice.
ExecWrite_AcksTwice ==
  /\ agent = "exec" /\ req.kind = "write" /\ Addressed
  /\ Reply(AckReply \o AckReply)
  /\ store' = [store EXCEPT ![req.sector] = req.data]
  /\ UNCHANGED <<hostVars, out, in, req, upsets>>

ExecWrite ==
  /\ agent = "exec" /\ req.kind = "write" /\ Addressed
  /\ Reply(AckReply)
  /\ store' = [store EXCEPT ![req.sector] = req.data]
  /\ UNCHANGED <<hostVars, out, in, req, upsets>>

ExecExtCsd ==
  /\ agent = "exec" /\ req.kind = "ext"
  /\ \E e \in ExtReplies : Reply(DataReply(e))
  /\ UNCHANGED <<hostVars, out, in, req, store, upsets>>

\* Mutant: a failed command is answered like one that succeeded.
ExecFails_Answers ==
  /\ agent = "exec" /\ req.kind \in {"read", "write"}
  /\ Reply(IF req.kind = "write" THEN AckReply
           ELSE DataReply([i \in 1..BlockWords |-> "ZERO"]))
  /\ UNCHANGED <<hostVars, out, in, req, store, upsets>>

\* A write that failed may have reached the card.
ExecFails ==
  /\ agent = "exec" /\ req.kind \in {"read", "write"}
  /\ agent' = "magic"
  /\ \/ UNCHANGED store
     \/ /\ req.kind = "write" /\ Addressed
        /\ store' = [store EXCEPT ![req.sector] = req.data]
  /\ UNCHANGED <<hostVars, out, in, req, toSend, upsets>>

\* usbdl_put_data: one packet.
SendPacket ==
  /\ agent = "reply" /\ Len(in) < InCap
  /\ in' = Append(in, Head(toSend))
  /\ toSend' = Tail(toSend)
  /\ agent' = IF toSend' = <<>> THEN "magic" ELSE "reply"
  /\ UNCHANGED <<hostVars, out, req, store, upsets>>

-----------------------------------------------------------------------------

Init ==
  /\ host = "off" /\ cmd \in {c \in Commands : c.kind = "ext"}
  /\ sent = 0 /\ got = <<>>
  /\ done = [kind |-> "none", sector |-> cmd.sector, data |-> <<>>]
  /\ out = <<>> /\ in = <<>>
  /\ agent = "magic" /\ req = Idle /\ toSend = <<>> /\ upsets = <<>>
  /\ store \in [Sectors -> Blocks]

HostWrites == Send \/ SendTimeout
HostReads == Receive \/ ReceiveOverflow \/ ReceiveTimeout
AgentStep ==
  \/ RecvMagic \/ RecvCmd \/ RecvRegion \/ RecvBlock \/ RecvData
  \/ ExecRead \/ ExecWrite \/ ExecExtCsd \/ ExecFails \/ SendPacket

Next ==
  \/ Connect \/ Disconnect \/ \E c \in Commands : Begin(c)
  \/ HostWrites \/ HostReads \/ Abort \/ Interrupt
  \/ AgentStep

Spec == Init /\ [][Next]_vars

\* Both programs run; the host's blocking calls have timeouts.  Nothing
\* obliges the user to start the tool or to issue a command.
FairSpec == Spec /\ WF_vars(HostWrites) /\ WF_vars(HostReads) /\ WF_vars(AgentStep)

-----------------------------------------------------------------------------
(* Correctness                                                             *)

Undisturbed == upsets = <<>>
NothingAborted == "abort" \notin Range(upsets)

\* Undisturbed, host and agent agree where a command begins: between two
\* commands, whether they succeeded or not, nothing is left in the pipes.
InSync ==
  Undisturbed /\ host \in {"off", "idle"} => out = <<>> /\ in = <<>> /\ agent = "magic"

\* read_sector returns the contents of the sector it was asked for, and
\* get_ext_csd what was sent for the EXT_CSD: not the reply to a command
\* before it.
ReturnsWhatWasAsked ==
  host = "idle" =>
    /\ done.kind = "read" => done.data = store[done.sector]
    /\ done.kind = "ext" => done.data \in ExtReplies

\* When write_sector returns True the sector holds its data.
WriteIsStored ==
  host = "idle" /\ done.kind = "write" => store[done.sector] = cmd.block

\* Undisturbed, the host's results are true.
UndisturbedResultsAreTrue == Undisturbed => ReturnsWhatWasAsked /\ WriteIsStored

\* A wait that is cut off leaves at most one reply behind, for later sessions
\* to find; the errors and timeouts they run into do not add to it.
LeftoversBounded ==
  NothingAborted /\ host \in {"off", "idle"} /\ agent = "magic" /\ out = <<>>
    => Len(in) <= Len(upsets) * (BlockWords \div ChunkWords)

\* Unless a command is cut off while it is being sent, the agent never takes
\* something else for the magic, which would end it, and what is on the card
\* has been handed to write_sector by somebody: the words of the protocol are
\* never taken for data.
FramingSurvives ==
  NothingAborted => agent # "dead" /\ \A s \in Sectors : store[s] \in Blocks

\* Whatever happens, a command of the host comes to an end.
CommandReturns == (host \in {"sending", "waiting"}) ~> (host \in {"off", "idle"})
=============================================================================
