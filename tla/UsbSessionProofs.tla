-------------------------- MODULE UsbSessionProofs --------------------------
(***************************************************************************)
(* The bulk pipes for any capacities, sector sizes, numbers of sectors and *)
(* of upsets.                                                              *)
(***************************************************************************)
EXTENDS UsbSession, SequenceTheorems, TLAPS

-----------------------------------------------------------------------------
(* Sizes                                                                   *)

\* The packets of a reply with data.
Packets == BlockWords \div ChunkWords

\* The integer quotient of positive numbers.
LEMMA Quotient ==
  ASSUME NEW a \in Nat, NEW b \in Nat \ {0}
  PROVE  a \div b \in Nat /\ b * (a \div b) <= a /\ a < b * (a \div b) + b
OBVIOUS

\* Products grow with their factors.
LEMMA Monotone ==
  ASSUME NEW a \in Nat, NEW b \in Nat, NEW c \in Nat, a <= b
  PROVE  c * a \in Nat /\ c * b \in Nat /\ c * a <= c * b
<1>1. PICK d \in Nat : b = a + d
  <2>1. b - a \in Nat /\ b = a + (b - a)
    OBVIOUS
  <2> QED BY <2>1
<1>2. c * b = c * a + c * d /\ c * a \in Nat /\ c * d \in Nat
  BY <1>1
<1> QED BY <1>2

\* A block is a whole number of chunks.
LEMMA Sizes ==
  /\ ChunkWords \in Nat \ {0, 1} /\ BlockWords \in Nat \ {0} /\ Packets \in Nat \ {0}
  /\ ChunkWords * Packets = BlockWords /\ ChunkWords <= BlockWords
<1>1. PICK n \in 1..BlockWords : BlockWords = ChunkWords * n
  BY UsbSessionAssumption
<1>2. ChunkWords \in Nat \ {0, 1} /\ n \in Nat \ {0}
  BY UsbSessionAssumption
<1>3. BlockWords \in Nat /\ ChunkWords * 1 <= BlockWords
  BY <1>1, <1>2, Monotone
<1>4. Packets \in Nat /\ ChunkWords * Packets <= BlockWords
        /\ BlockWords < ChunkWords * Packets + ChunkWords
  BY <1>2, <1>3, Quotient DEF Packets
<1>5. ChunkWords * (Packets + 1) = ChunkWords * Packets + ChunkWords
  BY <1>2, <1>4
<1>6. ~(Packets + 1 <= n)
  <2> SUFFICES ASSUME Packets + 1 <= n PROVE FALSE
    OBVIOUS
  <2>1. ChunkWords * (Packets + 1) <= ChunkWords * n
    BY <1>2, <1>4, Monotone
  <2> QED BY <1>1, <1>2, <1>3, <1>4, <1>5, <2>1
<1>7. ~(n + 1 <= Packets)
  <2> SUFFICES ASSUME n + 1 <= Packets PROVE FALSE
    OBVIOUS
  <2>1. ChunkWords * (n + 1) <= ChunkWords * Packets
    BY <1>2, <1>4, Monotone
  <2>2. ChunkWords * (n + 1) = ChunkWords * n + ChunkWords
    BY <1>2
  <2> QED BY <1>1, <1>2, <1>3, <1>4, <2>1, <2>2
<1>8. Packets = n
  BY <1>2, <1>4, <1>6, <1>7
<1> QED BY <1>1, <1>2, <1>3, <1>8

-----------------------------------------------------------------------------
(* Commands and replies                                                    *)

\* What a sector, and a packet of a reply, may hold.
Contents == {s \in Seq(Words) : Len(s) = BlockWords}
Terms == Words \cup {"ACK"} \cup UNION {{e[i] : i \in 1..BlockWords} : e \in ExtReplies}
Packet == {s \in Seq(Terms) : Len(s) \in 1..ChunkWords}

LEMMA BlocksAreContents == Blocks \subseteq Contents
<1> SUFFICES ASSUME NEW b \in Blocks PROVE b \in Contents
  OBVIOUS
<1>1. b \in [1..BlockWords -> UNION {{c[i] : i \in 1..BlockWords} : c \in Blocks}]
  BY UsbSessionAssumption
<1>2. ASSUME NEW i \in 1..BlockWords PROVE b[i] \in Words
  <2>1. b[i] \in Range(b)
    BY <1>1 DEF Range
  <2> QED BY <2>1 DEF Words
<1>3. b \in Seq(Words) /\ Len(b) = BlockWords
  <2>1. b \in [1..BlockWords -> Words]
    BY <1>1, <1>2
  <2> QED BY <2>1, Sizes
<1> QED BY <1>3 DEF Contents

\* What may be sent for EXT_CSD is a block of terms.
LEMMA ExtRepliesAre ==
  ASSUME NEW e \in ExtReplies
  PROVE  /\ e \in Seq(Terms) /\ Len(e) = BlockWords
         /\ \A i \in 1..BlockWords : e[i] \in Terms
<1>1. e \in [1..BlockWords -> UNION {{c[i] : i \in 1..BlockWords} : c \in ExtReplies}]
  BY UsbSessionAssumption
<1>2. ASSUME NEW i \in 1..BlockWords PROVE e[i] \in Terms
  BY DEF Terms
<1>3. e \in [1..BlockWords -> Terms]
  BY <1>1, <1>2
<1> QED BY <1>2, <1>3, Sizes

\* The dwords of a command.
LEMMA DwordsAre ==
  ASSUME NEW c \in Commands
  PROVE  /\ c.kind \in {"read", "write", "ext"}
         /\ Dwords(c) \in Seq(Words)
         /\ Dwords(c)[1] = "MAGIC" /\ Dwords(c)[2] = c.kind
         /\ c.kind = "ext" => Len(Dwords(c)) = 2
         /\ c.kind = "read" => Len(Dwords(c)) = 4
         /\ c.kind = "write" => Len(Dwords(c)) = 4 + BlockWords
         /\ Len(Dwords(c)) \in 2..(4 + BlockWords)
         /\ c.kind = "write" =>
              c.block \in Blocks /\ \A j \in 1..BlockWords : Dwords(c)[4 + j] = c.block[j]
<1> DEFINE start == <<"MAGIC", c.kind>>
           address == IF c.kind = "ext" THEN <<>> ELSE <<RegionId, c.sector>>
<1>1. /\ c.kind \in {"read", "write", "ext"}
      /\ c.kind # "ext" => c.sector \in Sectors
      /\ IF c.kind = "write" THEN c.block \in Blocks ELSE c.block = <<>>
  BY DEF Commands
<1>2. start \in Seq(Words) /\ Len(start) = 2 /\ start[1] = "MAGIC" /\ start[2] = c.kind
  BY <1>1 DEF Words
<1>3. address \in Seq(Words) /\ Len(address) = IF c.kind = "ext" THEN 0 ELSE 2
  <2>1. CASE c.kind = "ext"
    BY <2>1
  <2>2. CASE c.kind # "ext"
    <3>1. RegionId \in Words /\ c.sector \in Words
      BY <1>1, <2>2 DEF Words
    <3> QED BY <2>2, <3>1
  <2> QED BY <2>1, <2>2
<1>4. c.block \in Seq(Words) /\ Len(c.block) = IF c.kind = "write" THEN BlockWords ELSE 0
  <2>1. CASE c.kind = "write"
    BY <1>1, <2>1, BlocksAreContents DEF Contents
  <2>2. CASE c.kind # "write"
    <3>1. c.block = <<>>
      BY <1>1, <2>2
    <3> QED BY <2>2, <3>1, EmptySeq
  <2> QED BY <2>1, <2>2
<1> DEFINE header == start \o address
<1>5. /\ header \in Seq(Words) /\ Len(header) = Len(start) + Len(address)
      /\ header[1] = "MAGIC" /\ header[2] = c.kind
  <2> HIDE DEF start, address
  <2>1. /\ start \o address \in Seq(Words)
        /\ Len(start \o address) = Len(start) + Len(address)
        /\ \A i \in 1..(Len(start) + Len(address)) :
             (start \o address)[i] = IF i <= Len(start) THEN start[i]
                                     ELSE address[i - Len(start)]
    BY <1>2, <1>3, ConcatProperties
  <2>2. Len(address) \in Nat /\ 1 \in 1..(Len(start) + Len(address))
          /\ 2 \in 1..(Len(start) + Len(address))
    BY <1>2, <1>3
  <2> QED BY <1>2, <2>1, <2>2
<1>6. Dwords(c) = header \o c.block
  BY DEF Dwords
<1> HIDE DEF header, start, address
<1>7. /\ Dwords(c) \in Seq(Words) /\ Len(Dwords(c)) = Len(header) + Len(c.block)
      /\ \A i \in 1..(Len(header) + Len(c.block)) :
           Dwords(c)[i] = IF i <= Len(header) THEN header[i] ELSE c.block[i - Len(header)]
  BY <1>4, <1>5, <1>6, ConcatProperties
<1>8. Len(header) = IF c.kind = "ext" THEN 2 ELSE 4
  BY <1>2, <1>3, <1>5
<1>9. Dwords(c)[1] = "MAGIC" /\ Dwords(c)[2] = c.kind
  BY <1>4, <1>5, <1>7, <1>8, Sizes
<1>10. ASSUME c.kind = "write", NEW j \in 1..BlockWords PROVE Dwords(c)[4 + j] = c.block[j]
  <2>1. 4 + j \in 1..(Len(header) + Len(c.block)) /\ ~(4 + j <= Len(header))
          /\ (4 + j) - Len(header) = j
    BY <1>4, <1>8, <1>10, Sizes
  <2> QED BY <1>7, <2>1
<1>11. Len(Dwords(c)) = IF c.kind = "ext" THEN 2 ELSE IF c.kind = "read" THEN 4 ELSE 4 + BlockWords
  BY <1>1, <1>4, <1>7, <1>8, Sizes
<1>12. /\ c.kind = "ext" => Len(Dwords(c)) = 2
       /\ c.kind = "read" => Len(Dwords(c)) = 4
       /\ c.kind = "write" => Len(Dwords(c)) = 4 + BlockWords
       /\ Len(Dwords(c)) \in 2..(4 + BlockWords)
  BY <1>1, <1>11, Sizes
<1>13. c.kind = "write" => c.block \in Blocks
  BY <1>1
<1> QED BY <1>1, <1>7, <1>9, <1>10, <1>12, <1>13

\* The packets of the replies.
LEMMA AckIsPackets == AckReply \in Seq(Packet) /\ Len(AckReply) = 1 /\ AckReply # <<>>
<1>1. <<"ACK">> \in Packet
  BY Sizes DEF Packet, Terms
<1> QED BY <1>1 DEF AckReply

LEMMA DataIsPackets ==
  ASSUME NEW b, \A i \in 1..BlockWords : b[i] \in Terms
  PROVE  DataReply(b) \in Seq(Packet) /\ Len(DataReply(b)) = Packets /\ DataReply(b) # <<>>
<1>1. ASSUME NEW i \in 1..Packets
      PROVE  SubSeq(b, (i - 1) * ChunkWords + 1, i * ChunkWords) \in Packet
  <2> DEFINE m == (i - 1) * ChunkWords + 1
             n == i * ChunkWords
  <2>1. (i - 1) * ChunkWords \in Nat /\ n = (i - 1) * ChunkWords + ChunkWords
    BY Sizes
  <2>2. n <= BlockWords
    <3>1. ChunkWords * i <= ChunkWords * Packets
      BY Sizes, Monotone
    <3> QED BY <3>1, Sizes
  <2>3. m \in Int /\ n \in Int /\ n - m + 1 = ChunkWords /\ m <= n /\ 1 <= m
    BY <2>1, Sizes
  <2> HIDE DEF m, n
  <2>4. \A j \in m..n : b[j] \in Terms
    BY <2>2, <2>3, Sizes
  <2>5. SubSeq(b, m, n) \in Seq(Terms) /\ Len(SubSeq(b, m, n)) = ChunkWords
    BY <2>3, <2>4, SubSeqProperties
  <2>6. SubSeq(b, m, n) \in Packet
    BY <2>5, Sizes DEF Packet
  <2> QED BY <2>6 DEF m, n
<1>2. DataReply(b) \in [1..Packets -> Packet]
  BY <1>1 DEF DataReply, Packets
<1> QED BY <1>2, Sizes

-----------------------------------------------------------------------------
(* Types                                                                   *)

HostType ==
  /\ host \in {"off", "idle", "sending", "waiting"} /\ cmd \in Commands
  /\ sent \in 0..(4 + BlockWords)
  /\ host = "sending" => sent < Len(Dwords(cmd)) /\ got = <<>>
  /\ got \in Seq(Terms) /\ Len(got) <= ReplySize(cmd)
  /\ done.kind \in {"none", "read", "write", "ext"}

PipeType ==
  /\ out \in Seq(Words) /\ Len(out) <= OutCap
  /\ in \in Seq(Packet) /\ Len(in) <= InCap

Requests == [kind : Words \cup {"none"}, region : Words, sector : Words, data : Seq(Words)]

AgentType ==
  /\ agent \in {"magic", "cmd", "region", "block", "data", "exec", "reply", "dead"}
  /\ req \in Requests /\ Len(req.data) <= BlockWords
  /\ agent \in {"cmd", "region", "block"} => req.data = <<>>
  /\ agent = "data" => Len(req.data) < BlockWords /\ req.kind = "write"
  /\ agent \in {"region", "block"} => req.kind \in {"read", "write"}
  /\ agent = "exec" => req.kind \in {"read", "write", "ext"}
  /\ agent = "exec" /\ req.kind = "write" => Len(req.data) = BlockWords
  /\ toSend \in Seq(Packet) /\ (toSend = <<>> <=> agent # "reply")
  /\ store \in [Sectors -> Contents]

UpsetType == upsets \in Seq(Upsets) /\ Len(upsets) <= MaxUpsets

TypeInv == HostType /\ PipeType /\ AgentType /\ UpsetType

LEMMA ReplySizes ==
  ASSUME NEW c \in Commands
  PROVE  ReplySize(c) \in Nat \ {0} /\ ReplySize(c) <= BlockWords
         /\ ReplySize(c) = IF c.kind = "write" THEN 1 ELSE BlockWords
BY Sizes DEF ReplySize

LEMMA HostTypeStep ==
  ASSUME TypeInv, Next
  PROVE  HostType'
<1> USE DEF TypeInv, HostType
<1>1. CASE Connect
  BY <1>1 DEF Connect
<1>2. CASE Disconnect
  BY <1>2 DEF Disconnect
<1>3. ASSUME NEW c \in Commands, Begin(c) PROVE HostType'
  <2>1. Len(Dwords(c)) > 0 /\ ReplySize(c) \in Nat
    BY DwordsAre, ReplySizes, Sizes
  <2>2. c.kind \in {"read", "write", "ext"} /\ <<>> \in Seq(Terms) /\ Len(<<>>) = 0
    BY DwordsAre
  <2> QED BY <1>3, <2>1, <2>2, Sizes DEF Begin
<1>4. CASE Send
  <2>1. Len(Dwords(cmd)) \in Nat /\ Len(Dwords(cmd)) <= 4 + BlockWords
    BY DwordsAre, Sizes
  <2> QED BY <1>4, <2>1, Sizes DEF Send
<1>5. CASE SendTimeout \/ Abort \/ Interrupt \/ ReceiveOverflow \/ ReceiveTimeout
  <2>1. EndSession
    BY <1>5 DEF SendTimeout, Abort, Interrupt, ReceiveOverflow, ReceiveTimeout
  <2>2. <<>> \in Seq(Terms) /\ Len(<<>>) = 0 /\ ReplySize(cmd) \in Nat
    BY ReplySizes
  <2> QED BY <2>1, <2>2 DEF EndSession, ReplySize
<1>6. CASE Receive
  <2>1. Head(in) \in Packet
    BY <1>6, HeadTailProperties DEF Receive, PipeType
  <2>2. Head(in) \in Seq(Terms)
    BY <2>1 DEF Packet
  <2>3. got \o Head(in) \in Seq(Terms) /\ Len(got \o Head(in)) = Len(got) + Len(Head(in))
    BY <2>2, ConcatProperties
  <2>4. cmd.kind \in {"read", "write", "ext"}
    BY DwordsAre
  <2>5. got' \in Seq(Terms) /\ Len(got') <= ReplySize(cmd) /\ cmd' = cmd /\ sent' = sent
    BY <1>6, <2>3 DEF Receive
  <2>6. host' \in {"idle", "waiting"} /\ done'.kind \in {"none", "read", "write", "ext"}
    BY <1>6, <2>4 DEF Receive
  <2> QED BY <2>5, <2>6 DEF ReplySize
<1>7. CASE AgentStep
  BY <1>7 DEF AgentStep, RecvMagic, RecvCmd, RecvRegion, RecvBlock, RecvData, Recv, ExecRead,
     ExecWrite, ExecExtCsd, ExecFails, SendPacket, hostVars
<1> QED BY <1>1, <1>2, <1>3, <1>4, <1>5, <1>6, <1>7 DEF Next, HostWrites, HostReads

LEMMA PipeTypeStep ==
  ASSUME TypeInv, Next
  PROVE  PipeType'
<1> USE DEF TypeInv, PipeType
<1>1. CASE Connect \/ Disconnect \/ SendTimeout \/ Abort \/ Interrupt \/ ReceiveTimeout
             \/ \E c \in Commands : Begin(c)
  BY <1>1 DEF Connect, Disconnect, SendTimeout, Abort, Interrupt, ReceiveTimeout, Begin
<1>2. CASE Send
  <2>1. sent + 1 \in 1..Len(Dwords(cmd)) /\ Dwords(cmd) \in Seq(Words)
    BY <1>2, DwordsAre, Sizes DEF Send, HostType
  <2>2. Dwords(cmd)[sent + 1] \in Words
    BY <2>1, ElementOfSeq
  <2>3. out' \in Seq(Words) /\ Len(out') = Len(out) + 1 /\ in' = in
    BY <1>2, <2>2, AppendProperties DEF Send
  <2> QED BY <1>2, <2>3, UsbSessionAssumption DEF Send
<1>3. CASE Receive \/ ReceiveOverflow
  <2>1. in # <<>> /\ in' = Tail(in) /\ out' = out
    BY <1>3 DEF Receive, ReceiveOverflow
  <2>2. in' \in Seq(Packet) /\ Len(in') = Len(in) - 1
    BY <2>1, HeadTailProperties
  <2> QED BY <2>1, <2>2, UsbSessionAssumption
<1>4. CASE \E a \in {"magic", "cmd", "region", "block", "data"} : Recv(a)
  <2>1. out # <<>> /\ out' = Tail(out) /\ in' = in
    BY <1>4 DEF Recv
  <2>2. out' \in Seq(Words) /\ Len(out') = Len(out) - 1
    BY <2>1, HeadTailProperties
  <2> QED BY <2>1, <2>2, UsbSessionAssumption
<1>5. CASE ExecRead \/ ExecWrite \/ ExecExtCsd \/ ExecFails
  BY <1>5 DEF ExecRead, ExecWrite, ExecExtCsd, ExecFails
<1>6. CASE SendPacket
  <2>1. toSend # <<>> /\ toSend \in Seq(Packet)
    BY <1>6 DEF SendPacket, AgentType
  <2>2. Head(toSend) \in Packet
    BY <2>1, HeadTailProperties
  <2>3. in' \in Seq(Packet) /\ Len(in') = Len(in) + 1 /\ out' = out
    BY <1>6, <2>2, AppendProperties DEF SendPacket
  <2> QED BY <1>6, <2>3, UsbSessionAssumption DEF SendPacket
<1> QED BY <1>1, <1>2, <1>3, <1>4, <1>5, <1>6 DEF Next, HostWrites, HostReads, AgentStep,
        RecvMagic, RecvCmd, RecvRegion, RecvBlock, RecvData

LEMMA UpsetTypeStep ==
  ASSUME TypeInv, Next
  PROVE  UpsetType'
<1> USE DEF TypeInv, UpsetType
<1>1. CASE UNCHANGED upsets
  BY <1>1
<1>2. ASSUME NEW kind, Upset(kind) PROVE UpsetType'
  <2>1. upsets' \in Seq(Upsets) /\ Len(upsets') = Len(upsets) + 1
    BY <1>2, AppendProperties DEF Upset
  <2> QED BY <1>2, <2>1, UsbSessionAssumption DEF Upset
<1>3. CASE AgentStep
  BY <1>1, <1>3 DEF AgentStep, RecvMagic, RecvCmd, RecvRegion, RecvBlock, RecvData, Recv,
     ExecRead, ExecWrite, ExecExtCsd, ExecFails, SendPacket
<1> QED BY <1>1, <1>2, <1>3 DEF Next, HostWrites, HostReads, Connect, Disconnect, Begin, Send,
        SendTimeout, Abort, Interrupt, Receive, ReceiveOverflow, ReceiveTimeout

LEMMA RequestUpdates ==
  ASSUME NEW r \in Requests, NEW w \in Words
  PROVE  /\ [r EXCEPT !.kind = w] \in Requests
         /\ [r EXCEPT !.region = w] \in Requests
         /\ [r EXCEPT !.sector = w] \in Requests
BY DEF Requests

LEMMA AgentTypeStep ==
  ASSUME TypeInv, Next
  PROVE  AgentType'
<1> USE DEF TypeInv, AgentType
<1>1. CASE UNCHANGED agentVars
  BY <1>1 DEF agentVars
<1>2. ASSUME NEW a, Recv(a)
      PROVE  /\ agent = a /\ out # <<>> /\ Head(out) \in Words
             /\ toSend' = toSend /\ store' = store
             /\ req \in Requests /\ req.data \in Seq(Words)
  <2>1. out # <<>> /\ out \in Seq(Words)
    BY <1>2 DEF Recv, PipeType
  <2> QED BY <1>2, <2>1, HeadTailProperties DEF Recv, Requests
<1>3. CASE RecvMagic
  <2>1. RegionId \in Words /\ <<>> \in Seq(Words) /\ Len(<<>>) = 0
    BY DEF Words
  <2>2. req' \in Requests /\ req'.data = <<>>
    BY <1>3, <2>1 DEF RecvMagic, Idle, Requests
  <2>3. Recv("magic") /\ agent' \in {"cmd", "dead"}
    BY <1>3 DEF RecvMagic
  <2>4. Len(req'.data) <= BlockWords
    BY <2>1, <2>2, Sizes
  <2> QED BY <1>2, <2>2, <2>3, <2>4
<1>4. CASE RecvCmd
  <2>1. Recv("cmd") /\ req' = [req EXCEPT !.kind = Head(out)]
    BY <1>4 DEF RecvCmd
  <2>2. req' \in Requests /\ req'.data = req.data /\ req'.kind = Head(out)
    BY <1>2, <2>1, RequestUpdates DEF Requests
  <2>3. \/ agent' = "region" /\ Head(out) \in {"read", "write"}
        \/ agent' = "exec" /\ Head(out) = "ext"
        \/ agent' = "magic"
    BY <1>4 DEF RecvCmd
  <2> QED BY <1>2, <2>1, <2>2, <2>3
<1>5. CASE RecvRegion
  <2>1. Recv("region") /\ req' = [req EXCEPT !.region = Head(out)] /\ agent' = "block"
    BY <1>5 DEF RecvRegion
  <2>2. req' \in Requests /\ req'.data = req.data /\ req'.kind = req.kind
    BY <1>2, <2>1, RequestUpdates DEF Requests
  <2> QED BY <1>2, <2>1, <2>2
<1>6. CASE RecvBlock
  <2>1. Recv("block") /\ req' = [req EXCEPT !.sector = Head(out)]
    BY <1>6 DEF RecvBlock
  <2>2. req' \in Requests /\ req'.data = req.data /\ req'.kind = req.kind
    BY <1>2, <2>1, RequestUpdates DEF Requests
  <2>3. (agent' = "exec" /\ req.kind = "read") \/ (agent' = "data" /\ req.kind # "read")
    BY <1>6 DEF RecvBlock
  <2>4. Len(<<>>) < BlockWords
    BY Sizes
  <2> QED BY <1>2, <2>1, <2>2, <2>3, <2>4
<1>7. CASE RecvData
  <2>1. Recv("data") /\ req' = [req EXCEPT !.data = Append(@, Head(out))]
    BY <1>7 DEF RecvData
  <2>2. /\ Append(req.data, Head(out)) \in Seq(Words)
        /\ Len(Append(req.data, Head(out))) = Len(req.data) + 1
    BY <1>2, <2>1, AppendProperties
  <2>3. req' \in Requests /\ req'.data = Append(req.data, Head(out)) /\ req'.kind = req.kind
    BY <1>2, <2>1, <2>2 DEF Requests
  <2>4. Len(req'.data) \in Nat /\ Len(req'.data) <= BlockWords
    BY <1>2, <2>1, <2>2, <2>3, Sizes
  <2>5. (agent' = "exec" /\ Len(req'.data) = BlockWords)
          \/ (agent' = "data" /\ Len(req'.data) # BlockWords)
    BY <1>7 DEF RecvData
  <2>6. agent' = "data" => Len(req'.data) < BlockWords
    BY <2>4, <2>5, Sizes
  <2> QED BY <1>2, <2>1, <2>3, <2>4, <2>5, <2>6
<1>8. ASSUME NEW r \in Seq(Packet), r # <<>>, Reply(r), req' = req,
             agent = "exec", store' \in [Sectors -> Contents]
      PROVE  AgentType'
  BY <1>8 DEF Reply
<1>9. CASE ExecRead
  <2>1. \A i \in 1..BlockWords : store[req.sector][i] \in Terms
    BY <1>9 DEF ExecRead, Addressed, Contents, Terms
  <2> QED BY <1>8, <1>9, <2>1, DataIsPackets DEF ExecRead
<1>10. CASE ExecExtCsd
  <2>1. PICK e \in ExtReplies : Reply(DataReply(e))
    BY <1>10 DEF ExecExtCsd
  <2>2. \A i \in 1..BlockWords : e[i] \in Terms
    BY ExtRepliesAre
  <2> QED BY <1>8, <1>10, <2>1, <2>2, DataIsPackets DEF ExecExtCsd
<1>11. CASE ExecWrite
  <2>1. req.data \in Contents
    BY <1>11 DEF ExecWrite, Requests, Contents
  <2>2. store' \in [Sectors -> Contents]
    BY <1>11, <2>1 DEF ExecWrite
  <2> QED BY <1>8, <1>11, <2>2, AckIsPackets DEF ExecWrite
<1>12. CASE ExecFails
  <2>1. req.kind = "write" => req.data \in Contents
    BY <1>12 DEF ExecFails, Requests, Contents
  <2>2. store' \in [Sectors -> Contents]
    BY <1>12, <2>1 DEF ExecFails
  <2> QED BY <1>12, <2>2 DEF ExecFails
<1>13. CASE SendPacket
  <2>1. toSend # <<>>
    BY <1>13 DEF SendPacket
  <2>2. Tail(toSend) \in Seq(Packet)
    BY <2>1, HeadTailProperties
  <2>3. agent' = (IF toSend' = <<>> THEN "magic" ELSE "reply") /\ toSend' = Tail(toSend)
          /\ req' = req /\ store' = store
    BY <1>13 DEF SendPacket
  <2> QED BY <2>2, <2>3
<1> QED
  BY <1>1, <1>3, <1>4, <1>5, <1>6, <1>7, <1>9, <1>10, <1>11, <1>12, <1>13
     DEF Next, HostWrites, HostReads, AgentStep, Connect, Disconnect, Begin, Send, SendTimeout,
         Abort, Interrupt, Receive, ReceiveOverflow, ReceiveTimeout

LEMMA InitType == Init => TypeInv
<1> SUFFICES ASSUME Init PROVE TypeInv
  OBVIOUS
<1> USE DEF Init
<1>1. cmd \in Commands /\ ReplySize(cmd) \in Nat
  BY ReplySizes
<1>2. HostType
  BY <1>1, Sizes DEF HostType
<1>3. PipeType
  BY UsbSessionAssumption DEF PipeType
<1>4. store \in [Sectors -> Contents]
  BY BlocksAreContents
<1>5. req \in Requests /\ Len(req.data) = 0
  BY DEF Requests, Idle, Words
<1>6. AgentType
  BY <1>4, <1>5, Sizes DEF AgentType
<1>7. UpsetType
  BY UsbSessionAssumption DEF UpsetType
<1> QED BY <1>2, <1>3, <1>6, <1>7 DEF TypeInv

LEMMA TypeInvariant == Spec => []TypeInv
<1>1. TypeInv /\ [Next]_vars => TypeInv'
  <2> SUFFICES ASSUME TypeInv, [Next]_vars PROVE TypeInv'
    OBVIOUS
  <2>1. CASE Next
    BY <2>1, HostTypeStep, PipeTypeStep, AgentTypeStep, UpsetTypeStep DEF TypeInv
  <2>2. CASE UNCHANGED vars
    BY <2>2 DEF vars, hostVars, agentVars, TypeInv, HostType, PipeType, AgentType, UpsetType,
       ReplySize
  <2> QED BY <2>1, <2>2
<1> QED BY <1>1, InitType, PTL DEF Spec

\* A sequence of bounded length as the type invariant has it.
LEMMA BoundedSeqs ==
  ASSUME NEW S, NEW n \in Nat, NEW s \in Seq(S), Len(s) <= n
  PROVE  s \in BoundedSeq(S, n)
<1>1. s \in [1..Len(s) -> S] /\ Len(s) \in 0..n
  BY LenProperties
<1> QED BY <1>1 DEF BoundedSeq, SeqOf

\* The pipes never hold more than they can, a reply is never longer than what was
\* asked for, and the agent's buffer never runs over.
THEOREM TypeCorrect == Spec => []TypeOK
<1>1. TypeInv => TypeOK
  <2> SUFFICES ASSUME TypeInv PROVE TypeOK
    OBVIOUS
  <2> USE DEF TypeInv, HostType, PipeType, AgentType, UpsetType
  <2>1. out \in BoundedSeq(Words, OutCap) /\ upsets \in BoundedSeq(Upsets, MaxUpsets)
    BY BoundedSeqs, UsbSessionAssumption
  <2>2. req.data \in BoundedSeq(Words, BlockWords)
    BY BoundedSeqs, Sizes DEF Requests
  <2>3. Len(got) \in 0..ReplySize(cmd) /\ Len(in) \in 0..InCap /\ sent \in 0..(4 + BlockWords)
    BY ReplySizes, UsbSessionAssumption, LenProperties
  <2> QED BY <2>1, <2>2, <2>3 DEF TypeOK
<1> QED BY <1>1, TypeInvariant, PTL

-----------------------------------------------------------------------------
(* What is in the pipe to the agent.  A place is a position between two    *)
(* dwords: the command they belong to, how many of its dwords lie before   *)
(* it, and how many packets the commands that end behind it will cause.    *)

Place == [cmd : Commands, k : Nat, rest : Nat]

\* The packets of the reply to a command.
Weight(c) == IF c.kind = "write" THEN 1 ELSE Packets

\* From place p dword d leads to place q.
Follows(p, d, q) ==
  LET whole == p.k + 1 = Len(Dwords(p.cmd))
  IN /\ p.k < Len(Dwords(p.cmd)) /\ d = Dwords(p.cmd)[p.k + 1]
     /\ p.rest = q.rest + (IF whole THEN Weight(p.cmd) ELSE 0)
     /\ IF whole THEN q.k = 0 ELSE q.cmd = p.cmd /\ q.k = p.k + 1

\* The dwords o are commands, the first and the last perhaps in part.
Linked(f, o) ==
  /\ f \in [0..Len(o) -> Place]
  /\ \A i \in 1..Len(o) : Follows(f[i - 1], o[i], f[i])

\* The dword at the front is taken.
LEMMA Dropped ==
  ASSUME NEW o \in Seq(Words), o # <<>>, NEW f, Linked(f, o),
         NEW g, g = [i \in 0..(Len(o) - 1) |-> f[i + 1]]
  PROVE  /\ Linked(g, Tail(o)) /\ g[0] = f[1] /\ g[Len(Tail(o))] = f[Len(o)]
         /\ f[0] \in Place /\ f[1] \in Place /\ Follows(f[0], Head(o), f[1])
<1>1. Len(o) \in Nat \ {0} /\ Len(Tail(o)) = Len(o) - 1 /\ Head(o) = o[1]
        /\ \A i \in 1..(Len(o) - 1) : Tail(o)[i] = o[i + 1]
  BY HeadTailProperties, EmptySeq
<1>2. f \in [0..Len(o) -> Place]
  BY DEF Linked
<1>3. g \in [0..(Len(o) - 1) -> Place] /\ g[0] = f[1] /\ g[Len(o) - 1] = f[Len(o)]
  BY <1>1, <1>2
<1>4. ASSUME NEW i \in 1..(Len(o) - 1) PROVE Follows(g[i - 1], Tail(o)[i], g[i])
  <2>1. i + 1 \in 1..Len(o) /\ (i + 1) - 1 = i /\ (i - 1) + 1 = i
          /\ i - 1 \in 0..(Len(o) - 1) /\ i \in 0..(Len(o) - 1)
    BY <1>1
  <2>2. Follows(f[(i + 1) - 1], o[i + 1], f[i + 1])
    BY <2>1 DEF Linked
  <2>3. g[i - 1] = f[i] /\ g[i] = f[i + 1]
    BY <2>1
  <2> QED BY <1>1, <2>1, <2>2, <2>3
<1>5. Follows(f[0], o[1], f[1])
  <2>1. 1 \in 1..Len(o) /\ 1 - 1 = 0
    BY <1>1
  <2>2. Follows(f[1 - 1], o[1], f[1])
    BY <2>1 DEF Linked
  <2> QED BY <2>1, <2>2
<1> QED BY <1>1, <1>2, <1>3, <1>4, <1>5 DEF Linked

\* More packets to come change nothing else.
LEMMA Raised ==
  ASSUME NEW p \in Place, NEW q \in Place, NEW d, NEW w \in Nat, Follows(p, d, q),
         NEW u, u = [p EXCEPT !.rest = @ + w], NEW v, v = [q EXCEPT !.rest = @ + w]
  PROVE  Follows(u, d, v)
<1>1. /\ u.cmd = p.cmd /\ u.k = p.k /\ u.rest = p.rest + w
      /\ v.cmd = q.cmd /\ v.k = q.k /\ v.rest = q.rest + w
      /\ p.rest \in Nat /\ q.rest \in Nat
  BY DEF Place
<1>2. Weight(p.cmd) \in Nat
  BY Sizes DEF Weight
<1>3. CASE p.k + 1 = Len(Dwords(p.cmd))
  <2>1. p.rest = q.rest + Weight(p.cmd) /\ q.k = 0
    BY <1>3 DEF Follows
  <2>2. u.rest = v.rest + Weight(p.cmd)
    BY <1>1, <1>2, <2>1
  <2> QED BY <1>1, <1>3, <2>1, <2>2 DEF Follows
<1>4. CASE p.k + 1 # Len(Dwords(p.cmd))
  <2>1. p.rest = q.rest /\ q.cmd = p.cmd /\ q.k = p.k + 1
    BY <1>1, <1>4 DEF Follows
  <2>2. u.rest = v.rest + 0
    BY <1>1, <2>1
  <2> QED BY <1>1, <1>4, <2>1, <2>2 DEF Follows
<1> QED BY <1>3, <1>4

\* A dword is put at the end, with w packets to come for it.
LEMMA Added ==
  ASSUME NEW o \in Seq(Words), NEW f, Linked(f, o), NEW d \in Words, NEW q \in Place,
         NEW w \in Nat, NEW p \in Place, Follows(p, d, q), p.cmd = f[Len(o)].cmd,
         p.k = f[Len(o)].k, p.rest = f[Len(o)].rest + w
  PROVE  \E g : /\ Linked(g, Append(o, d)) /\ g[Len(Append(o, d))] = q
                /\ \A i \in 0..Len(o) :
                     g[i].cmd = f[i].cmd /\ g[i].k = f[i].k /\ g[i].rest = f[i].rest + w
<1>0. PICK g : g = [i \in 0..(Len(o) + 1) |->
                      IF i = Len(o) + 1 THEN q ELSE [f[i] EXCEPT !.rest = @ + w]]
  OBVIOUS
<1>1. Len(o) \in Nat /\ Len(Append(o, d)) = Len(o) + 1 /\ Append(o, d)[Len(o) + 1] = d
        /\ \A i \in 1..Len(o) : Append(o, d)[i] = o[i]
  BY AppendProperties
<1>2. f \in [0..Len(o) -> Place]
  BY DEF Linked
<1>3. ASSUME NEW i \in 0..Len(o)
      PROVE  g[i] = [f[i] EXCEPT !.rest = @ + w] /\ g[i] \in Place
  <2>1. i \in 0..(Len(o) + 1) /\ i # Len(o) + 1 /\ f[i] \in Place
    BY <1>1, <1>2
  <2>2. g[i] = [f[i] EXCEPT !.rest = @ + w]
    BY <1>0, <2>1
  <2> QED BY <2>1, <2>2 DEF Place
<1>4. Len(o) + 1 \in 0..(Len(o) + 1) /\ g[Len(o) + 1] = q
  BY <1>0, <1>1
<1>5. g \in [0..(Len(o) + 1) -> Place]
  <2>1. ASSUME NEW i \in 0..(Len(o) + 1) PROVE g[i] \in Place
    <3>1. i = Len(o) + 1 \/ i \in 0..Len(o)
      BY <1>1
    <3> QED BY <1>3, <1>4, <3>1
  <2> QED BY <1>0, <2>1
<1>6. ASSUME NEW i \in 1..(Len(o) + 1) PROVE Follows(g[i - 1], Append(o, d)[i], g[i])
  <2>1. CASE i = Len(o) + 1
    <3>1. i - 1 = Len(o) /\ Len(o) \in 0..Len(o)
      BY <1>1, <2>1
    <3>2. g[Len(o)] = p
      BY <1>2, <1>3, <3>1 DEF Place
    <3> QED BY <1>1, <1>4, <2>1, <3>1, <3>2
  <2>2. CASE i # Len(o) + 1
    <3>1. i \in 1..Len(o) /\ i \in 0..Len(o) /\ i - 1 \in 0..Len(o)
      BY <1>1, <2>2
    <3>2. Follows(f[i - 1], o[i], f[i]) /\ f[i - 1] \in Place /\ f[i] \in Place
      BY <1>2, <3>1 DEF Linked
    <3>3. g[i - 1] = [f[i - 1] EXCEPT !.rest = @ + w] /\ g[i] = [f[i] EXCEPT !.rest = @ + w]
      BY <1>3, <3>1
    <3>4. Follows(g[i - 1], o[i], g[i])
      BY <3>2, <3>3, Raised
    <3> QED BY <1>1, <3>1, <3>4
  <2> QED BY <2>1, <2>2
<1>7. Linked(g, Append(o, d))
  BY <1>1, <1>5, <1>6 DEF Linked
<1>8. ASSUME NEW i \in 0..Len(o)
      PROVE  g[i].cmd = f[i].cmd /\ g[i].k = f[i].k /\ g[i].rest = f[i].rest + w
  BY <1>2, <1>3 DEF Place
<1> QED BY <1>1, <1>4, <1>7, <1>8

\* The next command is chosen at the end of the dwords.
LEMMA Renamed ==
  ASSUME NEW o \in Seq(Words), NEW f, Linked(f, o), f[Len(o)].k = 0, NEW c \in Commands
  PROVE  \E g : /\ Linked(g, o) /\ g[Len(o)] = [f[Len(o)] EXCEPT !.cmd = c]
                /\ g[0].k = f[0].k /\ g[0].rest = f[0].rest /\ (Len(o) # 0 => g[0] = f[0])
<1>0. PICK g : g = [f EXCEPT ![Len(o)] = [@ EXCEPT !.cmd = c]]
  OBVIOUS
<1>1. Len(o) \in Nat /\ f \in [0..Len(o) -> Place]
  BY DEF Linked
<1>2. /\ f[0] \in Place /\ f[Len(o)] \in Place
      /\ g[Len(o)] = [f[Len(o)] EXCEPT !.cmd = c] /\ g[Len(o)] \in Place
      /\ g[Len(o)].k = 0 /\ g[Len(o)].rest = f[Len(o)].rest
      /\ \A i \in 0..Len(o) : i # Len(o) => g[i] = f[i]
  BY <1>0, <1>1 DEF Place
<1>3. g \in [0..Len(o) -> Place]
  BY <1>0, <1>1, <1>2
<1>4. ASSUME NEW i \in 1..Len(o) PROVE Follows(g[i - 1], o[i], g[i])
  <2>1. i - 1 \in 0..Len(o) /\ i - 1 # Len(o) /\ i \in 0..Len(o) /\ Follows(f[i - 1], o[i], f[i])
    BY <1>1 DEF Linked
  <2>2. g[i - 1] = f[i - 1] /\ f[i - 1] \in Place
    BY <1>1, <1>2, <2>1
  <2>3. CASE i = Len(o)
    <3>1. f[i - 1].k + 1 = Len(Dwords(f[i - 1].cmd))
      BY <1>2, <2>1, <2>2, <2>3 DEF Follows, Place
    <3> QED BY <1>2, <2>1, <2>2, <2>3, <3>1 DEF Follows
  <2>4. CASE i # Len(o)
    BY <1>2, <2>1, <2>2, <2>4
  <2> QED BY <2>3, <2>4
<1>5. g[0].k = f[0].k /\ g[0].rest = f[0].rest /\ (Len(o) # 0 => g[0] = f[0])
  <2>1. CASE Len(o) = 0
    BY <1>2, <2>1
  <2>2. CASE Len(o) # 0
    BY <1>1, <1>2, <2>2
  <2> QED BY <2>1, <2>2
<1>6. Linked(g, o)
  BY <1>3, <1>4 DEF Linked
<1> QED BY <1>2, <1>5, <1>6

-----------------------------------------------------------------------------
(* Framing.  Where the agent reads and where the host writes are places in  *)
(* the same sequence of commands, and the packets that are or will be in    *)
(* the pipe to the host, beyond those it still waits for, are at most those *)
(* of one reply for each wait that was cut off.                             *)

AgentAt(p) ==
  /\ agent \in {"magic", "exec", "reply"} => p.k = 0
  /\ agent = "cmd" => p.k = 1
  /\ agent = "region" => p.k = 2 /\ req.kind = p.cmd.kind /\ p.cmd.kind # "ext"
  /\ agent = "block" => p.k = 3 /\ req.kind = p.cmd.kind /\ p.cmd.kind # "ext"
  /\ agent = "data" =>
       /\ p.k = 4 + Len(req.data) /\ req.kind = "write" /\ p.cmd.kind = "write"
       /\ \A j \in 1..Len(req.data) : req.data[j] = p.cmd.block[j]

HostAt(p) ==
  /\ p.rest = 0
  /\ host = "sending" => p.k = sent /\ p.cmd = cmd
  /\ host # "sending" => p.k = 0

Owing == IF agent # "exec" THEN 0 ELSE IF req.kind = "write" THEN 1 ELSE Packets
Owed == Len(in) + Len(toSend) + Owing
Limit == Len(upsets) * Packets

\* n packets are to come for the commands in out; p came for the one awaited.
Debt(n) ==
  /\ host # "waiting" => Owed + n <= Limit
  /\ host = "waiting" =>
       \E p \in Nat : Len(got) <= ChunkWords * p /\ Owed + n + p <= Limit + Weight(cmd)

Frame(f) ==
  /\ Linked(f, out)
  /\ AgentAt(f[0])
  /\ HostAt(f[Len(out)])
  /\ host # "sending" => \A i \in 0..(Len(out) - 1) : f[i].rest # 0
  /\ Debt(f[0].rest)

Stored ==
  /\ store \in [Sectors -> Blocks]
  /\ agent = "exec" /\ req.kind = "write" => req.data \in Blocks

Framed == agent # "dead" /\ Stored /\ \E f : Frame(f)

LEMMA Amounts ==
  ASSUME TypeInv
  PROVE  /\ Len(in) \in Nat /\ Len(toSend) \in Nat /\ Owing \in Nat /\ Owed \in Nat
         /\ Limit \in Nat /\ Weight(cmd) \in Nat \ {0} /\ Weight(cmd) <= Packets
         /\ Len(out) \in Nat
<1>1. Len(in) \in Nat /\ Len(toSend) \in Nat /\ Len(upsets) \in Nat /\ Len(out) \in Nat
  BY DEF TypeInv, PipeType, AgentType, UpsetType
<1>2. Owing \in Nat /\ Weight(cmd) \in Nat \ {0} /\ Weight(cmd) <= Packets
  BY Sizes DEF Owing, Weight
<1>3. Limit \in Nat
  BY <1>1, Sizes DEF Limit
<1> QED BY <1>1, <1>2, <1>3 DEF Owed

\* The SMT solver needs these inequalities by themselves.
LEMMA OneLess ==
  ASSUME NEW a \in Nat, NEW b \in Nat, NEW n \in Nat, NEW p \in Nat, NEW l \in Nat,
         a + 1 = b, b + n + p <= l
  PROVE  a + n + (p + 1) <= l
OBVIOUS

LEMMA Cancelled ==
  ASSUME NEW a \in Nat, NEW n \in Nat, NEW p \in Nat, NEW l \in Nat, NEW w \in Nat,
         a + n + p <= l + w, w <= p
  PROVE  a + n <= l
OBVIOUS

LEMMA Less ==
  ASSUME NEW a \in Nat, NEW b \in Nat, NEW n \in Nat, NEW p \in Nat, NEW l \in Nat,
         a <= b, b + n + p <= l
  PROVE  a + n + p <= l
OBVIOUS

\* The agent reads a dword: what it comes to owe was to come before.
LEMMA Taken ==
  ASSUME TypeInv, NEW f, Frame(f), NEW a, Recv(a), a # "exec",
         NEW g, g = [i \in 0..(Len(out) - 1) |-> f[i + 1]],
         Owing' \in Nat, Owing' + g[0].rest = f[0].rest, AgentAt(g[0])'
  PROVE  Frame(g)'
<1>1. out \in Seq(Words) /\ out # <<>> /\ out' = Tail(out) /\ agent = a
        /\ UNCHANGED <<host, cmd, sent, got, in, toSend, upsets>>
  BY DEF Recv, hostVars, TypeInv, PipeType
<1>2. Linked(f, out) /\ HostAt(f[Len(out)]) /\ Debt(f[0].rest)
        /\ (host # "sending" => \A i \in 0..(Len(out) - 1) : f[i].rest # 0)
  BY DEF Frame
<1>3. /\ Linked(g, Tail(out)) /\ g[0] = f[1] /\ g[Len(Tail(out))] = f[Len(out)]
      /\ f[0] \in Place /\ f[1] \in Place
  BY <1>1, <1>2, Dropped
<1>4. Len(out) \in Nat \ {0} /\ Len(Tail(out)) = Len(out) - 1
  BY <1>1, HeadTailProperties, EmptySeq
<1>5. HostAt(g[Len(out)])'
  BY <1>1, <1>2, <1>3 DEF HostAt
<1>6. host' # "sending" => \A i \in 0..(Len(out') - 1) : g[i].rest # 0
  <2> SUFFICES ASSUME host # "sending", NEW i \in 0..(Len(Tail(out)) - 1) PROVE g[i].rest # 0
    BY <1>1
  <2>1. i \in 0..(Len(out) - 1) /\ i + 1 \in 0..(Len(out) - 1)
    BY <1>4
  <2>2. g[i] = f[i + 1]
    BY <2>1
  <2> QED BY <1>2, <2>1, <2>2
<1>7. Debt(g[0].rest)'
  <2>1. Owing = 0 /\ Owed \in Nat /\ Limit \in Nat /\ Len(in) \in Nat /\ Len(toSend) \in Nat
    BY <1>1, Amounts DEF Owing
  <2>2. Owed' = Len(in) + Len(toSend) + Owing' /\ Owed = Len(in) + Len(toSend) + Owing
          /\ Limit' = Limit /\ Weight(cmd)' = Weight(cmd)
    BY <1>1 DEF Owed, Limit, Weight
  <2>3. g[0].rest \in Nat /\ f[0].rest \in Nat
    BY <1>3 DEF Place
  <2>4. Owed' + g[0].rest = Owed + f[0].rest
    <3> DEFINE i == Len(in)
               t == Len(toSend)
               n == Owing'
               u == g[0].rest
               v == f[0].rest
    <3>1. i \in Nat /\ t \in Nat /\ n \in Nat /\ u \in Nat /\ v \in Nat /\ n + u = v
      BY <2>1, <2>3
    <3>2. Owed' = i + t + n /\ Owed = i + t
      BY <2>1, <2>2
    <3> HIDE DEF i, t, n, u, v
    <3>3. (i + t + n) + u = (i + t) + v
      BY <3>1
    <3> QED BY <3>2, <3>3 DEF u, v
  <2>5. CASE host = "waiting"
    <3>1. PICK p \in Nat : Len(got) <= ChunkWords * p
                             /\ Owed + f[0].rest + p <= Limit + Weight(cmd)
      BY <1>2, <2>5 DEF Debt
    <3>2. Owed' + g[0].rest + p <= Limit' + Weight(cmd)'
      BY <2>2, <2>4, <3>1
    <3> QED BY <1>1, <2>5, <3>1, <3>2 DEF Debt
  <2>6. CASE host # "waiting"
    BY <1>1, <1>2, <2>2, <2>4, <2>6 DEF Debt
  <2> QED BY <2>5, <2>6
<1> QED BY <1>1, <1>3, <1>5, <1>6, <1>7 DEF Frame

\* The agent reads each dword for what the host meant by it.
LEMMA FramedByRead ==
  ASSUME TypeInv, Framed,
         RecvMagic \/ RecvCmd \/ RecvRegion \/ RecvBlock \/ RecvData
  PROVE  Framed'
<1>1. PICK f : Frame(f)
  BY DEF Framed
<1>2. PICK g : g = [i \in 0..(Len(out) - 1) |-> f[i + 1]]
  OBVIOUS
<1>3. PICK a : Recv(a) /\ a \in {"magic", "cmd", "region", "block", "data"}
  BY DEF RecvMagic, RecvCmd, RecvRegion, RecvBlock, RecvData
<1>4. out \in Seq(Words) /\ out # <<>> /\ agent = a /\ store' = store
  BY <1>3 DEF Recv, TypeInv, PipeType
<1>5. g[0] = f[1] /\ f[0] \in Place /\ f[1] \in Place /\ Follows(f[0], Head(out), f[1])
  BY <1>1, <1>2, <1>4, Dropped DEF Frame
<1> DEFINE c == f[0].cmd
<1>6. /\ AgentAt(f[0]) /\ c \in Commands /\ f[0].k \in Nat
      /\ f[0].rest \in Nat /\ g[0].rest \in Nat /\ g[0].k \in Nat
  BY <1>1, <1>5 DEF Frame, Place
<1>7. /\ f[0].k < Len(Dwords(c)) /\ Head(out) = Dwords(c)[f[0].k + 1]
      /\ f[0].k + 1 = Len(Dwords(c)) => g[0].k = 0 /\ f[0].rest = Weight(c) + g[0].rest
      /\ f[0].k + 1 # Len(Dwords(c)) =>
           g[0].cmd = c /\ g[0].k = f[0].k + 1 /\ f[0].rest = g[0].rest
  <2>1. Weight(c) \in Nat
    BY Sizes DEF Weight
  <2>2. CASE f[0].k + 1 = Len(Dwords(c))
    BY <1>5, <1>6, <2>1, <2>2 DEF Follows
  <2>3. CASE f[0].k + 1 # Len(Dwords(c))
    BY <1>5, <1>6, <2>3 DEF Follows
  <2> QED BY <2>2, <2>3
<1>8. /\ c.kind \in {"read", "write", "ext"} /\ Dwords(c)[1] = "MAGIC" /\ Dwords(c)[2] = c.kind
      /\ c.kind = "ext" => Len(Dwords(c)) = 2
      /\ c.kind = "read" => Len(Dwords(c)) = 4
      /\ c.kind = "write" => Len(Dwords(c)) = 4 + BlockWords
      /\ Len(Dwords(c)) \in 2..(4 + BlockWords)
      /\ c.kind = "write" =>
           c.block \in Blocks /\ \A j \in 1..BlockWords : Dwords(c)[4 + j] = c.block[j]
  BY <1>6, DwordsAre
<1> HIDE DEF c
<1>9. ASSUME AgentAt(g[0])', Owing' \in Nat, Owing' + g[0].rest = f[0].rest,
             agent' # "dead", Stored'
      PROVE  Framed'
  BY <1>1, <1>2, <1>3, <1>9, Taken DEF Framed
<1>10. store' \in [Sectors -> Blocks]
  BY <1>4 DEF Framed, Stored
<1>11. CASE RecvMagic
  <2>1. agent = "magic" /\ f[0].k = 0
    BY <1>6, <1>11 DEF RecvMagic, Recv, AgentAt
  <2>2. Head(out) = "MAGIC" /\ g[0].k = 1 /\ f[0].rest = g[0].rest
    BY <1>7, <1>8, <2>1, Sizes
  <2>3. agent' = "cmd"
    BY <1>11, <2>2 DEF RecvMagic
  <2>4. AgentAt(g[0])' /\ Owing' = 0 /\ Stored'
    BY <1>10, <2>2, <2>3 DEF AgentAt, Owing, Stored
  <2> QED BY <1>6, <1>9, <2>2, <2>3, <2>4
<1>12. CASE RecvCmd
  <2>1. agent = "cmd" /\ f[0].k = 1 /\ req' = [req EXCEPT !.kind = Head(out)]
    BY <1>6, <1>12 DEF RecvCmd, Recv, AgentAt
  <2>2. Head(out) = c.kind
    BY <1>7, <1>8, <2>1
  <2>3. req'.kind = c.kind
    BY <2>1, <2>2 DEF TypeInv, AgentType, Requests
  <2>4. CASE c.kind = "ext"
    <3>1. g[0].k = 0 /\ f[0].rest = Packets + g[0].rest
      BY <1>7, <1>8, <2>1, <2>4 DEF Weight
    <3>2. agent' = "exec"
      BY <1>12, <2>2, <2>4 DEF RecvCmd
    <3>3. AgentAt(g[0])' /\ Owing' = Packets /\ Stored'
      BY <1>10, <2>3, <2>4, <3>1, <3>2 DEF AgentAt, Owing, Stored
    <3> QED BY <1>6, <1>9, <3>1, <3>2, <3>3, Sizes
  <2>5. CASE c.kind # "ext"
    <3>1. g[0].k = 2 /\ g[0].cmd = c /\ f[0].rest = g[0].rest
      <4>1. f[0].k + 1 = 2 /\ Len(Dwords(c)) # 2
        <5>1. f[0].k + 1 = 2 /\ Len(Dwords(c)) \in {4, 4 + BlockWords}
          BY <1>8, <2>1, <2>5
        <5>2. 4 # 2 /\ 4 + BlockWords # 2
          BY Sizes
        <5> QED BY <5>1, <5>2
      <4> QED BY <1>7, <4>1
    <3>2. agent' = "region"
      BY <1>8, <1>12, <2>2, <2>5 DEF RecvCmd
    <3>3. AgentAt(g[0])' /\ Owing' = 0 /\ Stored'
      BY <1>10, <2>3, <2>5, <3>1, <3>2 DEF AgentAt, Owing, Stored
    <3> QED BY <1>6, <1>9, <3>1, <3>2, <3>3
  <2> QED BY <2>4, <2>5
<1>13. CASE RecvRegion
  <2>1. agent = "region" /\ f[0].k = 2 /\ req.kind = c.kind /\ c.kind # "ext"
    BY <1>6, <1>13 DEF RecvRegion, Recv, AgentAt, c
  <2>2. g[0].k = 3 /\ g[0].cmd = c /\ f[0].rest = g[0].rest
    <3>1. f[0].k + 1 = 3 /\ Len(Dwords(c)) # 3
      <4>1. f[0].k + 1 = 3 /\ Len(Dwords(c)) \in {4, 4 + BlockWords}
        BY <1>8, <2>1
      <4>2. 4 # 3 /\ 4 + BlockWords # 3
        BY Sizes
      <4> QED BY <4>1, <4>2
    <3> QED BY <1>7, <2>1, <3>1
  <2>3. agent' = "block" /\ req'.kind = req.kind
    BY <1>13 DEF RecvRegion, TypeInv, AgentType, Requests
  <2>4. AgentAt(g[0])' /\ Owing' = 0 /\ Stored'
    BY <1>10, <2>1, <2>2, <2>3 DEF AgentAt, Owing, Stored
  <2> QED BY <1>6, <1>9, <2>2, <2>3, <2>4
<1>14. CASE RecvBlock
  <2>1. agent = "block" /\ f[0].k = 3 /\ req.kind = c.kind /\ c.kind # "ext"
    BY <1>6, <1>14 DEF RecvBlock, Recv, AgentAt, c
  <2>2. /\ agent' = (IF req.kind = "read" THEN "exec" ELSE "data")
        /\ req'.kind = req.kind /\ req'.data = <<>>
    BY <1>14, <2>1 DEF RecvBlock, TypeInv, AgentType, Requests
  <2>3. CASE c.kind = "read"
    <3>1. g[0].k = 0 /\ f[0].rest = Packets + g[0].rest
      BY <1>7, <1>8, <2>1, <2>3 DEF Weight
    <3>2. agent' = "exec" /\ req'.kind = "read"
      BY <2>1, <2>2, <2>3
    <3>3. AgentAt(g[0])' /\ Owing' = Packets /\ Stored'
      BY <1>10, <3>1, <3>2 DEF AgentAt, Owing, Stored
    <3> QED BY <1>6, <1>9, <3>1, <3>2, <3>3, Sizes
  <2>4. CASE c.kind = "write"
    <3>1. g[0].k = 4 /\ g[0].cmd = c /\ f[0].rest = g[0].rest
      BY <1>7, <1>8, <2>1, <2>4, Sizes
    <3>2. agent' = "data" /\ req'.kind = "write"
      BY <2>1, <2>2, <2>4
    <3>3. Len(<<>>) = 0 /\ 4 + 0 = 4
      OBVIOUS
    <3>4. AgentAt(g[0])'
      BY <2>2, <2>4, <3>1, <3>2, <3>3 DEF AgentAt
    <3>5. Owing' = 0 /\ Stored'
      BY <1>10, <3>2 DEF Owing, Stored
    <3> QED BY <1>6, <1>9, <3>1, <3>2, <3>4, <3>5
  <2> QED BY <1>8, <2>1, <2>3, <2>4
<1>15. CASE RecvData
  <2>1. /\ agent = "data" /\ f[0].k = 4 + Len(req.data) /\ req.kind = "write"
        /\ c.kind = "write" /\ \A j \in 1..Len(req.data) : req.data[j] = c.block[j]
    BY <1>6, <1>15 DEF RecvData, Recv, AgentAt, c
  <2>2. req.data \in Seq(Words) /\ Len(req.data) \in Nat /\ Len(req.data) < BlockWords
    BY <2>1 DEF TypeInv, AgentType, Requests
  <2>3. Head(out) \in Words
    BY <1>4, HeadTailProperties
  <2> DEFINE d == Append(req.data, Head(out))
             n == Len(req.data)
  <2>4. d \in Seq(Words) /\ Len(d) = n + 1 /\ d[n + 1] = Head(out)
          /\ \A j \in 1..n : d[j] = req.data[j]
    BY <2>2, <2>3, AppendProperties
  <2>5. req'.data = d /\ req'.kind = "write"
          /\ agent' = (IF Len(d) = BlockWords THEN "exec" ELSE "data")
    BY <1>15, <2>1 DEF RecvData, TypeInv, AgentType, Requests
  <2> HIDE DEF d
  <2>6. \A j \in 1..Len(d) : d[j] = c.block[j]
    <3>1. n + 1 \in 1..BlockWords /\ f[0].k + 1 = 4 + (n + 1)
      BY <1>6, <2>1, <2>2, Sizes
    <3>2. d[n + 1] = c.block[n + 1]
      BY <1>7, <1>8, <2>1, <2>4, <3>1
    <3> QED BY <2>1, <2>2, <2>4, <3>2
  <2>7. CASE Len(d) = BlockWords
    <3>1. g[0].k = 0 /\ f[0].rest = 1 + g[0].rest
      <4>1. f[0].k + 1 = Len(Dwords(c))
        BY <1>8, <2>1, <2>2, <2>4, <2>7, Sizes
      <4> QED BY <1>7, <2>1, <4>1 DEF Weight
    <3>2. agent' = "exec"
      BY <2>5, <2>7
    <3>3. c.block \in Seq(Words) /\ Len(c.block) = BlockWords /\ c.block \in Blocks
      BY <1>8, <2>1, BlocksAreContents DEF Contents
    <3>4. d = c.block
      BY <2>4, <2>6, <2>7, <3>3, SeqEqual
    <3>5. AgentAt(g[0])' /\ Owing' = 1 /\ Stored'
      BY <1>10, <2>5, <3>1, <3>2, <3>3, <3>4 DEF AgentAt, Owing, Stored
    <3> QED BY <1>6, <1>9, <3>1, <3>2, <3>5
  <2>8. CASE Len(d) # BlockWords
    <3>1. f[0].k + 1 # Len(Dwords(c)) /\ f[0].k + 1 = 4 + Len(d)
      BY <1>8, <2>1, <2>2, <2>4, <2>8, Sizes
    <3>2. g[0].k = 4 + Len(d) /\ g[0].cmd = c /\ f[0].rest = g[0].rest
      BY <1>7, <3>1
    <3>3. agent' = "data"
      BY <2>5, <2>8
    <3>4. AgentAt(g[0])'
      BY <2>1, <2>5, <2>6, <3>2, <3>3 DEF AgentAt
    <3>5. Owing' = 0 /\ Stored'
      BY <1>10, <3>3 DEF Owing, Stored
    <3> QED BY <1>6, <1>9, <3>2, <3>3, <3>4, <3>5
  <2> QED BY <2>7, <2>8
<1> QED BY <1>11, <1>12, <1>13, <1>14, <1>15

\* The agent executes a command, or sends a packet: what it owes does not grow.
LEMMA FramedByWork ==
  ASSUME TypeInv, Framed,
         ExecRead \/ ExecWrite \/ ExecExtCsd \/ ExecFails \/ SendPacket
  PROVE  Framed'
<1>1. PICK f : Frame(f)
  BY DEF Framed
<1>2. UNCHANGED <<host, cmd, sent, got, out, req, upsets>>
  BY DEF ExecRead, ExecWrite, ExecExtCsd, ExecFails, SendPacket, hostVars
<1>3. Owed \in Nat /\ Limit \in Nat /\ Weight(cmd) \in Nat \ {0} /\ Weight(cmd) <= Packets
         /\ Len(out) \in Nat
        /\ Len(in) \in Nat /\ Len(toSend) \in Nat /\ Owing \in Nat
  BY Amounts
<1>4. ASSUME agent \in {"exec", "reply"}, agent' \in {"magic", "reply"},
             Owed' \in Nat, Owed' <= Owed, Stored'
      PROVE  Framed'
  <2>1. /\ Linked(f, out) /\ AgentAt(f[0]) /\ HostAt(f[Len(out)]) /\ Debt(f[0].rest)
        /\ (host # "sending" => \A i \in 0..(Len(out) - 1) : f[i].rest # 0)
    BY <1>1 DEF Frame
  <2>2. Linked(f, out)' /\ HostAt(f[Len(out)])' /\ AgentAt(f[0])'
          /\ (host # "sending" => \A i \in 0..(Len(out) - 1) : f[i].rest # 0)'
    BY <1>2, <1>4, <2>1 DEF HostAt, AgentAt
  <2>3. f[0].rest \in Nat
    BY <1>3, <2>1 DEF Linked, Place
  <2>4. Limit' = Limit /\ Weight(cmd)' = Weight(cmd)
    BY <1>2 DEF Limit, Weight
  <2>5. Debt(f[0].rest)'
    <3>1. CASE host = "waiting"
      <4>1. PICK p \in Nat : Len(got) <= ChunkWords * p
                               /\ Owed + f[0].rest + p <= Limit + Weight(cmd)
        BY <2>1, <3>1 DEF Debt
      <4> DEFINE n == f[0].rest
                 w == Weight(cmd)
      <4>2. n \in Nat /\ w \in Nat /\ Owed + n + p <= Limit + w
        BY <1>3, <2>3, <4>1
      <4> HIDE DEF n, w
      <4>3. Owed' + n + p <= Limit + w
        <5>1. Owed' \in Nat /\ Owed \in Nat /\ Owed' <= Owed /\ Limit + w \in Nat
          BY <1>3, <1>4, <4>2
        <5> QED BY <4>2, <5>1, Less
      <4>4. Owed' + f[0].rest + p <= Limit + Weight(cmd)
        BY <4>3 DEF n, w
      <4>5. Owed' + f[0].rest + p <= Limit' + Weight(cmd)'
        BY <2>4, <4>4
      <4> QED BY <1>2, <3>1, <4>1, <4>5 DEF Debt
    <3>2. CASE host # "waiting"
      BY <1>2, <1>3, <1>4, <2>1, <2>3, <2>4, <3>2 DEF Debt
    <3> QED BY <3>1, <3>2
  <2> QED BY <1>4, <2>2, <2>5 DEF Framed, Frame
<1>5. ASSUME NEW r, Reply(r), agent = "exec", Len(r) = Owing, in' = in, Stored'
      PROVE  Framed'
  <2>1. toSend' = r /\ agent' = "reply" /\ Owing' = 0
    BY <1>5 DEF Reply, Owing
  <2>2. toSend = <<>> /\ Len(<<>>) = 0
    BY <1>5 DEF TypeInv, AgentType
  <2>3. Owed' = Owed
    BY <1>3, <1>5, <2>1, <2>2 DEF Owed
  <2> QED BY <1>3, <1>4, <1>5, <2>1, <2>3
<1>6. store \in [Sectors -> Blocks] /\ (agent = "exec" /\ req.kind = "write" => req.data \in Blocks)
  BY DEF Framed, Stored
<1>7. CASE ExecRead
  <2>1. \A i \in 1..BlockWords : store[req.sector][i] \in Terms
    BY <1>7 DEF ExecRead, Addressed, TypeInv, AgentType, Contents, Terms
  <2>2. Len(DataReply(store[req.sector])) = Packets
    BY <2>1, DataIsPackets
  <2>3. agent = "exec" /\ req.kind = "read" /\ in' = in /\ store' = store
          /\ Reply(DataReply(store[req.sector]))
    BY <1>7 DEF ExecRead
  <2>4. Stored' /\ Owing = Packets
    BY <1>6, <2>3 DEF Stored, Owing, Reply
  <2> QED BY <1>5, <2>2, <2>3, <2>4
<1>8. CASE ExecExtCsd
  <2>1. PICK e \in ExtReplies : Reply(DataReply(e))
    BY <1>8 DEF ExecExtCsd
  <2>2. Len(DataReply(e)) = Packets
    BY ExtRepliesAre, DataIsPackets
  <2>3. agent = "exec" /\ req.kind = "ext" /\ in' = in /\ store' = store
    BY <1>8 DEF ExecExtCsd
  <2>4. Stored' /\ Owing = Packets
    BY <1>6, <2>1, <2>3 DEF Stored, Owing, Reply
  <2> QED BY <1>5, <2>1, <2>2, <2>3, <2>4
<1>9. CASE ExecWrite
  <2>1. /\ agent = "exec" /\ req.kind = "write" /\ in' = in /\ Reply(AckReply)
        /\ store' = [store EXCEPT ![req.sector] = req.data]
    BY <1>9 DEF ExecWrite
  <2>2. store' \in [Sectors -> Blocks]
    BY <1>6, <2>1
  <2>3. Stored' /\ Owing = 1 /\ Len(AckReply) = 1
    BY <2>1, <2>2, AckIsPackets DEF Stored, Owing, Reply
  <2> QED BY <1>5, <2>1, <2>3
<1>10. CASE ExecFails
  <2>1. /\ agent = "exec" /\ agent' = "magic" /\ in' = in /\ toSend' = toSend
        /\ store' = store \/ (req.kind = "write"
                                /\ store' = [store EXCEPT ![req.sector] = req.data])
    BY <1>10 DEF ExecFails
  <2>2. store' \in [Sectors -> Blocks]
    BY <1>6, <2>1
  <2>3. Stored' /\ Owing' = 0
    BY <2>1, <2>2 DEF Stored, Owing
  <2>4. Owed' \in Nat /\ Owed' <= Owed
    BY <1>3, <2>1, <2>3 DEF Owed
  <2> QED BY <1>4, <2>1, <2>3, <2>4
<1>11. CASE SendPacket
  <2>1. /\ agent = "reply" /\ agent' \in {"magic", "reply"} /\ store' = store
        /\ in' = Append(in, Head(toSend)) /\ toSend' = Tail(toSend)
        /\ toSend # <<>> /\ toSend \in Seq(Packet) /\ in \in Seq(Packet)
    BY <1>11 DEF SendPacket, TypeInv, AgentType, PipeType
  <2>2. Head(toSend) \in Packet /\ Len(toSend') = Len(toSend) - 1 /\ Len(toSend') \in Nat
    BY <2>1, HeadTailProperties
  <2>3. Len(in') = Len(in) + 1
    BY <2>1, <2>2, AppendProperties
  <2>4. Owing = 0 /\ Owing' = 0 /\ Stored'
    BY <1>6, <2>1 DEF Owing, Stored
  <2>5. Owed' = Len(in') + Len(toSend') + Owing' /\ Owed = Len(in) + Len(toSend) + Owing
    BY DEF Owed
  <2>6. Owed' = Owed
    BY <1>3, <2>2, <2>3, <2>4, <2>5
  <2> QED BY <1>3, <1>4, <2>1, <2>4, <2>6
<1> QED BY <1>7, <1>8, <1>9, <1>10, <1>11

\* Once a command has been cut off it stays so.
LEMMA AbortsStay ==
  ASSUME TypeInv, Next, NothingAborted'
  PROVE  NothingAborted /\ ~Abort
<1>1. upsets \in Seq(Upsets)
  BY DEF TypeInv, UpsetType
<1>2. ASSUME NEW kind, Upset(kind)
      PROVE  kind # "abort" /\ NothingAborted
  <2>1. /\ kind \in Upsets /\ Len(upsets') = Len(upsets) + 1 /\ upsets' \in Seq(Upsets)
        /\ upsets'[Len(upsets) + 1] = kind /\ Len(upsets) \in Nat
        /\ \A i \in 1..Len(upsets) : upsets'[i] = upsets[i]
    BY <1>1, <1>2, AppendProperties DEF Upset
  <2>2. DOMAIN upsets = 1..Len(upsets) /\ DOMAIN upsets' = 1..(Len(upsets) + 1)
    BY <1>1, <2>1
  <2>3. kind \in Range(upsets')
    BY <2>1, <2>2 DEF Range
  <2>4. Range(upsets) \subseteq Range(upsets')
    BY <2>1, <2>2 DEF Range
  <2> QED BY <2>3, <2>4 DEF NothingAborted
<1>3. CASE UNCHANGED upsets
  <2>1. ~Abort
    <3> SUFFICES ASSUME Abort PROVE FALSE
      OBVIOUS
    <3>1. Len(upsets') = Len(upsets) + 1 /\ Len(upsets) \in Nat
      BY <1>1, AppendProperties DEF Abort, Upset
    <3> QED BY <1>3, <3>1
  <2> QED BY <1>3, <2>1 DEF NothingAborted
<1>4. UNCHANGED upsets \/ Upset("abort") \/ Upset("interrupt") \/ Upset("late")
  BY DEF Next, HostWrites, HostReads, AgentStep, Connect, Disconnect, Begin, Send, SendTimeout,
     Abort, Interrupt, Receive, ReceiveOverflow, ReceiveTimeout, Recv, RecvMagic, RecvCmd,
     RecvRegion, RecvBlock, RecvData, ExecRead, ExecWrite, ExecExtCsd, ExecFails, SendPacket
<1>5. ASSUME Upset("interrupt") \/ Upset("late") PROVE ~Abort
  <2> SUFFICES ASSUME Abort PROVE FALSE
    OBVIOUS
  <2>1. Upset("abort")
    BY DEF Abort
  <2> QED BY <1>2, <2>1
<1> QED BY <1>2, <1>3, <1>4, <1>5

\* The host begins a command, and sends a dword of it.
LEMMA FramedBySending ==
  ASSUME TypeInv, Framed, (\E c \in Commands : Begin(c)) \/ Send
  PROVE  Framed'
<1>1. PICK f : Frame(f)
  BY DEF Framed
<1>2. UNCHANGED <<in, agent, req, toSend, store, upsets>>
  BY DEF Begin, Send, agentVars
<1>3. agent' # "dead" /\ Stored'
  BY <1>2 DEF Framed, Stored
<1>4. /\ Owed \in Nat /\ Limit \in Nat /\ Weight(cmd) \in Nat \ {0} /\ Len(out) \in Nat
      /\ Owed' = Owed /\ Limit' = Limit
  BY <1>2, Amounts DEF Owed, Owing, Limit
<1>5. /\ Linked(f, out) /\ AgentAt(f[0]) /\ HostAt(f[Len(out)]) /\ Debt(f[0].rest)
      /\ (host # "sending" => \A i \in 0..(Len(out) - 1) : f[i].rest # 0)
  BY <1>1 DEF Frame
<1>6. out \in Seq(Words) /\ f \in [0..Len(out) -> Place]
  BY <1>5 DEF TypeInv, PipeType, Linked
<1>7. f[0] \in Place /\ f[Len(out)] \in Place /\ f[0].rest \in Nat
  BY <1>4, <1>6 DEF Place
<1>8. ASSUME NEW c \in Commands, Begin(c) PROVE Framed'
  <2>1. /\ host = "idle" /\ host' = "sending" /\ cmd' = c /\ sent' = 0 /\ out' = out
    BY <1>8 DEF Begin
  <2>2. f[Len(out)].k = 0 /\ f[Len(out)].rest = 0
    BY <1>5, <2>1 DEF HostAt
  <2>4. PICK g : /\ Linked(g, out) /\ g[Len(out)] = [f[Len(out)] EXCEPT !.cmd = c]
                 /\ g[0].k = f[0].k /\ g[0].rest = f[0].rest
                 /\ Len(out) # 0 => g[0] = f[0]
    BY <1>5, <1>6, <2>2, Renamed
  <2>5. AgentAt(g[0])'
    <3>1. CASE Len(out) = 0
      <4>1. f[0].k = 0
        BY <2>2, <3>1
      <4>2. agent \in {"magic", "exec", "reply"}
        BY <1>5, <1>3, <1>2, <4>1, Sizes DEF AgentAt, TypeInv, AgentType, Requests
      <4> QED BY <1>2, <2>4, <4>1, <4>2 DEF AgentAt
    <3>2. CASE Len(out) # 0
      BY <1>2, <1>5, <2>4, <3>2 DEF AgentAt
    <3> QED BY <3>1, <3>2
  <2>6. HostAt(g[Len(out)])'
    BY <1>7, <2>1, <2>2, <2>4 DEF HostAt, Place
  <2>7. Debt(g[0].rest)'
    BY <1>4, <1>5, <2>1, <2>4 DEF Debt
  <2>8. Frame(g)'
    BY <2>1, <2>4, <2>5, <2>6, <2>7 DEF Frame
  <2> QED BY <1>3, <2>8 DEF Framed
<1>9. CASE Send
  <2> DEFINE d == Dwords(cmd)[sent + 1]
             size == Len(Dwords(cmd))
  <2>1. /\ host = "sending" /\ sent' = sent + 1 /\ cmd' = cmd /\ got' = got
        /\ out' = Append(out, d)
        /\ host' = (IF sent + 1 = size THEN "waiting" ELSE "sending")
    BY <1>9 DEF Send
  <2>2. cmd \in Commands /\ sent \in Nat /\ sent < size /\ got = <<>> /\ size \in Nat
          /\ Dwords(cmd) \in Seq(Words)
    BY <2>1, DwordsAre, Sizes DEF TypeInv, HostType
  <2>3. d \in Words
    BY <2>2, ElementOfSeq
  <2>4. f[Len(out)].rest = 0 /\ f[Len(out)].k = sent /\ f[Len(out)].cmd = cmd
    BY <1>5, <2>1 DEF HostAt
  <2>5. PICK w \in Nat : w = IF sent + 1 = size THEN Weight(cmd) ELSE 0
    BY <1>4
  <2>6. PICK q : q = [cmd |-> cmd, k |-> IF sent + 1 = size THEN 0 ELSE sent + 1, rest |-> 0]
    OBVIOUS
  <2>7. q \in Place /\ q.rest = 0 /\ q.cmd = cmd /\ q.k = IF sent + 1 = size THEN 0 ELSE sent + 1
    BY <2>2, <2>6 DEF Place
  <2>8. PICK p \in Place : p = [cmd |-> cmd, k |-> sent, rest |-> w]
    BY <2>2 DEF Place
  <2>9. p.rest = w /\ p.k = sent /\ p.cmd = cmd
    BY <2>8
  <2>10. Follows(p, d, q)
    <3>1. CASE sent + 1 = size
      <4>1. w = 0 + Weight(cmd)
        BY <1>4, <2>5, <3>1
      <4> QED BY <2>2, <2>7, <2>9, <3>1, <4>1 DEF Follows
    <3>2. CASE sent + 1 # size
      <4>1. w = 0 + 0
        BY <2>5, <3>2
      <4> QED BY <2>2, <2>7, <2>9, <3>2, <4>1 DEF Follows
    <3> QED BY <3>1, <3>2
  <2> HIDE DEF d, size
  <2>11. /\ p.cmd = f[Len(out)].cmd /\ p.k = f[Len(out)].k
         /\ p.rest = f[Len(out)].rest + w
    BY <2>4, <2>9
  <2>12. PICK g : /\ Linked(g, Append(out, d)) /\ g[Len(Append(out, d))] = q
                  /\ \A i \in 0..Len(out) :
                       g[i].cmd = f[i].cmd /\ g[i].k = f[i].k /\ g[i].rest = f[i].rest + w
    BY <1>5, <1>6, <2>3, <2>7, <2>10, <2>11, Added
  <2>13. g[0].k = f[0].k /\ g[0].cmd = f[0].cmd /\ g[0].rest = f[0].rest + w
    BY <1>4, <2>12
  <2>14. AgentAt(g[0])'
    BY <1>2, <1>5, <2>13 DEF AgentAt
  <2>15. out' \in Seq(Words) /\ Len(out') = Len(out) + 1
    BY <1>6, <2>1, <2>3, AppendProperties
  <2>16. ASSUME NEW j, j = Len(out') PROVE HostAt(g[j])'
    <3>1. g[j] = q
      BY <2>1, <2>12, <2>16
    <3> QED BY <2>1, <2>7, <3>1 DEF HostAt
  <2>17. host' # "sending" => \A i \in 0..(Len(out') - 1) : g[i].rest # 0
    <3> SUFFICES ASSUME host' # "sending", NEW i \in 0..(Len(out') - 1) PROVE g[i].rest # 0
      OBVIOUS
    <3>1. w # 0
      BY <1>4, <2>1, <2>5
    <3>2. i \in 0..(Len(out) + 1) /\ i # Len(out) + 1 /\ i \in 0..Len(out)
      BY <1>4, <2>15
    <3>3. g[i].rest = f[i].rest + w /\ f[i].rest \in Nat
      BY <1>6, <2>12, <3>2 DEF Place
    <3> QED BY <3>1, <3>3
  <2>18. Debt(g[0].rest)'
    <3>1. Owed + f[0].rest <= Limit
      BY <1>5, <2>1 DEF Debt
    <3>2. CASE sent + 1 = size
      <4>1. host' = "waiting" /\ w = Weight(cmd) /\ Weight(cmd)' = Weight(cmd) /\ got' = <<>>
        BY <2>1, <2>2, <2>5, <3>2 DEF Weight
      <4>2. Len(<<>>) <= ChunkWords * 0
        BY Sizes
      <4>3. Owed' + g[0].rest + 0 <= Limit' + Weight(cmd)'
        BY <1>4, <1>7, <2>13, <3>1, <4>1
      <4> QED BY <4>1, <4>2, <4>3 DEF Debt
    <3>3. CASE sent + 1 # size
      <4>1. host' = "sending" /\ g[0].rest = f[0].rest
        BY <1>7, <2>1, <2>5, <2>13, <3>3
      <4> QED BY <1>4, <3>1, <4>1 DEF Debt
    <3> QED BY <3>2, <3>3
  <2>19. Frame(g)'
    BY <2>1, <2>12, <2>14, <2>16, <2>17, <2>18 DEF Frame
  <2> QED BY <1>3, <2>19 DEF Framed
<1> QED BY <1>8, <1>9

\* A reply that has come whole took as many packets as were counted for it.
LEMMA Whole ==
  ASSUME TypeInv, NEW p \in Nat, NEW n \in Nat, n <= ChunkWords * p, ReplySize(cmd) <= n
  PROVE  Weight(cmd) <= p
<1>1. cmd \in Commands /\ ReplySize(cmd) = IF cmd.kind = "write" THEN 1 ELSE BlockWords
  BY ReplySizes DEF TypeInv, HostType
<1>2. CASE cmd.kind = "write"
  <2>1. 1 <= n /\ Weight(cmd) = 1
    BY <1>1, <1>2 DEF Weight
  <2>2. p # 0
    <3> SUFFICES ASSUME p = 0 PROVE FALSE
      OBVIOUS
    <3>1. ChunkWords * 0 = 0
      BY Sizes
    <3> QED BY <2>1, <3>1
  <2> QED BY <2>1, <2>2
<1>3. CASE cmd.kind # "write"
  <2>1. BlockWords <= n /\ Weight(cmd) = Packets
    BY <1>1, <1>3 DEF Weight
  <2>2. ~(p + 1 <= Packets)
    <3> SUFFICES ASSUME p + 1 <= Packets PROVE FALSE
      OBVIOUS
    <3>1. ChunkWords * (p + 1) <= ChunkWords * Packets /\ ChunkWords * p \in Nat
      BY Sizes, Monotone
    <3>2. ChunkWords * (p + 1) = ChunkWords * p + ChunkWords
      BY Sizes
    <3> QED BY <2>1, <3>1, <3>2, Sizes
  <2>3. Packets \in Nat
    BY Sizes
  <2> QED BY <2>1, <2>2, <2>3
<1> QED BY <1>2, <1>3

\* The host's sessions and waits end; a reply comes, too large or not.
LEMMA FramedByWaiting ==
  ASSUME TypeInv, Framed, InCap >= MaxUpsets * Packets,
         Connect \/ Disconnect \/ SendTimeout \/ Interrupt \/ Receive \/ ReceiveOverflow
           \/ ReceiveTimeout
  PROVE  Framed'
<1>1. PICK f : Frame(f)
  BY DEF Framed
<1>2. UNCHANGED <<out, agent, req, toSend, store, cmd>>
  BY DEF Connect, Disconnect, SendTimeout, Interrupt, Receive, ReceiveOverflow, ReceiveTimeout,
     EndSession, agentVars
<1>3. /\ Owed \in Nat /\ Limit \in Nat /\ Weight(cmd) \in Nat \ {0} /\ Weight(cmd) <= Packets
      /\ Len(out) \in Nat /\ Len(in) \in Nat /\ Len(toSend) \in Nat /\ Owing \in Nat
      /\ Packets \in Nat /\ Owed = Len(in) + Len(toSend) + Owing
  BY Amounts, Sizes DEF Owed
<1>4. Owing' = Owing /\ Owed' = Len(in') + Len(toSend) + Owing /\ Weight(cmd)' = Weight(cmd)
  BY <1>2 DEF Owing, Owed, Weight
<1>5. /\ Linked(f, out) /\ AgentAt(f[0]) /\ HostAt(f[Len(out)]) /\ Debt(f[0].rest)
      /\ (host # "sending" => \A i \in 0..(Len(out) - 1) : f[i].rest # 0)
  BY <1>1 DEF Frame
<1>6. f[0].rest \in Nat
  BY <1>3, <1>5 DEF Linked, Place
<1>7. ASSUME host # "sending", host' # "sending", Debt(f[0].rest)'
      PROVE  Framed'
  <2>1. Linked(f, out)' /\ AgentAt(f[0])' /\ HostAt(f[Len(out)])'
          /\ \A i \in 0..(Len(out') - 1) : f[i].rest # 0
    BY <1>2, <1>5, <1>7 DEF AgentAt, HostAt
  <2>2. Frame(f)'
    BY <1>7, <2>1 DEF Frame
  <2> QED BY <1>2, <2>2 DEF Framed, Stored
<1>8. CASE Connect \/ Disconnect
  <2>1. host \in {"off", "idle"} /\ host' \in {"off", "idle"} /\ in' = in /\ upsets' = upsets
    BY <1>8 DEF Connect, Disconnect
  <2>2. Owed' = Owed /\ Limit' = Limit
    BY <1>3, <1>4, <2>1 DEF Limit
  <2>3. Debt(f[0].rest)'
    BY <1>5, <2>1, <2>2 DEF Debt
  <2> QED BY <1>7, <2>1, <2>3
<1>9. ~SendTimeout
  <2> SUFFICES ASSUME SendTimeout PROVE FALSE
    OBVIOUS
  <2>1. host = "sending" /\ agent = "reply" /\ Len(in) = InCap
    BY DEF SendTimeout, Framed
  <2>2. Owed + f[0].rest <= Limit
    BY <1>5, <2>1 DEF Debt
  <2>3. Len(toSend) # 0
    BY <2>1, EmptySeq DEF TypeInv, AgentType
  <2>4. Limit <= MaxUpsets * Packets
    <3>1. Len(upsets) \in Nat /\ MaxUpsets \in Nat /\ Len(upsets) <= MaxUpsets
      BY UsbSessionAssumption DEF TypeInv, UpsetType
    <3>2. Packets * Len(upsets) <= Packets * MaxUpsets
      BY <1>3, <3>1, Monotone
    <3> QED BY <1>3, <3>1, <3>2 DEF Limit
  <2>5. MaxUpsets * Packets \in Nat /\ InCap \in Nat
    BY <1>3, UsbSessionAssumption
  <2> QED BY <1>3, <1>6, <2>1, <2>2, <2>3, <2>4, <2>5
<1>10. CASE Interrupt \/ Receive \/ ReceiveOverflow \/ ReceiveTimeout
  <2>1. host = "waiting"
    BY <1>10 DEF Interrupt, Receive, ReceiveOverflow, ReceiveTimeout
  <2>2. PICK p \in Nat : Len(got) <= ChunkWords * p
                           /\ Owed + f[0].rest + p <= Limit + Weight(cmd)
    BY <1>5, <2>1 DEF Debt
  <2> DEFINE n == f[0].rest
             w == Weight(cmd)
  <2>3. n \in Nat /\ w \in Nat /\ w <= Packets /\ Owed + n + p <= Limit + w
    BY <1>3, <1>6, <2>2
  <2> HIDE DEF n, w
  <2>4. Owed + n <= Limit + Packets
    BY <1>3, <2>3
  <2>5. ASSUME host' = "off", Owed' + n <= Limit'
        PROVE  Framed'
    <3>1. Debt(n)'
      BY <2>5 DEF Debt
    <3> QED BY <1>7, <2>1, <2>5, <3>1 DEF n
  <2>6. ASSUME NEW kind, Upset(kind), EndSession, in' = in PROVE Framed'
    <3>1. Len(upsets') = Len(upsets) + 1 /\ Len(upsets) \in Nat
      BY <2>6, AppendProperties DEF Upset, TypeInv, UpsetType
    <3>2. Limit' = Limit + Packets
      BY <1>3, <3>1 DEF Limit
    <3>3. Owed' = Owed
      BY <1>3, <1>4, <2>6
    <3> QED BY <2>4, <2>5, <2>6, <3>2, <3>3 DEF EndSession
  <2>7. CASE Interrupt
    BY <2>6, <2>7 DEF Interrupt
  <2>8. CASE ReceiveTimeout
    <3>1. EndSession /\ in' = in /\ in = <<>>
      BY <2>8 DEF ReceiveTimeout
    <3>2. CASE Upset("late")
      BY <2>6, <3>1, <3>2
    <3>3. CASE NoReplyToCome /\ UNCHANGED upsets
      <4>1. agent \notin {"exec", "reply"} /\ out = <<>>
        BY <3>3 DEF NoReplyToCome, Framed
      <4>2. toSend = <<>> /\ Owing = 0 /\ Len(in) = 0 /\ Len(toSend) = 0 /\ Len(out) = 0
        BY <3>1, <4>1, EmptySeq DEF TypeInv, AgentType, Owing
      <4>3. n = 0
        BY <1>5, <4>2 DEF HostAt, n
      <4>4. Owed' + n = 0 /\ Limit' = Limit
        BY <1>4, <3>1, <3>3, <4>2, <4>3 DEF Limit
      <4> QED BY <1>3, <2>5, <3>1, <4>4 DEF EndSession
    <3> QED BY <2>8, <3>2, <3>3 DEF ReceiveTimeout
  <2>9. CASE Receive \/ ReceiveOverflow
    <3>1. in # <<>> /\ in' = Tail(in) /\ in \in Seq(Packet) /\ upsets' = upsets
      BY <2>9 DEF Receive, ReceiveOverflow, TypeInv, PipeType
    <3>2. Len(in') = Len(in) - 1 /\ Head(in) \in Packet
      BY <3>1, HeadTailProperties
    <3>3. Limit' = Limit /\ Len(in') + 1 = Len(in) /\ Len(in') \in Nat
      <4>1. Len(in) # 0
        BY <3>1, EmptySeq
      <4> QED BY <1>3, <3>1, <3>2, <4>1 DEF Limit
    <3>4. Owed' + 1 = Owed /\ Owed' \in Nat
      BY <1>3, <1>4, <3>3
    <3>0. Owed' + n + (p + 1) <= Limit + w
      <4>1. Limit + w \in Nat
        BY <1>3, <2>3
      <4> QED BY <1>3, <2>3, <3>4, <4>1, OneLess
    <3> DEFINE m == Len(got) + Len(Head(in))
    <3>5. m \in Nat /\ m <= ChunkWords * (p + 1) /\ ReplySize(cmd) \in Nat
      <4>1. Len(Head(in)) \in Nat /\ Len(Head(in)) <= ChunkWords
        BY <3>2, Sizes DEF Packet
      <4>2. ChunkWords * (p + 1) = ChunkWords * p + ChunkWords /\ ChunkWords * p \in Nat
        BY Sizes
      <4>3. Len(got) \in Nat /\ ReplySize(cmd) \in Nat
        BY ReplySizes DEF TypeInv, HostType
      <4> QED BY <2>2, <4>1, <4>2, <4>3, Sizes
    <3> HIDE DEF m
    <3>6. ASSUME ReplySize(cmd) <= m PROVE Owed' + n <= Limit'
      <4>1. p + 1 \in Nat /\ w <= p + 1
        BY <3>5, <3>6, Whole DEF w
      <4>2. Owed' + n <= Limit
        BY ZenonT(30), <1>3, <2>3, <3>0, <3>4, <4>1, Cancelled
      <4> QED BY <3>3, <4>2
    <3>7. CASE ReceiveOverflow
      <4>1. m > ReplySize(cmd) /\ EndSession
        BY <3>7 DEF ReceiveOverflow, m
      <4> QED BY <2>5, <3>5, <3>6, <4>1 DEF EndSession
    <3>8. CASE Receive
      <4>1. Head(in) \in Seq(Terms) /\ got \in Seq(Terms)
        BY <3>2 DEF Packet, TypeInv, HostType
      <4>2. got' = got \o Head(in) /\ Len(got') = m /\ host' \in {"waiting", "idle"}
              /\ (host' = "idle" => ~(m < ReplySize(cmd)))
        <5>1. got' = got \o Head(in) /\ Len(got \o Head(in)) = Len(got) + Len(Head(in))
          BY <3>8, <4>1, ConcatProperties DEF Receive
        <5>2. CASE Len(got') < ReplySize(cmd)
          BY <2>1, <3>8, <5>1, <5>2 DEF Receive, m
        <5>3. CASE ~(Len(got') < ReplySize(cmd))
          BY <3>8, <5>1, <5>3 DEF Receive, m
        <5> QED BY <5>2, <5>3
      <4>3. CASE host' = "idle"
        <5>1. Owed' + n <= Limit'
          BY <3>5, <3>6, <4>2, <4>3
        <5>2. Debt(n)'
          BY <4>3, <5>1 DEF Debt
        <5> QED BY <1>7, <2>1, <4>3, <5>2 DEF n
      <4>4. CASE host' = "waiting"
        <5>1. Len(got') <= ChunkWords * (p + 1) /\ p + 1 \in Nat
          BY <3>5, <4>2
        <5>2. Owed' + n + (p + 1) <= Limit' + w
          BY <3>0, <3>3
        <5>3. Weight(cmd)' = w
          BY <1>4 DEF w
        <5>4. Owed' + n + (p + 1) <= Limit' + Weight(cmd)'
          BY <5>2, <5>3
        <5>5. Debt(n)'
          BY <4>4, <5>1, <5>4 DEF Debt
        <5> QED BY <1>7, <2>1, <4>4, <5>5 DEF n
      <4> QED BY <4>2, <4>3, <4>4
    <3> QED BY <2>9, <3>7, <3>8
  <2> QED BY <1>10, <2>7, <2>8, <2>9
<1> QED BY <1>8, <1>9, <1>10

\* At the start nothing is on its way.
LEMMA FramedInit == Init => Framed
<1> SUFFICES ASSUME Init PROVE Framed
  OBVIOUS
<1> USE DEF Init
<1>1. PICK c \in Commands : c = cmd
  OBVIOUS
<1>2. PICK f : f = [i \in 0..0 |-> [cmd |-> c, k |-> 0, rest |-> 0]]
  OBVIOUS
<1>3. Len(out) = 0 /\ Len(in) = 0 /\ Len(toSend) = 0 /\ Len(upsets) = 0
  OBVIOUS
<1>4. f[0] = [cmd |-> c, k |-> 0, rest |-> 0] /\ f \in [0..Len(out) -> Place]
  BY <1>2, <1>3 DEF Place
<1>5. Linked(f, out)
  BY <1>3, <1>4 DEF Linked
<1>6. AgentAt(f[0]) /\ HostAt(f[Len(out)])
  BY <1>3, <1>4 DEF AgentAt, HostAt
<1>7. Debt(f[0].rest)
  <2>1. Owed = 0 /\ Limit = 0
    BY <1>3, Sizes DEF Owed, Owing, Limit
  <2> QED BY <1>4, <2>1 DEF Debt
<1>8. Frame(f)
  BY <1>3, <1>5, <1>6, <1>7 DEF Frame
<1> QED BY <1>8 DEF Framed, Stored

\* Of the sessions in which no command was cut off.
KeyInv == TypeInv /\ (NothingAborted => Framed)

LEMMA KeyInvariant ==
  ASSUME InCap >= MaxUpsets * Packets
  PROVE  Spec => []KeyInv
<1>1. Init => KeyInv
  BY InitType, FramedInit DEF KeyInv
<1>2. KeyInv /\ [Next]_vars => KeyInv'
  <2> SUFFICES ASSUME KeyInv, [Next]_vars PROVE KeyInv'
    OBVIOUS
  <2>1. CASE Next
    <3>1. TypeInv'
      BY <2>1, HostTypeStep, PipeTypeStep, AgentTypeStep, UpsetTypeStep DEF KeyInv, TypeInv
    <3>2. ASSUME NothingAborted' PROVE Framed'
      <4>1. TypeInv /\ Framed /\ ~Abort
        BY <2>1, <3>2, AbortsStay DEF KeyInv
      <4> QED BY <2>1, <4>1, FramedByRead, FramedByWork, FramedBySending, FramedByWaiting
              DEF Next, HostWrites, HostReads, AgentStep
    <3> QED BY <3>1, <3>2 DEF KeyInv
  <2>2. CASE UNCHANGED vars
    BY <2>2 DEF vars, hostVars, agentVars, KeyInv, TypeInv, HostType, PipeType, AgentType,
       UpsetType, ReplySize, NothingAborted, Framed, Stored, Frame, AgentAt, HostAt, Debt,
       Owed, Owing, Limit, Weight
  <2> QED BY <2>1, <2>2
<1> QED BY <1>1, <1>2, PTL DEF Spec

\* If the pipe to the host holds the replies of all waits that are cut off, and no
\* command is cut off while it is being sent, the agent never takes something else
\* for the magic and nothing but what was handed to write_sector reaches the card.
THEOREM FramingHolds ==
  ASSUME InCap >= MaxUpsets * Packets
  PROVE  Spec => []FramingSurvives
<1>1. KeyInv => FramingSurvives
  BY DEF KeyInv, Framed, Stored, FramingSurvives
<1> QED BY <1>1, KeyInvariant, PTL

\* Then, too, each wait that is cut off leaves at most one reply behind.
THEOREM LeftoversAreBounded ==
  ASSUME InCap >= MaxUpsets * Packets
  PROVE  Spec => []LeftoversBounded
<1>1. KeyInv => LeftoversBounded
  <2> SUFFICES ASSUME KeyInv, NothingAborted, host \in {"off", "idle"}
               PROVE  Len(in) <= Len(upsets) * (BlockWords \div ChunkWords)
    BY DEF LeftoversBounded
  <2>1. PICK f : Frame(f)
    BY DEF KeyInv, Framed
  <2>2. Owed + f[0].rest <= Limit
    BY <2>1 DEF Frame, Debt
  <2>3. f[0].rest \in Nat /\ Owed \in Nat /\ Limit \in Nat /\ Len(in) \in Nat
          /\ Len(toSend) \in Nat /\ Owing \in Nat /\ Owed = Len(in) + Len(toSend) + Owing
    <3>1. Len(out) \in Nat
      BY Amounts DEF KeyInv
    <3> QED BY <2>1, <3>1, Amounts DEF KeyInv, Frame, Linked, Place, Owed
  <2>4. Len(in) <= Limit
    BY <2>2, <2>3
  <2> QED BY <2>4 DEF Limit, Packets
<1> QED BY <1>1, KeyInvariant, PTL

-----------------------------------------------------------------------------
(* Undisturbed.  One command is under way at a time, and what is in the     *)
(* pipes and in the two programs belongs to it.  Failures of the driver,    *)
(* after which the host waits in vain, do not disturb that; the pipes may   *)
(* be of any capacity.                                                      *)

\* How many dwords of the command at hand the agent has taken, unless it has them all.
At == CASE agent = "cmd" -> 1 [] agent = "region" -> 2 [] agent = "block" -> 3
        [] agent = "data" -> 4 + Len(req.data) [] OTHER -> 0

\* The agent has taken the first dwords of the host's command, and the others that were
\* sent are in the pipe.
Reading ==
  /\ agent \in {"magic", "cmd", "region", "block", "data"} /\ in = <<>> /\ got = <<>>
  /\ At + Len(out) = sent /\ At < Len(Dwords(cmd))
  /\ \A i \in 1..Len(out) : out[i] = Dwords(cmd)[At + i]
  /\ agent \in {"region", "block", "data"} => req.kind = cmd.kind
  /\ agent \in {"block", "data"} => req.region = RegionId
  /\ agent = "data" => /\ cmd.kind = "write" /\ req.sector = cmd.sector
                       /\ \A j \in 1..Len(req.data) : req.data[j] = cmd.block[j]

\* It has taken it all and means what the host means.
Executing ==
  /\ agent = "exec" /\ in = <<>> /\ got = <<>> /\ req.kind = cmd.kind
  /\ cmd.kind # "ext" => req.region = RegionId /\ req.sector = cmd.sector
  /\ cmd.kind = "write" => req.data = cmd.block

\* The acknowledgement of a write that is on the card is on its way.
Acknowledging ==
  /\ agent \in {"reply", "magic"} /\ cmd.kind = "write" /\ store[cmd.sector] = cmd.block
  /\ got = <<>>
  /\ \A i \in 1..Len(in) : in[i] = <<"ACK">>
  /\ \A i \in 1..Len(toSend) : toSend[i] = <<"ACK">>
  /\ Len(in) + Len(toSend) = 1

\* The blocks that may be returned for a read or for EXT_CSD.
Asked == IF cmd.kind = "read" THEN {store[cmd.sector]} ELSE ExtReplies

\* What the host has received, what is in the pipe and what the agent has still to send
\* are, one after the other, the block b.
Delivering(b) ==
  \E p \in Nat :
    /\ p + Len(in) + Len(toSend) = Packets
    /\ Len(got) = ChunkWords * p /\ \A j \in 1..Len(got) : got[j] = b[j]
    /\ \A i \in 1..Len(in) : in[i] = DataReply(b)[p + i]
    /\ \A i \in 1..Len(toSend) : toSend[i] = DataReply(b)[p + Len(in) + i]

\* A block that was asked for is being delivered.
Answering ==
  /\ agent \in {"reply", "magic"} /\ cmd.kind # "write"
  /\ \E b \in Asked : Delivering(b)

\* The driver has failed: nothing will come.
Silent == agent = "magic" /\ in = <<>> /\ got = <<>>

Quiet == out = <<>> /\ in = <<>> /\ agent = "magic"

DoneIsTrue ==
  /\ done.kind = "read" => done.data = store[done.sector]
  /\ done.kind = "ext" => done.data \in ExtReplies
  /\ done.kind = "write" => store[done.sector] = cmd.block

Together ==
  /\ host \in {"off", "idle"} => Quiet /\ DoneIsTrue
  /\ host = "sending" => Reading
  /\ host = "waiting" =>
       \/ Reading /\ sent = Len(Dwords(cmd))
       \/ out = <<>> /\ (Executing \/ Acknowledging \/ Answering \/ Silent)
  /\ host \in {"sending", "waiting"} => done.kind = "none"

\* The address of a command is in its third and fourth dwords.
LEMMA AddressIs ==
  ASSUME NEW c \in Commands, c.kind # "ext"
  PROVE  Dwords(c)[3] = RegionId /\ Dwords(c)[4] = c.sector /\ c.sector \in Sectors
<1> DEFINE start == <<"MAGIC", c.kind>>
           address == <<RegionId, c.sector>>
<1>1. /\ c.kind \in {"read", "write"} /\ c.sector \in Sectors
      /\ IF c.kind = "write" THEN c.block \in Blocks ELSE c.block = <<>>
  BY DEF Commands
<1>2. start \in Seq(Words) /\ Len(start) = 2
  BY <1>1 DEF Words
<1>3. /\ address \in Seq(Words) /\ Len(address) = 2
      /\ address[1] = RegionId /\ address[2] = c.sector
  <2>1. RegionId \in Words /\ c.sector \in Words
    BY <1>1 DEF Words
  <2> QED BY <2>1
<1>4. c.block \in Seq(Words) /\ Len(c.block) \in Nat
  <2>1. CASE c.kind = "write"
    BY <1>1, <2>1, BlocksAreContents DEF Contents
  <2>2. CASE c.kind # "write"
    <3>1. c.block = <<>>
      BY <1>1, <2>2
    <3> QED BY <3>1, EmptySeq
  <2> QED BY <2>1, <2>2
<1>5. Dwords(c) = (start \o address) \o c.block
  BY <1>1 DEF Dwords
<1> HIDE DEF start, address
<1>6. /\ start \o address \in Seq(Words) /\ Len(start \o address) = 4
      /\ (start \o address)[3] = RegionId /\ (start \o address)[4] = c.sector
  <2>1. /\ start \o address \in Seq(Words)
        /\ Len(start \o address) = Len(start) + Len(address)
        /\ \A i \in 1..(Len(start) + Len(address)) :
             (start \o address)[i] = IF i <= Len(start) THEN start[i]
                                     ELSE address[i - Len(start)]
    BY <1>2, <1>3, ConcatProperties
  <2>2. 3 \in 1..(Len(start) + Len(address)) /\ 4 \in 1..(Len(start) + Len(address))
          /\ ~(3 <= Len(start)) /\ ~(4 <= Len(start))
          /\ 3 - Len(start) = 1 /\ 4 - Len(start) = 2 /\ Len(start) + Len(address) = 4
    BY <1>2, <1>3
  <2> QED BY <1>3, <2>1, <2>2
<1> DEFINE header == start \o address
<1>7. header \in Seq(Words) /\ Len(header) = 4 /\ header[3] = RegionId /\ header[4] = c.sector
  BY <1>6
<1>8. Dwords(c) = header \o c.block
  BY <1>5
<1> HIDE DEF header
<1>9. \A i \in 1..(Len(header) + Len(c.block)) :
        (header \o c.block)[i] = IF i <= Len(header) THEN header[i] ELSE c.block[i - Len(header)]
  BY <1>4, <1>7, ConcatProperties
<1>10. 3 \in 1..(Len(header) + Len(c.block)) /\ 4 \in 1..(Len(header) + Len(c.block))
         /\ 3 <= Len(header) /\ 4 <= Len(header)
  BY <1>4, <1>7
<1> QED BY <1>1, <1>7, <1>8, <1>9, <1>10

\* The packets of a reply with data follow one another.
LEMMA DataIs ==
  ASSUME NEW b, \A i \in 1..BlockWords : b[i] \in Terms, NEW i \in 1..Packets
  PROVE  /\ DataReply(b)[i] \in Seq(Terms) /\ Len(DataReply(b)[i]) = ChunkWords
         /\ ChunkWords * (i - 1) \in Nat /\ ChunkWords * (i - 1) + ChunkWords <= BlockWords
         /\ ChunkWords * (i - 1) + ChunkWords = ChunkWords * i
         /\ \A j \in 1..ChunkWords : DataReply(b)[i][j] = b[ChunkWords * (i - 1) + j]
<1> DEFINE l == ChunkWords * (i - 1)
           m == (i - 1) * ChunkWords + 1
           n == i * ChunkWords
<1>1. l \in Nat /\ m = l + 1 /\ n = l + ChunkWords /\ n = ChunkWords * i
  BY Sizes
<1>2. n <= BlockWords
  <2>1. ChunkWords * i <= ChunkWords * Packets
    BY Sizes, Monotone
  <2> QED BY <1>1, <2>1, Sizes
<1>3. DataReply(b)[i] = SubSeq(b, m, n)
  BY DEF DataReply, Packets
<1> HIDE DEF l, m, n
<1>4. m \in Int /\ n \in Int /\ n - m + 1 = ChunkWords /\ m <= n /\ 1 <= m
  BY <1>1, Sizes
<1>5. \A j \in m..n : b[j] \in Terms
  BY <1>2, <1>4, Sizes
<1>6. /\ SubSeq(b, m, n) \in Seq(Terms) /\ Len(SubSeq(b, m, n)) = ChunkWords
      /\ \A j \in 1..(n - m + 1) : SubSeq(b, m, n)[j] = b[m + j - 1]
  BY <1>4, <1>5, SubSeqProperties
<1>7. ASSUME NEW j \in 1..ChunkWords PROVE DataReply(b)[i][j] = b[l + j]
  <2>1. m + j - 1 = l + j
    BY <1>1, Sizes
  <2> QED BY <1>3, <1>4, <1>6, <2>1
<1>8. l \in Nat /\ l + ChunkWords <= BlockWords /\ l + ChunkWords = ChunkWords * i
  BY <1>1, <1>2
<1> QED BY <1>3, <1>6, <1>7, <1>8 DEF l

\* What is asked for is a block of terms.
LEMMA AskedIs ==
  ASSUME TypeInv, cmd.kind # "write", NEW b \in Asked
  PROVE  b \in Seq(Terms) /\ Len(b) = BlockWords /\ \A i \in 1..BlockWords : b[i] \in Terms
<1>1. cmd \in Commands /\ store \in [Sectors -> Contents]
  BY DEF TypeInv, HostType, AgentType
<1>2. CASE cmd.kind = "read"
  <2>1. cmd.sector \in Sectors
    BY <1>1, <1>2, AddressIs
  <2>2. store[cmd.sector] \in Contents /\ b = store[cmd.sector]
    BY <1>1, <1>2, <2>1 DEF Asked
  <2>3. b \in Seq(Words) /\ Len(b) = BlockWords
    BY <2>2 DEF Contents
  <2> QED BY <2>3 DEF Terms
<1>3. CASE cmd.kind # "read"
  BY <1>3, ExtRepliesAre DEF Asked
<1> QED BY <1>2, <1>3

\* The dword the agent takes is the next one of the host's command.
LEMMA NextDword ==
  ASSUME TypeInv, Together, NEW a, Recv(a), a \in {"magic", "cmd", "region", "block", "data"}
  PROVE  /\ Reading /\ host \in {"sending", "waiting"} /\ done.kind = "none" /\ agent = a
         /\ UNCHANGED <<host, cmd, sent, got, done, in, store>>
         /\ At \in Nat /\ Head(out) = Dwords(cmd)[At + 1]
         /\ At + 1 + Len(out') = sent
         /\ \A i \in 1..Len(out') : out'[i] = Dwords(cmd)[At + 1 + i]
         /\ host = "waiting" => sent = Len(Dwords(cmd))
         /\ At + 1 = Len(Dwords(cmd)) => host = "waiting" /\ out' = <<>>
<1>1. out \in Seq(Words) /\ out # <<>> /\ out' = Tail(out) /\ agent = a
        /\ UNCHANGED <<host, cmd, sent, got, done, in, store>>
  BY DEF Recv, hostVars, TypeInv, PipeType
<1>2. Reading /\ host \in {"sending", "waiting"} /\ done.kind = "none"
        /\ (host = "waiting" => sent = Len(Dwords(cmd)))
  BY <1>1 DEF Together, Quiet, TypeInv, HostType
<1>3. /\ Head(out) = out[1] /\ Len(Tail(out)) = Len(out) - 1 /\ Len(out) \in Nat \ {0}
      /\ \A i \in 1..Len(Tail(out)) : Tail(out)[i] = out[i + 1] /\ Tail(out) \in Seq(Words)
  BY <1>1, HeadTailProperties, EmptySeq
<1>4. At \in Nat
  <2>1. Len(req.data) \in Nat
    BY DEF TypeInv, AgentType, Requests
  <2> QED BY <2>1 DEF At
<1>5. At + Len(out) = sent /\ \A i \in 1..Len(out) : out[i] = Dwords(cmd)[At + i]
  BY <1>2 DEF Reading
<1>6. Head(out) = Dwords(cmd)[At + 1] /\ At + 1 + Len(out') = sent
  <2>1. 1 \in 1..Len(out)
    BY <1>3
  <2> QED BY <1>1, <1>3, <1>4, <1>5, <2>1
<1>7. ASSUME NEW i \in 1..Len(out') PROVE out'[i] = Dwords(cmd)[At + 1 + i]
  <2>1. i \in 1..Len(Tail(out)) /\ i + 1 \in 1..Len(out) /\ At + (i + 1) = At + 1 + i
    BY <1>1, <1>3, <1>4
  <2> QED BY <1>1, <1>3, <1>5, <2>1
<1>8. ASSUME At + 1 = Len(Dwords(cmd)) PROVE host = "waiting" /\ out' = <<>>
  <2>1. Len(out) \in Nat \ {0} /\ sent = At + Len(out)
    BY <1>3, <1>5
  <2>2. host = "sending" => sent < Len(Dwords(cmd))
    BY DEF TypeInv, HostType
  <2>3. host = "waiting"
    BY <1>2, <1>4, <1>8, <2>1, <2>2
  <2>4. Len(Tail(out)) = 0
    BY <1>2, <1>3, <1>4, <1>8, <2>1, <2>3
  <2>5. Tail(out) \in Seq(Words)
    BY <1>1, HeadTailProperties
  <2> QED BY <1>1, <2>3, <2>4, <2>5, EmptySeq
<1> QED BY <1>1, <1>2, <1>4, <1>6, <1>7, <1>8

\* The agent reads each dword for what the host means by it.
LEMMA TogetherByRead ==
  ASSUME TypeInv, Together, RecvMagic \/ RecvCmd \/ RecvRegion \/ RecvBlock \/ RecvData
  PROVE  Together'
<1>1. PICK a : Recv(a) /\ a \in {"magic", "cmd", "region", "block", "data"}
  BY DEF RecvMagic, RecvCmd, RecvRegion, RecvBlock, RecvData
<1>2. /\ Reading /\ host \in {"sending", "waiting"} /\ done.kind = "none" /\ agent = a
      /\ UNCHANGED <<host, cmd, sent, got, done, in, store>>
      /\ At \in Nat /\ Head(out) = Dwords(cmd)[At + 1]
      /\ At + 1 + Len(out') = sent
      /\ \A i \in 1..Len(out') : out'[i] = Dwords(cmd)[At + 1 + i]
      /\ host = "waiting" => sent = Len(Dwords(cmd))
      /\ At + 1 = Len(Dwords(cmd)) => host = "waiting" /\ out' = <<>>
  BY <1>1, NextDword
<1>3. /\ cmd \in Commands /\ req \in Requests /\ req.data \in Seq(Words)
      /\ Len(req.data) \in Nat /\ agent \in {"cmd", "region", "block"} => req.data = <<>>
      /\ agent = "data" => Len(req.data) < BlockWords
  BY DEF TypeInv, HostType, AgentType, Requests
<1>4. /\ cmd.kind \in {"read", "write", "ext"}
      /\ Dwords(cmd)[1] = "MAGIC" /\ Dwords(cmd)[2] = cmd.kind
      /\ cmd.kind = "ext" => Len(Dwords(cmd)) = 2
      /\ cmd.kind = "read" => Len(Dwords(cmd)) = 4
      /\ cmd.kind = "write" => Len(Dwords(cmd)) = 4 + BlockWords
      /\ Len(Dwords(cmd)) \in 2..(4 + BlockWords)
      /\ cmd.kind = "write" =>
           cmd.block \in Blocks /\ \A j \in 1..BlockWords : Dwords(cmd)[4 + j] = cmd.block[j]
  BY <1>3, DwordsAre
<1>5. cmd.kind # "ext" => Dwords(cmd)[3] = RegionId /\ Dwords(cmd)[4] = cmd.sector
  BY <1>3, AddressIs
<1>6. in = <<>> /\ got = <<>> /\ At < Len(Dwords(cmd))
  BY <1>2 DEF Reading
<1>7. ASSUME agent' \in {"cmd", "region", "block", "data"}, At' = At + 1,
             At + 1 < Len(Dwords(cmd)),
             agent' \in {"region", "block", "data"} => req'.kind = cmd.kind,
             agent' \in {"block", "data"} => req'.region = RegionId,
             agent' = "data" => /\ cmd.kind = "write" /\ req'.sector = cmd.sector
                                /\ \A j \in 1..Len(req'.data) : req'.data[j] = cmd.block[j]
      PROVE  Together'
  <2>1. Reading'
    BY <1>2, <1>6, <1>7 DEF Reading
  <2> QED BY <1>2, <2>1 DEF Together
<1>8. ASSUME agent' = "exec", At + 1 = Len(Dwords(cmd)), req'.kind = cmd.kind,
             cmd.kind # "ext" => req'.region = RegionId /\ req'.sector = cmd.sector,
             cmd.kind = "write" => req'.data = cmd.block
      PROVE  Together'
  <2>1. Executing'
    BY <1>2, <1>6, <1>8 DEF Executing
  <2> QED BY <1>2, <1>8, <2>1 DEF Together
<1>9. CASE RecvMagic
  <2>1. agent = "magic"
    BY <1>9 DEF RecvMagic, Recv
  <2>2. At = 0
    BY <2>1 DEF At
  <2>3. agent' = "cmd"
    BY <1>2, <1>4, <1>9, <2>2 DEF RecvMagic
  <2>4. At' = 1
    BY <2>3 DEF At
  <2> QED BY <1>4, <1>7, <2>2, <2>3, <2>4
<1>10. CASE RecvCmd
  <2>1. agent = "cmd" /\ req' = [req EXCEPT !.kind = Head(out)]
    BY <1>10 DEF RecvCmd, Recv
  <2>2. At = 1
    BY <2>1 DEF At
  <2>3. Head(out) = cmd.kind
    BY <1>2, <1>4, <2>2
  <2>4. req'.kind = cmd.kind
    BY <1>3, <2>1, <2>3 DEF Requests
  <2>5. CASE cmd.kind = "ext"
    <3>1. agent' = "exec"
      BY <1>10, <2>3, <2>5 DEF RecvCmd
    <3> QED BY <1>4, <1>8, <2>2, <2>4, <2>5, <3>1
  <2>6. CASE cmd.kind # "ext"
    <3>1. agent' = "region"
      BY <1>4, <1>10, <2>3, <2>6 DEF RecvCmd
    <3>2. At' = 2
      BY <3>1 DEF At
    <3>3. 2 < Len(Dwords(cmd))
      <4>1. Len(Dwords(cmd)) = 4 \/ Len(Dwords(cmd)) = 4 + BlockWords
        BY <1>4, <2>6
      <4> DEFINE n == Len(Dwords(cmd))
      <4>2. BlockWords \in Nat
        BY Sizes
      <4>3. n = 4 \/ n = 4 + BlockWords
        BY <4>1
      <4> HIDE DEF n
      <4>4. 2 < n
        BY <4>2, <4>3
      <4> QED BY Zenon, <4>4 DEF n
    <3> QED BY <1>7, <2>2, <2>4, <3>1, <3>2, <3>3
  <2> QED BY <2>5, <2>6
<1>11. CASE RecvRegion
  <2>1. agent = "region" /\ req' = [req EXCEPT !.region = Head(out)] /\ agent' = "block"
    BY <1>11 DEF RecvRegion, Recv
  <2>2. At = 2 /\ At' = 3
    BY <2>1 DEF At
  <2>3. cmd.kind # "ext"
    <3> SUFFICES ASSUME cmd.kind = "ext" PROVE FALSE
      OBVIOUS
    <3>1. Len(Dwords(cmd)) = 2
      BY <1>4
    <3> QED BY <1>6, <2>2, <3>1
  <2>4. Head(out) = RegionId
    BY <1>2, <1>5, <2>2, <2>3
  <2>5. req'.kind = req.kind /\ req'.region = RegionId
    BY <1>3, <2>1, <2>4 DEF Requests
  <2>6. 3 < Len(Dwords(cmd))
    <3>1. Len(Dwords(cmd)) \in {4, 4 + BlockWords}
      BY <1>4, <2>3
    <3> QED BY <3>1, Sizes
  <2> QED BY <1>2, <1>7, <2>1, <2>2, <2>5, <2>6 DEF Reading
<1>12. CASE RecvBlock
  <2>1. agent = "block" /\ req' = [req EXCEPT !.sector = Head(out)] /\ req.data = <<>>
    BY <1>3, <1>12 DEF RecvBlock, Recv
  <2>2. At = 3 /\ req.kind = cmd.kind /\ req.region = RegionId
    BY <1>2, <2>1 DEF At, Reading
  <2>3. cmd.kind # "ext"
    <3> SUFFICES ASSUME cmd.kind = "ext" PROVE FALSE
      OBVIOUS
    <3>1. Len(Dwords(cmd)) = 2
      BY <1>4
    <3> QED BY <1>6, <2>2, <3>1
  <2>4. Head(out) = cmd.sector
    BY <1>2, <1>5, <2>2, <2>3
  <2>5. req'.kind = cmd.kind /\ req'.region = RegionId /\ req'.sector = cmd.sector
          /\ req'.data = <<>>
    BY <1>3, <2>1, <2>2, <2>4 DEF Requests
  <2>6. CASE cmd.kind = "read"
    <3>1. agent' = "exec"
      BY <1>12, <2>2, <2>6 DEF RecvBlock
    <3> QED BY <1>4, <1>8, <2>2, <2>5, <2>6, <3>1
  <2>7. CASE cmd.kind # "read"
    <3>1. agent' = "data" /\ cmd.kind = "write"
      BY <1>4, <1>12, <2>2, <2>3, <2>7 DEF RecvBlock
    <3>2. Len(req'.data) = 0
      BY <2>5
    <3>3. At' = 4
      BY <3>1, <3>2 DEF At
    <3>4. 4 < Len(Dwords(cmd))
      BY <1>4, <3>1, Sizes
    <3>5. \A j \in 1..Len(req'.data) : req'.data[j] = cmd.block[j]
      BY <3>2
    <3> QED BY <1>7, <2>2, <2>5, <3>1, <3>3, <3>4, <3>5
  <2> QED BY <2>6, <2>7
<1>13. CASE RecvData
  <2>1. agent = "data" /\ req' = [req EXCEPT !.data = Append(@, Head(out))]
    BY <1>13 DEF RecvData, Recv
  <2>2. /\ At = 4 + Len(req.data) /\ req.kind = cmd.kind /\ req.region = RegionId
        /\ cmd.kind = "write" /\ req.sector = cmd.sector
        /\ \A j \in 1..Len(req.data) : req.data[j] = cmd.block[j]
        /\ Len(req.data) < BlockWords
    BY <1>2, <1>3, <2>1 DEF At, Reading
  <2> DEFINE n == Len(req.data)
  <2>3. Head(out) = cmd.block[n + 1]
    <3>1. At + 1 = 4 + (n + 1) /\ n + 1 \in 1..BlockWords
      BY <1>3, <2>2, Sizes
    <3> QED BY <1>2, <1>4, <2>2, <3>1
  <2>4. out # <<>> /\ Head(out) \in Words
    <3>1. out \in Seq(Words) /\ out # <<>>
      BY <1>1 DEF Recv, TypeInv, PipeType
    <3> QED BY <3>1, HeadTailProperties
  <2>5. req'.kind = cmd.kind /\ req'.region = RegionId /\ req'.sector = cmd.sector
          /\ req'.data = Append(req.data, Head(out))
    BY <1>3, <2>1, <2>2 DEF Requests
  <2>6. /\ req'.data \in Seq(Words) /\ Len(req'.data) = n + 1
        /\ \A j \in 1..n : req'.data[j] = req.data[j] /\ req'.data[n + 1] = Head(out)
    BY <1>3, <2>4, <2>5, AppendProperties
  <2>7. req'.data[n + 1] = Head(out)
    BY <1>3, <2>4, <2>5, AppendProperties
  <2>8. ASSUME NEW j \in 1..Len(req'.data) PROVE req'.data[j] = cmd.block[j]
    <3>1. j = n + 1 \/ j \in 1..n
      BY <1>3, <2>6
    <3> QED BY <2>2, <2>3, <2>6, <2>7, <3>1
  <2>9. CASE n + 1 = BlockWords
    <3>1. agent' = "exec"
      BY <1>13, <2>6, <2>9 DEF RecvData
    <3>2. cmd.block \in Seq(Words) /\ Len(cmd.block) = BlockWords
      BY <1>4, <2>2, BlocksAreContents DEF Contents
    <3>3. req'.data = cmd.block
      <4>1. Len(req'.data) = Len(cmd.block)
        BY <2>6, <2>9, <3>2
      <4> QED BY <2>6, <2>8, <3>2, <4>1, SeqEqual
    <3>4. At + 1 = Len(Dwords(cmd))
      BY <1>3, <1>4, <2>2, <2>9, Sizes
    <3> QED BY <1>8, <2>5, <3>1, <3>3, <3>4
  <2>10. CASE n + 1 # BlockWords
    <3>1. agent' = "data"
      BY <1>13, <2>6, <2>10 DEF RecvData
    <3>2. At' = At + 1
      <4>1. At' = 4 + (n + 1)
        BY <2>6, <3>1 DEF At
      <4> QED BY <1>3, <2>2, <4>1
    <3>3. At + 1 < Len(Dwords(cmd))
      BY <1>3, <1>4, <2>2, <2>10, Sizes
    <3> QED BY <1>7, <2>2, <2>5, <2>8, <3>1, <3>2, <3>3
  <2> QED BY <2>9, <2>10
<1> QED BY <1>9, <1>10, <1>11, <1>12, <1>13

\* The driver executes what the host asked for, and the reply is sent packet by packet.
LEMMA TogetherByWork ==
  ASSUME TypeInv, Together,
         ExecRead \/ ExecWrite \/ ExecExtCsd \/ ExecFails \/ SendPacket
  PROVE  Together'
<1>1. /\ agent \in {"exec", "reply"} /\ UNCHANGED <<host, cmd, sent, got, done, out, req>>
  BY DEF ExecRead, ExecWrite, ExecExtCsd, ExecFails, SendPacket, hostVars
<1>2. /\ host = "waiting" /\ out = <<>> /\ done.kind = "none"
      /\ agent = "exec" => Executing
      /\ agent = "reply" => Acknowledging \/ Answering
  BY <1>1 DEF Together, Quiet, Reading, Executing, Acknowledging, Answering, Silent,
     TypeInv, HostType
<1>3. Len(<<>>) = 0
  OBVIOUS
<1>4. cmd \in Commands /\ cmd.kind \in {"read", "write", "ext"} /\ store \in [Sectors -> Contents]
  BY DwordsAre DEF TypeInv, HostType, AgentType
<1>5. ASSUME Acknowledging' \/ Answering' \/ Silent'
      PROVE  Together'
  BY <1>1, <1>2, <1>5 DEF Together
<1>6. CASE ExecRead \/ ExecExtCsd
  <2>1. /\ Executing /\ agent' = "reply" /\ cmd.kind # "write" /\ UNCHANGED <<in, store>>
        /\ cmd.kind = "read" => req.sector = cmd.sector
    BY <1>2, <1>6 DEF ExecRead, ExecExtCsd, Reply, Executing
  <2>2. PICK b \in Asked : toSend' = DataReply(b)
    <3>1. CASE ExecRead
      <4>1. cmd.kind = "read" /\ toSend' = DataReply(store[req.sector])
        BY <2>1, <3>1 DEF ExecRead, Reply, Executing
      <4> QED BY <2>1, <4>1 DEF Asked
    <3>2. CASE ExecExtCsd
      <4>1. cmd.kind = "ext" /\ \E e \in ExtReplies : toSend' = DataReply(e)
        BY <2>1, <3>2 DEF ExecExtCsd, Reply, Executing
      <4> QED BY <4>1 DEF Asked
    <3> QED BY <1>6, <3>1, <3>2
  <2>3. Asked' = Asked
    BY <1>1, <2>1 DEF Asked
  <2>4. Len(DataReply(b)) = Packets
    BY <2>1, AskedIs, DataIsPackets
  <2>5. in = <<>> /\ got = <<>>
    BY <2>1 DEF Executing
  <2> DEFINE r == DataReply(b)
  <2> HIDE DEF r
  <2>7. /\ 0 + Len(in') + Len(toSend') = Packets
        /\ Len(got') = ChunkWords * 0 /\ \A j \in 1..Len(got') : got'[j] = b[j]
        /\ \A i \in 1..Len(in') : in'[i] = r[0 + i]
        /\ \A i \in 1..Len(toSend') : toSend'[i] = r[0 + Len(in') + i]
    <3>1. Len(in') = 0 /\ Len(got') = 0 /\ toSend' = r /\ Len(r) = Packets
      BY <1>1, <1>3, <2>1, <2>2, <2>4, <2>5 DEF r
    <3> QED BY <3>1, Sizes
  <2>8. \E p \in Nat :
          /\ p + Len(in') + Len(toSend') = Packets
          /\ Len(got') = ChunkWords * p /\ \A j \in 1..Len(got') : got'[j] = b[j]
          /\ \A i \in 1..Len(in') : in'[i] = r[p + i]
          /\ \A i \in 1..Len(toSend') : toSend'[i] = r[p + Len(in') + i]
    <3>1. 0 \in Nat
      OBVIOUS
    <3> QED BY <2>7, <3>1
  <2>6. Delivering(b)'
    BY <2>8 DEF Delivering, r
  <2>9. Answering'
    BY <1>1, <2>1, <2>2, <2>3, <2>6 DEF Answering
  <2> QED BY <1>5, <2>9
<1>7. CASE ExecWrite
  <2>1. /\ Executing /\ agent' = "reply" /\ toSend' = AckReply /\ in' = in
        /\ store' = [store EXCEPT ![req.sector] = req.data] /\ req.kind = "write"
    BY <1>2, <1>7 DEF ExecWrite, Reply
  <2>2. /\ cmd.kind = "write" /\ req.sector = cmd.sector /\ req.data = cmd.block
        /\ in = <<>> /\ got = <<>>
    BY <2>1 DEF Executing
  <2>3. cmd.sector \in Sectors
    BY <1>4, <2>2, AddressIs
  <2>4. store'[cmd.sector] = cmd.block
    BY <1>4, <2>1, <2>2, <2>3
  <2>5. Len(in') + Len(toSend') = 1 /\ \A i \in 1..Len(in') : in'[i] = <<"ACK">>
    BY <1>3, <2>1, <2>2, AckIsPackets
  <2>6. \A i \in 1..Len(toSend') : toSend'[i] = <<"ACK">>
    BY <2>1 DEF AckReply
  <2>7. Acknowledging'
    BY <1>1, <2>1, <2>2, <2>4, <2>5, <2>6 DEF Acknowledging
  <2> QED BY <1>5, <2>7
<1>8. CASE ExecFails
  <2>1. Executing /\ agent' = "magic" /\ in' = in
    BY <1>2, <1>8 DEF ExecFails
  <2>2. Silent'
    BY <1>1, <2>1 DEF Executing, Silent
  <2> QED BY <1>5, <2>2
<1>9. CASE SendPacket
  <2>1. /\ agent = "reply" /\ in' = Append(in, Head(toSend)) /\ toSend' = Tail(toSend)
        /\ agent' \in {"magic", "reply"} /\ store' = store
    BY <1>9 DEF SendPacket
  <2>2. in \in Seq(Packet) /\ toSend \in Seq(Packet) /\ toSend # <<>>
    BY <2>1 DEF TypeInv, PipeType, AgentType
  <2> DEFINE m == Len(in)
             n == Len(toSend)
  <2>3. m \in Nat /\ n \in Nat \ {0} /\ Head(toSend) = toSend[1] /\ Head(toSend) \in Packet
    BY <2>2, HeadTailProperties, EmptySeq
  <2>4. Len(in') = m + 1 /\ in'[m + 1] = toSend[1] /\ \A i \in 1..m : in'[i] = in[i]
    BY <2>1, <2>2, <2>3, AppendProperties
  <2>5. Len(toSend') = n - 1 /\ \A i \in 1..(n - 1) : toSend'[i] = toSend[i + 1]
    BY <2>1, <2>2, HeadTailProperties
  <2> HIDE DEF m, n
  <2>6. \A i \in 1..(m + 1) : i \in 1..m \/ i = m + 1
    BY <2>3
  <2>7. 1 \in 1..n /\ \A i \in 1..(n - 1) : i + 1 \in 1..n
    BY <2>3
  <2>8. CASE Acknowledging
    <3>1. m + n = 1 /\ (\A i \in 1..m : in[i] = <<"ACK">>) /\ \A i \in 1..n : toSend[i] = <<"ACK">>
      BY <2>8 DEF Acknowledging, m, n
    <3>2. Len(in') + Len(toSend') = 1
      BY <2>3, <2>4, <2>5, <3>1
    <3>3. \A i \in 1..Len(in') : in'[i] = <<"ACK">>
      BY <2>4, <2>6, <2>7, <3>1
    <3>4. \A i \in 1..Len(toSend') : toSend'[i] = <<"ACK">>
      BY <2>5, <2>7, <3>1
    <3>5. Acknowledging'
      BY <1>1, <2>1, <2>8, <3>2, <3>3, <3>4 DEF Acknowledging
    <3> QED BY <1>5, <3>5
  <2>9. CASE Answering
    <3>0. PICK b \in Asked : Delivering(b)
      BY <2>9 DEF Answering
    <3> DEFINE r == DataReply(b)
    <3>1. PICK p \in Nat :
            /\ p + m + n = Packets
            /\ Len(got) = ChunkWords * p /\ \A j \in 1..Len(got) : got[j] = b[j]
            /\ \A i \in 1..m : in[i] = r[p + i]
            /\ \A i \in 1..n : toSend[i] = r[p + m + i]
      BY <3>0 DEF Delivering, m, n
    <3>2. Asked' = Asked
      BY <1>1, <2>1 DEF Asked
    <3> HIDE DEF r
    <3>3. p + Len(in') + Len(toSend') = Packets
      BY <2>3, <2>4, <2>5, <3>1, Sizes
    <3>4. \A i \in 1..Len(in') : in'[i] = r[p + i]
      <4>1. in'[m + 1] = r[p + m + 1]
        BY <2>4, <2>7, <3>1
      <4>2. p + m + 1 = p + (m + 1)
        BY <2>3
      <4> QED BY <2>4, <2>6, <3>1, <4>1, <4>2
    <3>5. \A i \in 1..Len(toSend') : toSend'[i] = r[p + Len(in') + i]
      <4> SUFFICES ASSUME NEW i \in 1..(n - 1) PROVE toSend'[i] = r[p + Len(in') + i]
        BY <2>5
      <4>1. p + Len(in') + i = p + m + (i + 1)
        BY <2>3, <2>4
      <4>2. toSend[i + 1] = r[p + m + (i + 1)]
        BY <2>7, <3>1
      <4> QED BY <2>5, <4>1, <4>2
    <3>6. Delivering(b)'
      BY <1>1, <3>1, <3>3, <3>4, <3>5 DEF Delivering, r
    <3>7. Answering'
      BY <1>1, <2>1, <2>9, <3>2, <3>6 DEF Answering
    <3> QED BY <1>5, <3>7
  <2> QED BY <1>2, <2>1, <2>8, <2>9
<1> QED BY <1>6, <1>7, <1>8, <1>9

\* The host starts and ends, begins a command and sends a dword of it.
LEMMA TogetherBySending ==
  ASSUME TypeInv, Together,
         Connect \/ Disconnect \/ (\E c \in Commands : Begin(c)) \/ Send \/ SendTimeout
  PROVE  Together'
<1>1. CASE Connect \/ Disconnect
  BY <1>1 DEF Connect, Disconnect, agentVars, Together, Quiet, DoneIsTrue
<1>2. CASE \E c \in Commands : Begin(c)
  <2> PICK c \in Commands : Begin(c)
    BY <1>2
  <2>1. /\ Quiet /\ host' = "sending" /\ cmd' = c /\ sent' = 0 /\ got' = <<>>
        /\ done'.kind = "none" /\ UNCHANGED <<out, in, agent, req>>
    BY DEF Begin, Together, agentVars
  <2>2. agent' = "magic" /\ in' = <<>> /\ Len(out') = 0
    BY <2>1 DEF Quiet
  <2>3. At' = 0
    BY <2>2 DEF At
  <2>4. 0 < Len(Dwords(c))
    BY DwordsAre, Sizes
  <2>5. Reading'
    BY <2>1, <2>2, <2>3, <2>4 DEF Reading
  <2> QED BY <2>1, <2>5 DEF Together
<1>3. CASE Send
  <2>1. /\ host = "sending" /\ Reading /\ done.kind = "none"
        /\ out' = Append(out, Dwords(cmd)[sent + 1]) /\ sent' = sent + 1
        /\ UNCHANGED <<cmd, got, done, in, agent, req>>
        /\ host' \in {"sending", "waiting"}
        /\ host' = "waiting" => sent' = Len(Dwords(cmd))
    BY <1>3 DEF Send, Together, agentVars
  <2>2. cmd \in Commands /\ sent \in Nat /\ sent < Len(Dwords(cmd)) /\ out \in Seq(Words)
    BY <2>1 DEF TypeInv, HostType, PipeType
  <2>3. Dwords(cmd)[sent + 1] \in Words
    <3>1. Dwords(cmd) \in Seq(Words) /\ Len(Dwords(cmd)) \in Nat
      BY <2>2, DwordsAre, Sizes
    <3>2. sent + 1 \in 1..Len(Dwords(cmd))
      BY <2>2, <3>1
    <3> QED BY <3>1, <3>2, ElementOfSeq
  <2>4. /\ Len(out') = Len(out) + 1 /\ out'[Len(out) + 1] = Dwords(cmd)[sent + 1]
        /\ Len(out) \in Nat /\ \A i \in 1..Len(out) : out'[i] = out[i]
    BY <2>1, <2>2, <2>3, AppendProperties
  <2>5. At \in Nat /\ At' = At
    <3>1. Len(req.data) \in Nat
      BY DEF TypeInv, AgentType, Requests
    <3> QED BY <2>1, <3>1 DEF At
  <2>6. At + Len(out) = sent /\ \A i \in 1..Len(out) : out[i] = Dwords(cmd)[At + i]
    BY <2>1 DEF Reading
  <2>7. At' + Len(out') = sent'
    BY <2>1, <2>4, <2>5, <2>6
  <2>8. ASSUME NEW i \in 1..Len(out') PROVE out'[i] = Dwords(cmd)[At + i]
    <3>1. i \in 1..Len(out) \/ (i = Len(out) + 1 /\ At + i = sent + 1)
      BY <2>4, <2>5, <2>6
    <3> QED BY <2>4, <2>6, <3>1
  <2>9. Reading'
    BY <2>1, <2>5, <2>7, <2>8 DEF Reading
  <2> QED BY <2>1, <2>9 DEF Together
<1>4. CASE SendTimeout
  BY <1>4 DEF SendTimeout, Together, Reading
<1> QED BY <1>1, <1>2, <1>3, <1>4

\* A packet of the acknowledgement, and of an answer, is what the host waits for.
LEMMA TogetherByReceiving ==
  ASSUME TypeInv, Together, Receive \/ ReceiveOverflow
  PROVE  Together'
<1>1. host = "waiting" /\ in # <<>> /\ in' = Tail(in)
        /\ UNCHANGED <<cmd, sent, out, agent, req, toSend, store>>
  BY DEF Receive, ReceiveOverflow, agentVars, EndSession
<1>2. /\ out = <<>> /\ (Acknowledging \/ Answering) /\ done.kind = "none"
  BY <1>1 DEF Together, Reading, Executing, Silent
<1>3. in \in Seq(Packet) /\ cmd \in Commands /\ got \in Seq(Terms)
  BY DEF TypeInv, PipeType, HostType
<1> DEFINE m == Len(in)
           n == Len(toSend)
<1>4. /\ m \in Nat \ {0} /\ Head(in) = in[1] /\ Head(in) \in Packet
      /\ Len(in') = m - 1 /\ in' \in Seq(Packet)
      /\ \A i \in 1..(m - 1) : in'[i] = in[i + 1]
  BY <1>1, <1>3, HeadTailProperties, EmptySeq
<1>5. n \in Nat /\ toSend \in Seq(Packet) /\ (toSend = <<>> <=> agent # "reply")
  BY DEF TypeInv, AgentType
<1>6. agent \in {"reply", "magic"}
  BY <1>2 DEF Acknowledging, Answering
<1> HIDE DEF m, n
<1>7. 1 \in 1..m /\ \A i \in 1..(m - 1) : i + 1 \in 1..m
  BY <1>4
<1>8. Head(in) \in Seq(Terms) /\ Len(Head(in)) \in Nat /\ Len(got) \in Nat
  BY <1>3, <1>4 DEF Packet
<1>9. /\ got \o Head(in) \in Seq(Terms) /\ Len(got \o Head(in)) = Len(got) + Len(Head(in))
      /\ \A j \in 1..(Len(got) + Len(Head(in))) :
           (got \o Head(in))[j] = IF j <= Len(got) THEN got[j] ELSE Head(in)[j - Len(got)]
  BY <1>3, <1>8, ConcatProperties
<1>10. ASSUME in' = <<>>, toSend = <<>> PROVE Quiet'
  BY <1>1, <1>2, <1>5, <1>6, <1>10 DEF Quiet
<1>11. CASE Acknowledging
  <2>1. /\ cmd.kind = "write" /\ store[cmd.sector] = cmd.block /\ m + n = 1
        /\ Len(got) = 0 /\ in[1] = <<"ACK">>
    BY <1>7, <1>11 DEF Acknowledging, m, n
  <2>2. Len(Head(in)) = 1 /\ ReplySize(cmd) = 1
    <3>1. Head(in) = <<"ACK">> /\ Len(<<"ACK">>) = 1
      BY <1>4, <2>1
    <3> QED BY <2>1, <3>1 DEF ReplySize
  <2>3. ~ReceiveOverflow
    <3>1. Len(got) + Len(Head(in)) = 1 /\ ~(1 > 1)
      BY <2>1, <2>2
    <3> QED BY <2>2, <3>1 DEF ReceiveOverflow
  <2>4. Receive /\ Len(got \o Head(in)) = 1
    BY <1>9, <2>1, <2>2, <2>3
  <2>5. host' = "idle" /\ done' = [kind |-> cmd.kind, sector |-> cmd.sector, data |-> got']
    BY <2>2, <2>4 DEF Receive
  <2>6. in' = <<>> /\ toSend = <<>>
    <3>1. m = 1 /\ n = 0
      BY <1>4, <1>5, <2>1
    <3>2. Len(in') = 0 /\ Len(toSend) = 0
      BY <1>4, <3>1 DEF n
    <3> QED BY <1>4, <1>5, <3>2, EmptySeq
  <2>7. DoneIsTrue'
    BY <1>1, <2>1, <2>5 DEF DoneIsTrue
  <2> QED BY <1>10, <2>5, <2>6, <2>7 DEF Together
<1>12. CASE Answering
  <2>0. PICK b \in Asked : Delivering(b)
    BY <1>12 DEF Answering
  <2> DEFINE r == DataReply(b)
  <2>1. PICK p \in Nat :
          /\ p + m + n = Packets
          /\ Len(got) = ChunkWords * p /\ \A j \in 1..Len(got) : got[j] = b[j]
          /\ \A i \in 1..m : in[i] = r[p + i]
          /\ \A i \in 1..n : toSend[i] = r[p + m + i]
    BY <2>0 DEF Delivering, m, n
  <2>2. cmd.kind # "write" /\ Asked' = Asked
    BY <1>1, <1>12 DEF Answering, Asked
  <2>3. b \in Seq(Terms) /\ Len(b) = BlockWords /\ \A i \in 1..BlockWords : b[i] \in Terms
    BY <2>2, AskedIs
  <2>4. p + 1 \in 1..Packets /\ (p + 1) - 1 = p
    BY <1>4, <1>5, <2>1, Sizes
  <2>5. /\ Len(r[p + 1]) = ChunkWords
        /\ ChunkWords * p \in Nat /\ ChunkWords * p + ChunkWords <= BlockWords
        /\ ChunkWords * p + ChunkWords = ChunkWords * (p + 1)
        /\ \A j \in 1..ChunkWords : r[p + 1][j] = b[ChunkWords * p + j]
    <3>1. PICK i \in 1..Packets : i = p + 1 /\ i - 1 = p
      BY <2>4
    <3>2. /\ Len(r[i]) = ChunkWords
          /\ ChunkWords * (i - 1) \in Nat /\ ChunkWords * (i - 1) + ChunkWords <= BlockWords
          /\ ChunkWords * (i - 1) + ChunkWords = ChunkWords * i
          /\ \A j \in 1..ChunkWords : r[i][j] = b[ChunkWords * (i - 1) + j]
      BY <2>3, DataIs
    <3> QED BY <3>1, <3>2
  <2> HIDE DEF r
  <2>6. Head(in) = r[p + 1]
    BY <1>4, <1>7, <2>1
  <2>7. ReplySize(cmd) = BlockWords
    BY <2>2 DEF ReplySize
  <2>8. ~ReceiveOverflow
    <3>1. Len(got) + Len(Head(in)) <= BlockWords
      BY <2>1, <2>5, <2>6
    <3> QED BY <1>8, <2>7, <3>1, Sizes DEF ReceiveOverflow
  <2>9. Receive /\ got' = got \o Head(in)
    BY <2>8 DEF Receive
  <2>10. got' \in Seq(Terms) /\ Len(got') = ChunkWords * (p + 1)
    BY <1>9, <2>1, <2>5, <2>6, <2>9
  <2>11. ASSUME NEW j \in 1..Len(got') PROVE got'[j] = b[j]
    <3>1. j \in 1..(Len(got) + Len(Head(in))) /\ j \in Nat
      BY <1>8, <1>9, <2>9
    <3>2. CASE j <= Len(got)
      <4>1. j \in 1..Len(got)
        BY <1>8, <3>1, <3>2
      <4> QED BY <1>9, <2>1, <2>9, <3>1, <3>2, <4>1
    <3>3. CASE ~(j <= Len(got))
      <4> DEFINE i == j - Len(got)
                 l == ChunkWords * p
      <4>1. Len(got) = l /\ Len(Head(in)) = ChunkWords /\ l \in Nat
        BY <2>1, <2>5, <2>6
      <4> HIDE DEF l
      <4>2. i \in 1..ChunkWords /\ l + i = j
        BY <3>1, <3>3, <4>1, Sizes
      <4>3. r[p + 1][i] = b[l + i]
        BY <2>5, <4>2 DEF l
      <4>4. got'[j] = Head(in)[i]
        BY <1>9, <2>9, <3>1, <3>3
      <4> QED BY <2>6, <4>2, <4>3, <4>4
    <3> QED BY <3>2, <3>3
  <2>12. CASE Len(got') < BlockWords
    <3>1. host' = "waiting" /\ done' = done
      BY <1>1, <2>7, <2>9, <2>12 DEF Receive
    <3>2. (p + 1) + Len(in') + n = Packets
      BY <1>4, <1>5, <2>1, Sizes
    <3>3. \A i \in 1..Len(in') : in'[i] = r[(p + 1) + i]
      <4> SUFFICES ASSUME NEW i \in 1..(m - 1) PROVE in'[i] = r[(p + 1) + i]
        BY <1>4
      <4>1. p + (i + 1) = (p + 1) + i
        BY <1>4
      <4>2. in[i + 1] = r[p + (i + 1)]
        BY <1>7, <2>1
      <4> QED BY <1>4, <4>1, <4>2
    <3>4. \A i \in 1..n : toSend[i] = r[(p + 1) + Len(in') + i]
      <4> SUFFICES ASSUME NEW i \in 1..n PROVE toSend[i] = r[(p + 1) + Len(in') + i]
        OBVIOUS
      <4>1. (p + 1) + Len(in') + i = p + m + i
        BY <1>4, <1>5
      <4> QED BY <2>1, <4>1
    <3>5. p + 1 \in Nat
      OBVIOUS
    <3>6. Answering'
      <4>1. agent' \in {"reply", "magic"} /\ cmd'.kind # "write"
        BY <1>1, <1>6, <2>2
      <4>2. \E q \in Nat :
              /\ q + Len(in') + Len(toSend') = Packets
              /\ Len(got') = ChunkWords * q /\ \A j \in 1..Len(got') : got'[j] = b[j]
              /\ \A i \in 1..Len(in') : in'[i] = r[q + i]
              /\ \A i \in 1..Len(toSend') : toSend'[i] = r[q + Len(in') + i]
        <5>1. toSend' = toSend /\ Len(toSend') = n
          BY <1>1 DEF n
        <5> QED BY <2>10, <2>11, <3>2, <3>3, <3>4, <3>5, <5>1
      <4>3. Delivering(b)'
        BY <4>2 DEF Delivering, r
      <4> QED BY <2>2, <4>1, <4>3 DEF Answering
    <3> QED BY <1>1, <1>2, <3>1, <3>6 DEF Together
  <2>13. CASE ~(Len(got') < BlockWords)
    <3>1. Len(got') = BlockWords
      BY <1>9, <2>5, <2>10, <2>13, Sizes
    <3>2. host' = "idle" /\ done' = [kind |-> cmd.kind, sector |-> cmd.sector, data |-> got']
      BY <2>7, <2>9, <2>13 DEF Receive
    <3>3. got' = b
      BY <2>3, <2>10, <2>11, <3>1, SeqEqual
    <3>4. p + 1 = Packets
      <4>1. ChunkWords * (p + 1) = BlockWords
        BY <2>10, <3>1
      <4>2. ~(p + 2 <= Packets)
        <5> SUFFICES ASSUME p + 2 <= Packets PROVE FALSE
          OBVIOUS
        <5>1. ChunkWords * (p + 2) <= ChunkWords * Packets
          BY Sizes, Monotone
        <5>2. ChunkWords * (p + 2) = ChunkWords * (p + 1) + ChunkWords
          BY Sizes
        <5> QED BY <4>1, <5>1, <5>2, Sizes
      <4> QED BY <2>4, <4>2, Sizes
    <3>5. in' = <<>> /\ toSend = <<>>
      <4>1. Len(in') = 0 /\ Len(toSend) = 0
        BY <1>4, <1>5, <2>1, <3>4, Sizes DEF n
      <4> QED BY <1>4, <1>5, <4>1, EmptySeq
    <3>6. DoneIsTrue'
      <4>1. cmd.kind = "read" => b = store[cmd.sector]
        BY DEF Asked
      <4>2. cmd.kind = "ext" => b \in ExtReplies
        BY DEF Asked
      <4> QED BY <1>1, <2>2, <3>2, <3>3, <4>1, <4>2 DEF DoneIsTrue
    <3> QED BY <1>10, <3>2, <3>5, <3>6 DEF Together
  <2> QED BY <2>12, <2>13
<1> QED BY <1>2, <1>11, <1>12

\* A wait ends without a reply when nothing is left of the command.
LEMMA TogetherByTimeout ==
  ASSUME TypeInv, Together, ReceiveTimeout, UNCHANGED upsets
  PROVE  Together'
<1>1. /\ host = "waiting" /\ in = <<>> /\ host' = "off"
      /\ UNCHANGED <<cmd, done, out, in, agent, store>>
  BY DEF ReceiveTimeout, EndSession, agentVars
<1>2. NoReplyToCome
  <2>1. ASSUME Upset("late") PROVE FALSE
    <3>1. upsets \in Seq(Upsets)
      BY DEF TypeInv, UpsetType
    <3>2. Len(upsets') = Len(upsets) + 1 /\ Len(upsets) \in Nat
      BY <2>1, <3>1, AppendProperties DEF Upset
    <3> QED BY <3>2
  <2> QED BY <2>1 DEF ReceiveTimeout
<1>3. done.kind = "none"
  BY <1>1 DEF Together
<1>4. ~(Reading /\ sent = Len(Dwords(cmd)))
  <2> SUFFICES ASSUME Reading, sent = Len(Dwords(cmd)) PROVE FALSE
    OBVIOUS
  <2>1. out = <<>>
    BY <1>2 DEF NoReplyToCome, Reading
  <2>2. At \in Nat
    <3>1. Len(req.data) \in Nat
      BY DEF TypeInv, AgentType, Requests
    <3> QED BY <3>1 DEF At
  <2>3. At + 0 = sent /\ At < sent
    BY <2>1 DEF Reading
  <2> QED BY <2>2, <2>3
<1>5. agent = "magic" /\ out = <<>>
  BY <1>1, <1>2, <1>4 DEF Together, NoReplyToCome, Executing, Acknowledging, Answering, Silent
<1> QED BY <1>1, <1>3, <1>5 DEF Together, Quiet, DoneIsTrue

SyncInv == TypeInv /\ (Undisturbed => Together)

LEMMA SyncInvariant == Spec => []SyncInv
<1>1. Init => SyncInv
  <2> SUFFICES ASSUME Init PROVE Together
    BY InitType DEF SyncInv
  <2> QED BY DEF Init, Together, Quiet, DoneIsTrue
<1>2. ASSUME SyncInv, Next, Undisturbed' PROVE Undisturbed /\ UNCHANGED upsets
  <2>1. UNCHANGED upsets \/ Upset("abort") \/ Upset("interrupt") \/ Upset("late")
    BY <1>2 DEF Next, HostWrites, HostReads, AgentStep, Connect, Disconnect, Begin, Send,
       SendTimeout, Abort, Interrupt, Receive, ReceiveOverflow, ReceiveTimeout, Recv, RecvMagic,
       RecvCmd, RecvRegion, RecvBlock, RecvData, ExecRead, ExecWrite, ExecExtCsd, ExecFails,
       SendPacket
  <2>2. ASSUME NEW kind, Upset(kind) PROVE FALSE
    <3>1. upsets \in Seq(Upsets)
      BY <1>2 DEF SyncInv, TypeInv, UpsetType
    <3>2. Len(upsets') = Len(upsets) + 1 /\ Len(upsets) \in Nat
      BY <2>2, <3>1, AppendProperties DEF Upset
    <3>3. Len(upsets') = 0
      BY <1>2 DEF Undisturbed
    <3> QED BY <3>2, <3>3
  <2> QED BY <1>2, <2>1, <2>2 DEF Undisturbed
<1>3. SyncInv /\ [Next]_vars => SyncInv'
  <2> SUFFICES ASSUME SyncInv, [Next]_vars PROVE SyncInv'
    OBVIOUS
  <2>1. CASE Next
    <3>1. TypeInv'
      BY <2>1, HostTypeStep, PipeTypeStep, AgentTypeStep, UpsetTypeStep DEF SyncInv, TypeInv
    <3>2. ASSUME Undisturbed' PROVE Together'
      <4>1. TypeInv /\ Together /\ UNCHANGED upsets
        BY <1>2, <2>1, <3>2 DEF SyncInv
      <4>2. ~Abort /\ ~Interrupt
        <5>1. ASSUME NEW kind, Upset(kind) PROVE FALSE
          <6>1. upsets \in Seq(Upsets)
            BY <4>1 DEF TypeInv, UpsetType
          <6>2. Len(upsets') = Len(upsets) + 1 /\ Len(upsets) \in Nat
            BY <5>1, <6>1, AppendProperties DEF Upset
          <6> QED BY <4>1, <6>2
        <5> QED BY <5>1 DEF Abort, Interrupt
      <4> QED BY <2>1, <4>1, <4>2, TogetherByRead, TogetherByWork, TogetherBySending,
              TogetherByReceiving, TogetherByTimeout DEF Next, HostWrites, HostReads, AgentStep
    <3> QED BY <3>1, <3>2 DEF SyncInv
  <2>2. CASE UNCHANGED vars
    <3> USE <2>2 DEF vars, hostVars, agentVars, SyncInv
    <3>1. TypeInv'
      BY DEF TypeInv, HostType, PipeType, AgentType, UpsetType, ReplySize
    <3>2. Together' <=> Together
      BY DEF Together, Quiet, DoneIsTrue, Reading, At, Executing, Acknowledging, Answering,
         Asked, Delivering, Silent
    <3> QED BY <3>1, <3>2 DEF Undisturbed
  <2> QED BY <2>1, <2>2
<1> QED BY <1>1, <1>3, PTL DEF Spec

\* Undisturbed, host and agent agree where a command begins, whatever the pipes hold.
THEOREM StaysInSync == Spec => []InSync
<1>1. SyncInv => InSync
  BY DEF SyncInv, InSync, Together, Quiet
<1> QED BY <1>1, SyncInvariant, PTL

\* Undisturbed, the host's results are true: what read_sector and get_ext_csd return is
\* what is on the card, and what write_sector has written is there.  The driver's failures,
\* after which no reply comes, do not count as a disturbance.
THEOREM UndisturbedHostIsRight == Spec => []UndisturbedResultsAreTrue
<1>1. SyncInv => UndisturbedResultsAreTrue
  BY DEF SyncInv, UndisturbedResultsAreTrue, Together, DoneIsTrue, ReturnsWhatWasAsked,
     WriteIsStored
<1> QED BY <1>1, SyncInvariant, PTL
=============================================================================
