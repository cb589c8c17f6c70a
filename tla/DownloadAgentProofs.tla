------------------------- MODULE DownloadAgentProofs -------------------------
(***************************************************************************)
(* The command loop over the driver and the card behaves as UsbSession:    *)
(* its host cannot tell the driver from a store that executes a command at *)
(* once or fails.  What is proved of the pipes in UsbSessionProofs and of  *)
(* the driver in EmmcDriverProofs then holds of the whole, for any         *)
(* capacities, contents and sectors and every set of faults but the        *)
(* partition and the late ones.                                            *)
(***************************************************************************)
EXTENDS DownloadAgent, EmmcDriverProofs

UP == INSTANCE UsbSessionProofs WITH store <- Shown, ExtReplies <- Data

-----------------------------------------------------------------------------
(* The two instances                                                       *)

\* What the components assume of the constants.
LEMMA UsbConstants ==
  ASSUME Fits
  PROVE  /\ ChunkWords \in Nat \ {0, 1} /\ BlockWords \in {ChunkWords * n : n \in 1..BlockWords}
         /\ OutCap \in Nat \ {0} /\ InCap \in Nat \ {0}
         /\ Blocks \subseteq [1..BlockWords -> UNION {{b[i] : i \in 1..BlockWords} : b \in Blocks}]
         /\ Data \subseteq [1..BlockWords -> UNION {{d[i] : i \in 1..BlockWords} : d \in Data}]
         /\ Upsets \subseteq {"abort", "interrupt", "late"} /\ MaxUpsets \in Nat
BY DEF Fits

\* A step keeps the types of the pipes.
LEMMA UsbTypes ==
  ASSUME Fits, UP!TypeInv, [UP!Next]_(UP!vars)
  PROVE  UP!TypeInv'
<1>1. CASE UP!Next
  <2>1. UP!HostType'
    BY <1>1, UsbConstants, UP!HostTypeStep
  <2>2. UP!PipeType'
    BY <1>1, UsbConstants, UP!PipeTypeStep
  <2>3. UP!AgentType'
    BY <1>1, UsbConstants, UP!AgentTypeStep
  <2>4. UP!UpsetType'
    BY <1>1, UsbConstants, UP!UpsetTypeStep
  <2> QED BY <2>1, <2>2, <2>3, <2>4 DEF UP!TypeInv
<1>2. CASE UNCHANGED UP!vars
  BY <1>2 DEF UP!vars, UP!hostVars, UP!agentVars, UP!TypeInv, UP!HostType, UP!PipeType,
     UP!AgentType, UP!UpsetType, UP!ReplySize
<1> QED BY <1>1, <1>2

\* UsbSession's definitions are the same in the model and in its proofs.
LEMMA SameCommands ==
  /\ U!Commands = UP!Commands /\ \A c : U!Dwords(c) = UP!Dwords(c)
  /\ \A c : U!ReplySize(c) = UP!ReplySize(c)
  /\ \A kind : U!Upset(kind) <=> UP!Upset(kind)
  /\ \A a : U!Recv(a) <=> UP!Recv(a)
  /\ U!EndSession <=> UP!EndSession
BY DEF U!Commands, UP!Commands, U!Dwords, UP!Dwords, U!ReplySize, UP!ReplySize, U!Upset, UP!Upset,
   U!Recv, UP!Recv, U!EndSession, UP!EndSession, U!hostVars, UP!hostVars

LEMMA SameHost ==
  ASSUME HostStep
  PROVE  UP!Next
<1> USE SameCommands
    DEF U!agentVars, UP!agentVars, U!hostVars, UP!hostVars, UP!Next, UP!HostWrites, UP!HostReads
<1>1. CASE U!Connect \/ U!Disconnect
  BY <1>1 DEF U!Connect, UP!Connect, U!Disconnect, UP!Disconnect
<1>2. CASE \E c \in U!Commands : U!Begin(c)
  BY <1>2 DEF U!Begin, UP!Begin
<1>3. CASE U!HostWrites
  BY <1>3 DEF U!HostWrites, U!Send, UP!Send, U!SendTimeout, UP!SendTimeout
<1>4. CASE U!HostReads
  <2>1. CASE U!Receive
    BY <2>1 DEF U!Receive, UP!Receive
  <2>2. CASE U!ReceiveOverflow
    BY <2>2 DEF U!ReceiveOverflow, UP!ReceiveOverflow
  <2>3. CASE U!ReceiveTimeout
    BY <2>3 DEF U!ReceiveTimeout, UP!ReceiveTimeout, U!NoReplyToCome, UP!NoReplyToCome
  <2> QED BY <1>4, <2>1, <2>2, <2>3 DEF U!HostReads
<1>5. CASE U!Abort \/ U!Interrupt
  BY <1>5 DEF U!Abort, UP!Abort, U!Interrupt, UP!Interrupt
<1> QED BY <1>1, <1>2, <1>3, <1>4, <1>5 DEF HostStep

LEMMA SameLoop ==
  ASSUME LoopStep
  PROVE  UP!Next
<1> USE SameCommands DEF UP!Next, UP!AgentStep
<1>1. CASE U!RecvMagic \/ U!RecvCmd \/ U!RecvRegion
  BY <1>1 DEF U!RecvMagic, UP!RecvMagic, U!RecvCmd, UP!RecvCmd, U!RecvRegion, UP!RecvRegion,
     U!Idle, UP!Idle
<1>2. CASE U!RecvBlock \/ U!RecvData
  BY <1>2 DEF U!RecvBlock, UP!RecvBlock, U!RecvData, UP!RecvData
<1>3. CASE U!SendPacket
  BY <1>3 DEF U!SendPacket, UP!SendPacket, U!hostVars, UP!hostVars
<1> QED BY <1>1, <1>2, <1>3 DEF LoopStep

-----------------------------------------------------------------------------
(* A call of the driver                                                    *)

\* A step of the driver is one of a command that does not change.
LEMMA InsideCommand ==
  ASSUME DriverStep
  PROVE  pc # "loop" /\ op' = op
<1>1. CASE Cmd0
  BY <1>1 DEF Cmd0, Goto, Continue
<1>2. CASE Cmd1 \/ Cmd2 \/ Cmd3 \/ Cmd7
  BY <1>2, AfterInitFrame DEF Cmd1, Cmd2, Cmd3, Cmd7, InitCommand, InitReturns, Goto, Continue
<1>3. CASE InitReady
  BY <1>3, AfterInitFrame DEF InitReady, InitReturns
<1>4. CASE SwitchCached \/ SwitchBadRegion \/ SwitchPartition \/ SwitchReady
  BY <1>4, FailFrame
  DEF SwitchCached, SwitchBadRegion, SwitchPartition, SwitchReady, Goto, Continue
<1>5. CASE Ready
  BY <1>5, FailFrame DEF Ready, Goto, Continue
<1>6. CASE Cmd17 \/ Cmd8 \/ Rx
  BY <1>6, FailFrame DEF Cmd17, Cmd8, ReadCommand, Rx, Goto, Continue, Return
<1>7. CASE RxReady
  BY <1>7, FailFrame DEF RxReady, Continue, Return
<1>8. CASE Cmd24 \/ Tx \/ TxReady
  BY <1>8, FailFrame DEF Cmd24, Tx, TxReady, Goto, Continue, Return
<1> QED BY <1>1, <1>2, <1>3, <1>4, <1>5, <1>6, <1>7, <1>8 DEF DriverStep

\* The card begins to program when it has taken a block, and at no other step.
LEMMA BlockIsProgrammed ==
  ASSUME DriverStep, pc # "tx"
  PROVE  programming' \in {programming, {}}
<1>1. CASE Cmd0
  BY <1>1 DEF Cmd0, Interrupted, Ignored, card
<1>2. CASE Cmd1 \/ Cmd2 \/ Cmd3 \/ Cmd7 \/ InitReady
  BY <1>2 DEF Cmd1, Cmd2, Cmd3, Cmd7, InitCommand, InitReady, BecomesCard, Ignored, WaitOk,
     WaitFails, card
<1>3. CASE SwitchCached \/ SwitchBadRegion \/ SwitchPartition \/ SwitchReady \/ Ready
  BY <1>3 DEF SwitchCached, SwitchBadRegion, SwitchPartition, SwitchReady, Ready, WaitOk,
     WaitFails, card
<1>4. CASE Cmd17 \/ Cmd8 \/ Rx \/ RxReady \/ Cmd24
  BY <1>4 DEF Cmd17, Cmd8, ReadCommand, Rx, RxReady, Cmd24, BecomesCard, Ignored, WaitOk,
     WaitFails, card
<1>5. CASE Tx \/ TxReady
  BY <1>5 DEF Tx, TxReady, WaitOk, WaitFails, card
<1> QED BY <1>1, <1>2, <1>3, <1>4, <1>5 DEF DriverStep

\* Within a call the driver changes the card by the write it was asked for, or not at all.
LEMMA WorkWrites ==
  ASSUME NoLateFault, AllInv, DataInv, DriverStep, pc' # "loop",
         op.kind \in {"boot", "read", "write", "ext"}, op.kind = "boot" => programming = {}
  PROVE  \/ medium' = medium
         \/ /\ op.kind = "write" /\ op.region \in Regions
            /\ medium' = [medium EXCEPT ![op.region][op.sector] = op.data]
<1>1. [BS!Next]_(BS!vars)
  BY StepMaps DEF Next
<1>2. pc # "loop" /\ op' = op
  BY InsideCommand
<1>3. CASE \E o \in Commands : BS!Request(o)
  BY <1>2, <1>3 DEF BS!Request
<1>4. CASE BS!Store
  BY <1>4 DEF BS!Store, BS!Writes, BS!Put
<1>5. CASE BS!Answer
  BY <1>5 DEF BS!Answer
<1>6. CASE BS!Crash \/ BS!Reset
  <2>1. op.kind = "boot"
    BY <1>2, <1>6, BootKind DEF BS!Crash, BS!Reset
  <2>2. Interrupted \/ medium' = medium
    BY <1>6, InterruptedMaps DEF BS!Crash, BS!Reset
  <2> QED BY <2>1, <2>2, NotInterrupted DEF AllInv, TypeInv
<1>7. CASE BS!Settle \/ UNCHANGED BS!vars
  BY <1>7 DEF BS!Settle, BS!vars
<1> QED BY <1>1, <1>3, <1>4, <1>5, <1>6, <1>7 DEF BS!Next

\* What the driver returns is an answer of BlockStore.
LEMMA ResultIsAnswer ==
  ASSUME NoLateFault, AllInv, DataInv, DriverStep, pc' = "loop"
  PROVE  BS!Answer
<1>1. [BS!Next]_(BS!vars)
  BY StepMaps DEF Next
<1>2. pc # "loop" /\ op' = op
  BY InsideCommand
<1>3. CASE \E o \in Commands : BS!Request(o)
  BY <1>2, <1>3 DEF BS!Request
<1>4. CASE BS!Store \/ BS!Settle \/ BS!Reset \/ BS!Crash \/ UNCHANGED BS!vars
  BY <1>2, <1>4 DEF BS!Store, BS!Settle, BS!Reset, BS!Crash, BS!vars
<1> QED BY <1>1, <1>3, <1>4 DEF BS!Next

\* The driver is asked for what the host has sent, if there is such a sector.
LEMMA CalledFor ==
  ASSUME Fits, UP!TypeInv, agent = "exec"
  PROVE  /\ OpOf(req) \in Commands /\ OpOf(req).kind = req.kind
         /\ req.kind \in {"read", "write", "ext"}
         /\ req.kind = "write" => OpOf(req).data = req.data
         /\ req.kind # "ext" /\ OpOf(req).region \in Regions =>
              /\ OpOf(req).region = RegionId /\ OpOf(req).sector = req.sector
              /\ req.region = RegionId /\ req.sector \in Sectors
<1>1. /\ req.kind \in {"read", "write", "ext"} /\ req.region \in UP!Words
      /\ req.data \in Seq(UP!Words) /\ (req.kind = "write" => Len(req.data) = BlockWords)
  BY DEF UP!TypeInv, UP!AgentType, UP!Requests
<1>2. UP!Words = U!Words
  BY DEF UP!Words, U!Words, U!Range, UP!Range
<1>3. req.region \in Regions => req.region = RegionId
  BY <1>1, <1>2 DEF Fits
<1>4. FirstSector \in Sectors /\ Zero \in Data /\ BadRegion \notin Regions
  BY ConstantsAssumption DEF FirstSector
<1>5. CASE req.kind = "ext"
  <2>1. OpOf(req) = Op("ext", User, FirstSector, Zero)
    BY <1>5 DEF OpOf
  <2>2. OpOf(req) \in Commands
    BY <2>1 DEF Commands
  <2> QED BY <1>5, <2>1, <2>2 DEF Op
<1>6. CASE req.kind # "ext"
  <2> DEFINE d == IF req.kind = "write" THEN req.data ELSE Zero
             known == req.region \in Regions /\ req.sector \in Sectors
  <2>1. d \in Data
    <3>1. CASE req.kind = "write"
      <4>1. req.data \in [1..BlockWords -> U!Words]
        BY <1>1, <1>2, <3>1
      <4> QED BY <3>1, <4>1 DEF Fits
    <3>2. CASE req.kind # "write"
      BY <1>4, <3>2
    <3> QED BY <3>1, <3>2
  <2>2. OpOf(req) = IF known THEN Op(req.kind, req.region, req.sector, d)
                    ELSE Op(req.kind, BadRegion, FirstSector, d)
    BY <1>6 DEF OpOf
  <2>3. req.kind = "write" => d = req.data
    OBVIOUS
  <2>4. req.kind = "read" => d = Zero
    OBVIOUS
  <2> HIDE DEF d
  <2>5. CASE known
    <3>1. OpOf(req) = Op(req.kind, req.region, req.sector, d)
      BY <2>2, <2>5
    <3>2. OpOf(req) \in Commands
      BY <1>1, <1>6, <2>1, <2>4, <2>5, <3>1 DEF Commands
    <3> QED BY <1>1, <1>3, <1>6, <2>3, <2>5, <3>1, <3>2 DEF Op
  <2>6. CASE ~known
    <3>1. OpOf(req) = Op(req.kind, BadRegion, FirstSector, d)
      BY <2>2, <2>6
    <3>2. OpOf(req) \in Commands
      BY <1>1, <1>4, <1>6, <2>1, <2>4, <3>1 DEF Commands
    <3> QED BY <1>1, <1>4, <1>6, <2>3, <3>1, <3>2 DEF Op
  <2> QED BY <2>5, <2>6
<1> QED BY <1>5, <1>6

-----------------------------------------------------------------------------
(* The invariant                                                           *)

\* What the region held at the call, with the block of the command.
WithBlock == [held EXCEPT ![op.sector] = op.data]

\* The agent is loaded when the card is at rest.
BootInv == op.kind = "boot" => programming = {}

\* While the driver is at work the loop waits for it, and the region holds what it held
\* at the call or that with the block of the command.
Waiting ==
  /\ op.kind = "boot" => agent = "magic"
  /\ op.kind # "boot" => agent = "exec" /\ op = OpOf(req)
  /\ \/ medium[RegionId] = held
     \/ op.kind = "write" /\ op.region = RegionId /\ medium[RegionId] = WithBlock

StackInv ==
  /\ AllInv /\ DataInv /\ BootInv /\ UP!TypeInv
  /\ held \in [Sectors -> Data]
  /\ pc # "loop" => Waiting

\* A step of the whole is one of the driver and its card, or none.
LEMMA DriverSteps ==
  ASSUME Fits, StackInv, [StackNext]_stack
  PROVE  [Next]_vars
<1>1. CASE HostStep \/ LoopStep
  BY <1>1 DEF HostStep, LoopStep
<1>2. CASE Call
  <2>1. OpOf(req) \in Commands
    BY <1>2, CalledFor DEF Call, StackInv
  <2> QED BY <1>2, <2>1 DEF Call, Next
<1>3. CASE Work \/ Result
  BY <1>3 DEF Work, Result, Next
<1>4. CASE CardFinish
  BY <1>4 DEF Next
<1>5. CASE UNCHANGED stack
  BY <1>5 DEF stack
<1> QED BY <1>1, <1>2, <1>3, <1>4, <1>5 DEF StackNext

\* What the invariant says of the region.
LEMMA RegionIs ==
  ASSUME Fits, StackInv
  PROVE  /\ RegionId \in Regions /\ medium \in [Regions -> [Sectors -> Data]]
         /\ medium[RegionId] \in [Sectors -> Data]
         /\ op.kind # "write" /\ pc # "loop" => medium[RegionId] = held
BY DEF Fits, StackInv, AllInv, TypeInv, TypeOK, Waiting

\* The pipes and what the loop sees of the region stay as they are.
LEMMA NothingSeen ==
  ASSUME UNCHANGED usb, Shown' = Shown
  PROVE  UNCHANGED UP!vars
BY DEF usb, UP!vars, UP!hostVars, UP!agentVars

\* The command has been read, and the driver is called.
LEMMA CallMaps ==
  ASSUME Fits, StackInv, Call
  PROVE  UNCHANGED UP!vars /\ Waiting' /\ held' \in [Sectors -> Data]
<1>1. /\ agent = "exec" /\ pc = "loop" /\ op' = OpOf(req) /\ medium' = medium
      /\ held' = medium[RegionId] /\ UNCHANGED usb
  BY DEF Call, Loop, card
<1>2. OpOf(req) \in Commands
  BY <1>1, CalledFor DEF StackInv
<1>3. pc' # "loop" /\ op'.kind # "boot"
  BY <1>1, <1>2, CommandKind DEF Call, Loop
<1>4. Shown' = Shown
  BY <1>1, <1>3 DEF Shown
<1>5. agent' = "exec" /\ req' = req
  BY <1>1 DEF usb
<1>6. OpOf(req)' = OpOf(req)
  BY <1>5 DEF OpOf
<1>7. Waiting'
  BY <1>1, <1>3, <1>5, <1>6 DEF Waiting
<1> QED BY <1>1, <1>4, <1>7, NothingSeen, RegionIs

\* The block of the command is in the region once it has been written.
LEMMA WrittenOnce ==
  ASSUME NEW h \in [Sectors -> Data], NEW t \in Sectors, NEW d \in Data,
         NEW f, f = h \/ f = [h EXCEPT ![t] = d]
  PROVE  [f EXCEPT ![t] = d] = [h EXCEPT ![t] = d]
OBVIOUS

\* The driver works while the loop waits.
LEMMA WorkMaps ==
  ASSUME Fits, NoLateFault, StackInv, Work
  PROVE  UNCHANGED UP!vars /\ Waiting'
<1>1. /\ pc # "loop" /\ pc' # "loop" /\ op' = op /\ held' = held /\ UNCHANGED usb
      /\ DriverStep /\ Waiting
  BY InsideCommand DEF Work, StackInv
<1>2. UNCHANGED UP!vars
  <2>1. Shown' = Shown
    BY <1>1 DEF Shown
  <2> QED BY <1>1, <2>1, NothingSeen
<1>3. agent' = agent /\ req' = req /\ WithBlock' = WithBlock
  BY <1>1 DEF usb, WithBlock
<1>4. OpOf(req)' = OpOf(req)
  BY <1>3 DEF OpOf
<1>5. \/ medium' = medium
      \/ /\ op.kind = "write" /\ op.region \in Regions
         /\ medium' = [medium EXCEPT ![op.region][op.sector] = op.data]
  <2>1. op.kind \in {"boot", "read", "write", "ext"}
    BY <1>1, CalledFor DEF StackInv, Waiting
  <2> QED BY <1>1, <2>1, WorkWrites DEF StackInv, BootInv
<1>6. CASE medium' = medium
  BY <1>1, <1>2, <1>3, <1>4, <1>6 DEF Waiting
<1>7. CASE /\ op.kind = "write" /\ op.region \in Regions
           /\ medium' = [medium EXCEPT ![op.region][op.sector] = op.data]
  <2>1. agent = "exec" /\ op = OpOf(req)
    BY <1>1, <1>7 DEF Waiting
  <2>2. req.kind = "write"
    BY <1>7, <2>1, CalledFor DEF StackInv
  <2>3. op.region = RegionId /\ op.sector \in Sectors
    BY <1>7, <2>1, <2>2, CalledFor DEF StackInv
  <2>4. medium'[RegionId] = [medium[RegionId] EXCEPT ![op.sector] = op.data]
    BY <1>7, <2>3, RegionIs
  <2>5. op.data \in Data /\ held \in [Sectors -> Data]
    BY OpType DEF StackInv, AllInv, TypeInv, TypeOK
  <2>6. medium[RegionId] = held \/ medium[RegionId] = WithBlock
    BY <1>1 DEF Waiting
  <2>7. medium'[RegionId] = WithBlock
    <3>1. [medium[RegionId] EXCEPT ![op.sector] = op.data] = [held EXCEPT ![op.sector] = op.data]
      BY <2>3, <2>5, <2>6, WrittenOnce DEF WithBlock
    <3> QED BY Zenon, <2>4, <3>1 DEF WithBlock
  <2> QED BY <1>1, <1>2, <1>3, <1>4, <1>7, <2>3, <2>7 DEF Waiting
<1> QED BY <1>5, <1>6, <1>7

\* What the loop does tells which reply the driver has left.
LEMMA RespondIs ==
  ASSUME Respond
  PROVE  /\ reply' = NoReply => agent' = "magic" /\ toSend' = toSend
         /\ reply' = Ack => UP!Reply(UP!AckReply)
         /\ \A d : reply' = DataReply(d) => UP!Reply(UP!DataReply(d))
         /\ reply' = Hello => UNCHANGED <<agent, toSend>>
<1>1. /\ NoReply.tag = "none" /\ Ack.tag = "ack" /\ Hello.tag = "hello"
      /\ \A d : DataReply(d).tag = "data" /\ DataReply(d).data = d
  BY DEF NoReply, Ack, Hello, DataReply
<1>2. U!AckReply = UP!AckReply /\ \A d : U!DataReply(d) = UP!DataReply(d)
  BY DEF U!AckReply, UP!AckReply, U!DataReply, UP!DataReply
<1>3. \A a : U!Reply(a) <=> UP!Reply(a)
  BY DEF U!Reply, UP!Reply
<1> QED BY <1>1, <1>2, <1>3 DEF Respond

\* The driver has returned: the loop answers as it does for a store.
LEMMA ResultMaps ==
  ASSUME Fits, NoLateFault, StackInv, Result
  PROVE  [UP!Next]_(UP!vars)
<1>1. /\ pc # "loop" /\ pc' = "loop" /\ op' = op /\ held' = held /\ Waiting
      /\ UNCHANGED <<host, cmd, sent, got, done, out, in, req, upsets>>
  BY InsideCommand DEF Result, StackInv
<1>2. /\ medium' = medium
      /\ \/ op.kind \in {"read", "write", "verify"} /\ reply' = NoReply
         \/ op.kind = "boot" /\ reply' = Hello
         \/ op.kind = "init" /\ reply' = Ack
         \/ op.kind = "ext" /\ \E d \in Data : reply' = DataReply(d)
         \/ /\ op.kind = "read" /\ op.region \in Regions
            /\ reply' = DataReply(medium[op.region][op.sector])
         \/ /\ op.kind = "write" /\ op.region \in Regions
            /\ medium[op.region][op.sector] = op.data /\ reply' = Ack
  <2>1. BS!Answer
    BY ResultIsAnswer DEF Result, StackInv
  <2> QED BY <2>1 DEF BS!Answer, BS!Writes
<1>3. Shown = held /\ Shown' = medium[RegionId]
  BY <1>1, <1>2 DEF Shown
<1>4. Respond
  BY DEF Result
<1>5. CASE op.kind = "boot"
  <2>1. reply' = Hello
    BY <1>2, <1>5
  <2>2. agent' = agent /\ toSend' = toSend
    BY <1>4, <2>1, RespondIs
  <2>3. Shown' = Shown
    BY <1>1, <1>3, <1>5 DEF Waiting
  <2> QED BY <1>1, <2>2, <2>3, NothingSeen DEF usb
<1>6. CASE op.kind # "boot"
  <2>1. agent = "exec" /\ op = OpOf(req)
    BY <1>1, <1>6 DEF Waiting
  <2>2. /\ op.kind = req.kind /\ req.kind \in {"read", "write", "ext"}
        /\ req.kind = "write" => op.data = req.data
        /\ req.kind # "ext" /\ op.region \in Regions =>
             /\ op.region = RegionId /\ op.sector = req.sector
             /\ req.region = RegionId /\ req.sector \in Sectors
    BY <2>1, CalledFor DEF StackInv
  <2>3. req.kind # "write" => Shown' = Shown
    BY <1>1, <1>3, <2>2 DEF Waiting
  <2> USE DEF UP!Next, UP!AgentStep, UP!hostVars
  <2>4. CASE op.kind = "ext"
    <3>1. PICK d \in Data : reply' = DataReply(d)
      BY <1>2, <2>4
    <3>2. UP!Reply(UP!DataReply(d))
      BY <1>4, <3>1, RespondIs
    <3>3. UP!ExecExtCsd
      BY <1>1, <2>1, <2>2, <2>3, <2>4, <3>2 DEF UP!ExecExtCsd
    <3> QED BY <3>3
  <2>5. CASE op.kind = "read" /\ reply' = NoReply
    <3>1. UP!ExecFails
      BY <1>1, <1>4, <2>1, <2>2, <2>3, <2>5, RespondIs DEF UP!ExecFails
    <3> QED BY <3>1
  <2>6. CASE /\ op.kind = "read" /\ op.region \in Regions
             /\ reply' = DataReply(medium[op.region][op.sector])
    <3>1. reply' = DataReply(Shown[req.sector]) /\ UP!Addressed
      BY <1>1, <1>3, <2>2, <2>3, <2>6 DEF UP!Addressed
    <3>2. UP!Reply(UP!DataReply(Shown[req.sector]))
      BY <1>4, <3>1, RespondIs
    <3>3. UP!ExecRead
      BY <1>1, <2>1, <2>2, <2>3, <2>6, <3>1, <3>2 DEF UP!ExecRead
    <3> QED BY <3>3
  <2>7. CASE op.kind = "write" /\ reply' = NoReply
    <3>1. agent' = "magic" /\ toSend' = toSend
      BY <1>4, <2>7, RespondIs
    <3>2. CASE medium[RegionId] = held
      <4>1. UP!ExecFails
        BY <1>1, <1>3, <2>1, <2>2, <2>7, <3>1, <3>2 DEF UP!ExecFails
      <4> QED BY <4>1
    <3>3. CASE op.region = RegionId /\ medium[RegionId] = WithBlock
      <4>1. UP!Addressed /\ op.sector = req.sector /\ op.data = req.data
        BY <2>2, <2>7, <3>3, RegionIs DEF UP!Addressed
      <4>2. Shown' = [Shown EXCEPT ![req.sector] = req.data]
        BY Zenon, <1>3, <3>3, <4>1 DEF WithBlock
      <4>3. UP!ExecFails
        BY <1>1, <2>1, <2>2, <2>7, <3>1, <4>1, <4>2 DEF UP!ExecFails
      <4> QED BY <4>3
    <3> QED BY <1>1, <3>2, <3>3 DEF Waiting
  <2>8. CASE /\ op.kind = "write" /\ op.region \in Regions
             /\ medium[op.region][op.sector] = op.data /\ reply' = Ack
    <3>1. /\ UP!Addressed /\ op.region = RegionId /\ op.sector = req.sector
          /\ op.data = req.data /\ op.sector \in Sectors
      BY <2>2, <2>8 DEF UP!Addressed
    <3>2. medium[RegionId] = WithBlock
      <4>1. CASE medium[RegionId] = held
        <5>1. held[op.sector] = op.data /\ held \in [Sectors -> Data]
          BY <2>8, <3>1, <4>1 DEF StackInv
        <5> QED BY <3>1, <4>1, <5>1 DEF WithBlock
      <4> QED BY <1>1, <4>1 DEF Waiting
    <3>3. Shown' = [Shown EXCEPT ![req.sector] = req.data]
      BY Zenon, <1>3, <3>1, <3>2 DEF WithBlock
    <3>4. UP!Reply(UP!AckReply)
      BY <1>4, <2>8, RespondIs
    <3>5. UP!ExecWrite
      BY <1>1, <2>1, <2>2, <2>8, <3>1, <3>3, <3>4 DEF UP!ExecWrite
    <3> QED BY <3>5
  <2> QED BY <1>2, <1>6, <2>2, <2>4, <2>5, <2>6, <2>7, <2>8
<1> QED BY <1>5, <1>6

-----------------------------------------------------------------------------
(* The whole                                                               *)

\* The host's and the loop's own steps are nothing to the driver, and the driver's and the
\* card's are nothing to the pipes.
LEMMA HostKeeps ==
  ASSUME HostStep
  PROVE  UNCHANGED <<vars, held, agent, req>>
BY DEF HostStep, U!Connect, U!Disconnect, U!Begin, U!HostWrites, U!Send, U!SendTimeout,
   U!HostReads, U!Receive, U!ReceiveOverflow, U!ReceiveTimeout, U!Abort, U!Interrupt, U!agentVars

\* Nothing the driver waits for changes.
LEMMA WaitingStays ==
  ASSUME Waiting, UNCHANGED <<op, medium, held, agent, req>>
  PROVE  Waiting'
<1>1. OpOf(req)' = OpOf(req)
  BY DEF OpOf
<1>2. WithBlock' = WithBlock
  BY DEF WithBlock
<1> QED BY <1>1, <1>2 DEF Waiting

LEMMA CardKeeps ==
  ASSUME CardFinish
  PROVE  UNCHANGED <<driver, medium>>
BY DEF CardFinish, BecomesCard

\* No block is sent before the first command.
LEMMA BootStep ==
  ASSUME Fits, StackInv, [StackNext]_stack
  PROVE  BootInv'
<1> USE DEF BootInv, StackInv
<1>1. CASE HostStep \/ LoopStep \/ UNCHANGED stack
  BY <1>1 DEF HostStep, LoopStep, stack, vars, driver, card
<1>2. CASE Call
  BY <1>2, CalledFor, CommandKind DEF Call, Loop
<1>3. CASE Work \/ Result
  <2>1. DriverStep /\ op' = op
    BY <1>3, InsideCommand DEF Work, Result
  <2>2. pc = "tx" => op.kind = "write"
    BY DEF AllInv, TypeInv, ControlInv, WriteSteps
  <2> QED BY <2>1, <2>2, BlockIsProgrammed
<1>4. CASE CardFinish
  BY <1>4 DEF CardFinish, BecomesCard
<1> QED BY <1>1, <1>2, <1>3, <1>4 DEF StackNext

\* A step of the whole is one of UsbSession, or nothing to it.
LEMMA StackStep ==
  ASSUME Fits, NoPartitionFault, NoLateFault, StackInv, [StackNext]_stack
  PROVE  [UP!Next]_(UP!vars) /\ StackInv'
<1>1. AllInv' /\ DataInv'
  <2>1. [Next]_vars
    BY DriverSteps
  <2>2. TypeInv /\ ConfirmInv /\ AgreeInv /\ DataInv
    BY DEF StackInv, AllInv
  <2>3. TypeInv'
    BY <2>1, <2>2, TypeStep
  <2>4. ConfirmInv'
    BY <2>1, <2>2, ConfirmStep, NoPartitionFaultMeans
  <2>5. AgreeInv'
    BY <2>1, <2>2, AgreeStep
  <2>6. DataInv'
    BY <2>1, <2>2, DataStep DEF StackInv
  <2>7. ProgrammingInv'
    BY <2>1, <2>2, ProgrammingStep DEF StackInv, AllInv
  <2> QED BY <2>3, <2>4, <2>5, <2>6, <2>7 DEF AllInv
<1>2. /\ [UP!Next]_(UP!vars) /\ held' \in [Sectors -> Data]
      /\ pc' # "loop" => Waiting'
  <2>0. held \in [Sectors -> Data] /\ (pc # "loop" => Waiting)
    BY DEF StackInv
  <2>1. CASE HostStep
    <3>1. UP!Next
      BY <2>1, SameHost
    <3>2. UNCHANGED <<pc, op, medium, held, agent, req>>
      BY <2>1, HostKeeps DEF vars, driver, card
    <3> QED BY <2>0, <3>1, <3>2, WaitingStays
  <2>2. CASE LoopStep
    <3>1. UP!Next
      BY <2>2, SameLoop
    <3>2. pc' = "loop" /\ held' = held
      BY <2>2 DEF LoopStep, vars, driver
    <3> QED BY <2>0, <3>1, <3>2
  <2>3. CASE Call
    BY <2>3, CallMaps
  <2>4. CASE Work
    <3>1. held' = held
      BY <2>4 DEF Work
    <3> QED BY <2>0, <2>4, <3>1, WorkMaps
  <2>5. CASE Result
    <3>1. held' = held /\ pc' = "loop"
      BY <2>5 DEF Result
    <3> QED BY <2>0, <2>5, <3>1, ResultMaps
  <2>6. CASE (CardFinish /\ UNCHANGED <<usb, held>>) \/ UNCHANGED stack
    <3>1. UNCHANGED <<pc, op, medium, held, usb>>
      BY <2>6, CardKeeps DEF stack, vars, driver, card
    <3>2. agent' = agent /\ req' = req
      BY <3>1 DEF usb
    <3>3. Shown' = Shown
      BY <3>1 DEF Shown
    <3>4. UNCHANGED UP!vars
      BY <3>1, <3>3, NothingSeen
    <3> QED BY <2>0, <3>1, <3>2, <3>4, WaitingStays
  <2> QED BY <2>1, <2>2, <2>3, <2>4, <2>5, <2>6 DEF StackNext
<1>3. UP!TypeInv'
  BY <1>2, UsbTypes DEF StackInv
<1>4. BootInv'
  BY BootStep
<1> QED BY <1>1, <1>2, <1>3, <1>4 DEF StackInv

\* UsbSession is the same specification in the model and in its proofs.
LEMMA SameSpec ==
  /\ U!Init <=> UP!Init
  /\ U!Next <=> UP!Next
<1>1. U!Init <=> UP!Init
  BY SameCommands DEF U!Init, UP!Init, U!Idle, UP!Idle
<1>2. U!Connect <=> UP!Connect
  BY DEF U!Connect, UP!Connect, U!agentVars, UP!agentVars
<1>3. U!Disconnect <=> UP!Disconnect
  BY DEF U!Disconnect, UP!Disconnect, U!agentVars, UP!agentVars
<1>4. (\E c \in U!Commands : U!Begin(c)) <=> (\E c \in UP!Commands : UP!Begin(c))
  BY SameCommands DEF U!Begin, UP!Begin, U!agentVars, UP!agentVars
<1>5. U!HostWrites <=> UP!HostWrites
  BY SameCommands DEF U!HostWrites, UP!HostWrites, U!Send, UP!Send, U!SendTimeout,
     UP!SendTimeout, U!agentVars, UP!agentVars
<1>6. U!HostReads <=> UP!HostReads
  <2>1. U!Receive <=> UP!Receive
    BY SameCommands DEF U!Receive, UP!Receive, U!agentVars, UP!agentVars
  <2>2. U!ReceiveOverflow <=> UP!ReceiveOverflow
    BY SameCommands DEF U!ReceiveOverflow, UP!ReceiveOverflow, U!agentVars, UP!agentVars
  <2>3. U!ReceiveTimeout <=> UP!ReceiveTimeout
    BY SameCommands DEF U!ReceiveTimeout, UP!ReceiveTimeout, U!NoReplyToCome, UP!NoReplyToCome,
       U!agentVars, UP!agentVars
  <2> QED BY <2>1, <2>2, <2>3 DEF U!HostReads, UP!HostReads
<1>7. (U!Abort <=> UP!Abort) /\ (U!Interrupt <=> UP!Interrupt)
  BY SameCommands DEF U!Abort, UP!Abort, U!Interrupt, UP!Interrupt, U!agentVars, UP!agentVars
<1>8. U!AgentStep <=> UP!AgentStep
  <2>1. U!RecvMagic <=> UP!RecvMagic
    BY Zenon DEF U!RecvMagic, UP!RecvMagic, U!Recv, UP!Recv, U!Idle, UP!Idle, U!hostVars,
       UP!hostVars
  <2>2. U!RecvCmd <=> UP!RecvCmd
    BY Zenon DEF U!RecvCmd, UP!RecvCmd, U!Recv, UP!Recv, U!hostVars, UP!hostVars
  <2>3. U!RecvRegion <=> UP!RecvRegion
    BY Zenon DEF U!RecvRegion, UP!RecvRegion, U!Recv, UP!Recv, U!hostVars, UP!hostVars
  <2>4. U!RecvBlock <=> UP!RecvBlock
    BY Zenon DEF U!RecvBlock, UP!RecvBlock, U!Recv, UP!Recv, U!hostVars, UP!hostVars
  <2>5. U!RecvData <=> UP!RecvData
    BY Zenon DEF U!RecvData, UP!RecvData, U!Recv, UP!Recv, U!hostVars, UP!hostVars
  <2>6. U!ExecRead <=> UP!ExecRead
    BY Zenon DEF U!ExecRead, UP!ExecRead, U!Reply, UP!Reply, U!DataReply, UP!DataReply,
       U!Addressed, UP!Addressed, U!hostVars, UP!hostVars
  <2>7. U!ExecWrite <=> UP!ExecWrite
    BY Zenon DEF U!ExecWrite, UP!ExecWrite, U!Reply, UP!Reply, U!AckReply, UP!AckReply,
       U!Addressed, UP!Addressed, U!hostVars, UP!hostVars
  <2>8. U!ExecExtCsd <=> UP!ExecExtCsd
    BY Zenon DEF U!ExecExtCsd, UP!ExecExtCsd, U!Reply, UP!Reply, U!DataReply, UP!DataReply,
       U!hostVars, UP!hostVars
  <2>9. U!ExecFails <=> UP!ExecFails
    BY Zenon DEF U!ExecFails, UP!ExecFails, U!Addressed, UP!Addressed, U!hostVars, UP!hostVars
  <2>10. U!SendPacket <=> UP!SendPacket
    BY Zenon DEF U!SendPacket, UP!SendPacket, U!hostVars, UP!hostVars
  <2> QED BY <2>1, <2>2, <2>3, <2>4, <2>5, <2>6, <2>7, <2>8, <2>9, <2>10
          DEF U!AgentStep, UP!AgentStep
<1> QED BY <1>1, <1>2, <1>3, <1>4, <1>5, <1>6, <1>7, <1>8 DEF U!Next, UP!Next

LEMMA StackStart ==
  ASSUME Fits, StackInit
  PROVE  StackInv /\ UP!Init
<1>1. Init /\ U!Init /\ held = medium[RegionId]
  BY DEF StackInit
<1>2. TypeInv /\ ConfirmInv /\ AgreeInv /\ ProgrammingInv /\ DataInv /\ BootInv
  BY <1>1, TypeInit, ConfirmInit, AgreeInit, ProgrammingInit, DataInit DEF BootInv, Init
<1>3. UP!Init /\ UP!TypeInv
  BY <1>1, SameSpec, UsbConstants, UP!InitType
<1>4. held \in [Sectors -> Data]
  BY <1>1, <1>2 DEF Fits, TypeInv, TypeOK
<1>5. Waiting
  <2>1. op.kind = "boot" /\ agent = "magic"
    BY <1>1, <1>3, BootKind DEF Init, UP!Init
  <2> QED BY <1>1, <2>1 DEF Waiting
<1> QED BY <1>2, <1>3, <1>4, <1>5 DEF StackInv, AllInv

LEMMA StackMaps ==
  ASSUME Fits, NoPartitionFault, NoLateFault
  PROVE  StackSpec => []StackInv /\ UP!Spec
<1>1. StackInit => StackInv /\ UP!Init
  BY StackStart
<1>2. StackInv /\ [StackNext]_stack => [UP!Next]_(UP!vars) /\ StackInv'
  BY StackStep
<1> QED BY <1>1, <1>2, PTL DEF StackSpec, UP!Spec

\* Under every set of faults but the partition and the late ones, the host cannot tell
\* command loop, driver and card from the store of UsbSession: every behaviour of the whole
\* is one of UsbSession, with the region as the loop sees it for the store and whatever
\* the buffer may hold for the replies to EXT_CSD.
THEOREM StackIsUsbSession ==
  ASSUME Fits, NoPartitionFault, NoLateFault
  PROVE  StackSpec => IsUsbSession
<1>1. UP!Init => U!Init
  BY SameSpec
<1>2. [UP!Next]_(UP!vars) => [U!Next]_(U!vars)
  BY SameSpec DEF U!vars, UP!vars, U!hostVars, UP!hostVars, U!agentVars, UP!agentVars
<1> QED BY <1>1, <1>2, StackMaps, PTL DEF IsUsbSession, U!Spec, UP!Spec

\* Nothing having been cut off, what read_sector has returned is what the card holds, and
\* the block write_sector has reported as written is on the card, through pipes of any
\* capacity, the partition cache, the two transfers of a read, the card's programming and
\* every fault of Faults but the partition and the late ones.
THEOREM HostAgreesWithCard ==
  ASSUME Fits, NoPartitionFault, NoLateFault
  PROVE  StackSpec => []HostAndCardAgree
<1>1. UP!Spec => []UP!UndisturbedResultsAreTrue /\ []UP!InSync
  BY UsbConstants, UP!UndisturbedHostIsRight, UP!StaysInSync
<1>2. StackInv /\ UP!UndisturbedResultsAreTrue /\ UP!InSync => HostAndCardAgree
  <2> SUFFICES ASSUME StackInv, UP!UndisturbedResultsAreTrue, UP!InSync,
                      upsets = <<>>, host = "idle"
               PROVE  /\ done.kind = "read" => done.data = medium[RegionId][done.sector]
                      /\ done.kind = "write" => medium[RegionId][done.sector] = cmd.block
    BY DEF HostAndCardAgree
  <2>1. agent = "magic"
    BY DEF UP!InSync, UP!Undisturbed
  <2>2. Shown = medium[RegionId]
    BY <2>1 DEF Shown, StackInv, Waiting
  <2> QED BY <2>2 DEF UP!UndisturbedResultsAreTrue, UP!Undisturbed, UP!ReturnsWhatWasAsked,
             UP!WriteIsStored
<1> QED BY <1>1, <1>2, StackMaps, PTL

\* As long as no command is cut off while it is being sent, every sector of the region holds
\* a block that was there before or that somebody has handed to write_sector, at every
\* moment of a command and however many waits were cut off and commands have failed:
\* the pipe to the host is taken to hold the replies that are left over.
THEOREM CardHoldsBlocks ==
  ASSUME Fits, NoPartitionFault, NoLateFault, InCap >= MaxUpsets * (BlockWords \div ChunkWords)
  PROVE  StackSpec => []OnlyBlocksOnCard
<1>1. UP!Spec => []UP!KeyInv
  <2>1. InCap >= MaxUpsets * UP!Packets
    BY DEF UP!Packets
  <2> QED BY <2>1, UsbConstants, UP!KeyInvariant
<1>2. StackInv /\ UP!KeyInv => OnlyBlocksOnCard
  <2> SUFFICES ASSUME StackInv, UP!KeyInv, "abort" \notin U!Range(upsets), NEW s \in Sectors
               PROVE  medium[RegionId][s] \in Blocks
    BY DEF OnlyBlocksOnCard
  <2>1. UP!Stored
    BY DEF UP!KeyInv, UP!NothingAborted, UP!Range, U!Range, UP!Framed
  <2>2. Shown \in [Sectors -> Blocks]
    BY <2>1 DEF UP!Stored
  <2>3. CASE medium[RegionId] = Shown
    BY <2>2, <2>3
  <2>4. CASE medium[RegionId] # Shown
    <3>1. Shown = held /\ Waiting
      BY <2>4 DEF Shown, StackInv
    <3>2. /\ op.kind = "write" /\ op.region = RegionId /\ medium[RegionId] = WithBlock
          /\ agent = "exec" /\ op = OpOf(req)
      BY <2>4, <3>1 DEF Waiting
    <3>3. req.kind = "write" /\ op.data = req.data
      BY <3>2, CalledFor DEF StackInv
    <3>4. op.data \in Blocks /\ held \in [Sectors -> Blocks]
      BY <2>1, <2>2, <3>1, <3>2, <3>3 DEF UP!Stored
    <3>5. WithBlock[s] \in Blocks
      BY <3>4 DEF WithBlock
    <3> QED BY <3>2, <3>5
  <2> QED BY <2>3, <2>4
<1> QED BY <1>1, <1>2, StackMaps, PTL

\* In the whole, too, no sector of another region than the one asked for is read or written.
THEOREM StackRegionsAreRight ==
  ASSUME Fits, NoPartitionFault, NoLateFault
  PROVE  StackSpec => []RightRegion
<1>1. StackInv => RightRegion
  BY DEF StackInv, AllInv, AgreeInv, RightRegion, Transfers, Selected
<1> QED BY <1>1, StackMaps, PTL
=============================================================================
