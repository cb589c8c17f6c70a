-------------------------- MODULE OrigPayloadProofs --------------------------
(***************************************************************************)
(* The original payload for any contents of blocks: its types, that an     *)
(* RPMB write is executed at most once, whatever is lost on the way, and   *)
(* that blocks and answers are those asked for when nothing is lost.       *)
(***************************************************************************)
EXTENDS OrigPayload, TLAPS

Before == [rpmb : [RpmbAddrs -> Data], counter : 0..MaxCounter]

\* TypeOK without the card and what is kept of it.
ControlOK ==
  /\ pc \in {"down", "loop", "init", "cmd6", "status", "block", "request", "result",
             "response", "return"}
  /\ step \in 1..13 /\ cmd \in Commands /\ type \in {"none", "counter", "read", "write"}
  /\ wc \in 0..MaxCounter /\ ret \in {"none", "ok", "error"}
  /\ reply = NoReply \/ reply \in [what : {"ack"}] \cup [what : {"data"}, data : Data]
  /\ rpmb_key \in {"zeros", "card"} /\ late \in BOOLEAN /\ leftover \in BOOLEAN
  /\ trouble \in BOOLEAN /\ named \in {User, Boot, Rpmb, Unknown}

Unwritten == card.counter = before.counter /\ card.rpmb = before.rpmb

\* The request that writes has not been sent before it is at hand, and nothing comes
\* back to it; there was room for one more on the counter when the command came.
OnceInv ==
  /\ pc \in {"init", "cmd6", "status", "block", "request"} \/ type # "write" => Unwritten
  /\ type \in {"counter", "write"} => cmd.op = "rpmb_write"
  /\ pc = "init" => cmd.op = "init"
  /\ cmd.op = "rpmb_write" => before.counter < MaxCounter
  /\ pc = "block" /\ cmd.op # "read" => cmd.op = "write"
  /\ pc = "request" => type # "none"
  /\ cmd.op = "rpmb_read" => type = "read"
  /\ type = "read" => cmd.op = "rpmb_read"
  /\ pc \in {"cmd6", "status"} /\ type = "none" => cmd.op = "part"

IInv == TypeOK /\ OnceInv /\ WriteOnce

\* Every field of a command that its execution looks at.
LEMMA CommandFields ==
  ASSUME NEW c \in Commands
  PROVE  /\ c.op \in {"init", "read", "other", "write", "rpmb_write", "part", "rpmb_read", "key"}
         /\ c.op \in {"write", "rpmb_write"} => c.data \in Data
         /\ c.op = "part" => c.part \in {User, Boot, Rpmb}
         /\ c.op = "rpmb_read" => c.addr \in RpmbAddrs
         /\ c.op = "key" => c.key \in {"zeros", "card"}
BY DEF Commands

\* The fields of a card.
LEMMA CardFields ==
  ASSUME NEW c \in Cards
  PROVE  /\ c.state \in {"down", "idle", "ready", "ident", "stby", "tran", "prg", "rcv"}
         /\ c.part \in {User, Boot, Rpmb} /\ c.switchError \in BOOLEAN
         /\ c.blocks \in [{User, Boot} -> Data] /\ c.rpmb \in [RpmbAddrs -> Data]
         /\ c.counter \in 0..MaxCounter /\ c.written \in {"ok", "refused"} /\ c.answer \in Frames
BY DEF Cards

\* The cleared frame and the card's are frames.
LEMMA FramesTyped ==
  ASSUME OrigPayloadAssumption, card \in Cards
  PROVE  /\ Cleared \in Frames
         /\ \A d \in Data, r \in {"ok", "refused"} : Answer(d, r) \in Frames
<1>1. Cleared \in Frames
  BY DEF OrigPayloadAssumption, Cleared, Frames
<1>2. \A d \in Data, r \in {"ok", "refused"} : Answer(d, r) \in Frames
  BY CardFields DEF Answer, Frames
<1> QED BY <1>1, <1>2

\* What a request makes of the card.
LEMMA CardAfterTyped ==
  ASSUME OrigPayloadAssumption, card \in Cards, NEW f,
         f.type \in {"counter", "read", "result", "write"},
         f.type = "read" => f.addr \in RpmbAddrs,
         f.type = "write" => f.addr \in RpmbAddrs /\ f.data \in Data /\ card.counter < MaxCounter
  PROVE  CardAfter(f) \in Cards
<1> USE CardFields
<1>1. CASE f.type = "counter"
  <2>1. Answer(Zeros, "ok") \in Frames
    BY FramesTyped DEF OrigPayloadAssumption
  <2>2. CardAfter(f) = [card EXCEPT !.answer = Answer(Zeros, "ok")]
    BY <1>1 DEF CardAfter
  <2> QED BY <2>1, <2>2 DEF Cards
<1>2. CASE f.type = "read"
  <2>1. Answer(card.rpmb[f.addr], "ok") \in Frames
    BY <1>2, FramesTyped
  <2>2. CardAfter(f) = [card EXCEPT !.answer = Answer(card.rpmb[f.addr], "ok")]
    BY <1>2 DEF CardAfter
  <2> QED BY <2>1, <2>2 DEF Cards
<1>3. CASE f.type = "result"
  <2>1. Answer(Zeros, card.written) \in Frames
    BY FramesTyped DEF OrigPayloadAssumption
  <2>2. CardAfter(f) = [card EXCEPT !.answer = Answer(Zeros, card.written)]
    BY <1>3 DEF CardAfter
  <2> QED BY <2>1, <2>2 DEF Cards
<1>4. CASE f.type = "write"
  <2>1. CASE f.mac = "card" /\ f.counter = card.counter
    <3>1. CardAfter(f) = [card EXCEPT !.rpmb[f.addr] = f.data, !.counter = @ + 1, !.written = "ok"]
      BY <1>4, <2>1 DEF CardAfter
    <3>2. [card.rpmb EXCEPT ![f.addr] = f.data] \in [RpmbAddrs -> Data]
      BY <1>4
    <3>3. card.counter + 1 \in 0..MaxCounter
      BY <1>4 DEF OrigPayloadAssumption
    <3> QED BY <3>1, <3>2, <3>3 DEF Cards
  <2>2. CASE ~(f.mac = "card" /\ f.counter = card.counter)
    <3>1. CardAfter(f) = [card EXCEPT !.written = "refused"]
      BY <1>4, <2>2 DEF CardAfter
    <3> QED BY <3>1 DEF Cards
  <2> QED BY <2>1, <2>2
<1> QED BY <1>1, <1>2, <1>3, <1>4

\* The frame of the request at hand is one the card can execute.
LEMMA PreFrameTyped ==
  ASSUME OrigPayloadAssumption, IInv, pc = "request"
  PROVE  LET f == PreFrame(type)
         IN /\ f.type = type /\ type \in {"counter", "read", "write"}
            /\ f.type = "read" => f.addr \in RpmbAddrs
            /\ f.type = "write" => /\ f.addr = 0 /\ f.addr \in RpmbAddrs /\ f.data = cmd.data
                                   /\ f.data \in Data /\ card.counter < MaxCounter
<1> USE DEF IInv, OnceInv
<1>1. type \in {"counter", "read", "write"} /\ cmd \in Commands
  BY DEF TypeOK
<1>2. CASE type = "counter"
  BY <1>2 DEF PreFrame
<1>3. CASE type = "read"
  BY <1>1, <1>3, CommandFields DEF PreFrame
<1>4. CASE type = "write"
  <2>1. cmd.op = "rpmb_write" /\ cmd.data \in Data
    BY <1>1, <1>4, CommandFields
  <2>2. card.counter < MaxCounter
    BY <1>4, <2>1 DEF Unwritten
  <2> QED BY <1>4, <2>1, <2>2 DEF PreFrame, RpmbAddrs
<1> QED BY <1>1, <1>2, <1>3, <1>4

\* The card stays a card.
LEMMA CardStep == ASSUME OrigPayloadAssumption, IInv, Next PROVE card' \in Cards
<1>0. card \in Cards /\ cmd \in Commands
  BY DEF IInv, TypeOK
<1> USE <1>0, CardFields
<1>1. CASE Load
  BY <1>1 DEF Load, Cards
<1>2. CASE \E o \in Outcomes : InitCommand(o)
  <2> PICK o \in Outcomes : InitCommand(o)
    BY <1>2
  <2> DEFINE c == InitSequence[step]
  <2>1. CASE o = "lost"
    BY <2>1 DEF InitCommand
  <2>2. CASE o # "lost"
    <3>1. card' = [card EXCEPT !.state = LeadsTo(c), !.part = IF c = "0" THEN User ELSE @]
      BY <2>2 DEF InitCommand
    <3>2. LeadsTo(c) \in {"down", "idle", "ready", "ident", "stby", "tran", "prg", "rcv"}
      BY DEF LeadsTo
    <3> HIDE DEF c
    <3> QED BY <3>1, <3>2 DEF Cards
  <2> QED BY <2>1, <2>2
<1>3. CASE \E o \in Outcomes : Cmd6(o)
  <2>1. Target \in {User, Boot, Rpmb}
    BY CommandFields DEF Target
  <2>2. \A refused \in BOOLEAN :
          [card EXCEPT !.part = IF refused THEN @ ELSE Target,
                       !.switchError = refused, !.state = "prg"] \in Cards
    BY <2>1 DEF Cards
  <2> QED BY <1>3, <2>2 DEF Cmd6
<1>4. CASE \E o \in Outcomes : BlockFails(o)
  <2>1. [card EXCEPT !.state = "rcv"] \in Cards
    BY DEF Cards
  <2> QED BY <1>4, <2>1 DEF BlockFails
<1>5. CASE WriteBlock
  <2>1. cmd.data \in Data /\ card.part \in {User, Boot}
    BY <1>5, CommandFields DEF WriteBlock, Sends, BlockTaken, Outcomes
  <2>2. [card.blocks EXCEPT ![card.part] = cmd.data] \in [{User, Boot} -> Data]
    BY <2>1
  <2>3. [card EXCEPT !.blocks[card.part] = cmd.data] \in Cards
    BY <2>2 DEF Cards
  <2> QED BY <1>5, <2>3 DEF WriteBlock
<1>6. CASE \E o \in Outcomes : Request(o)
  <2>1. CardAfter(PreFrame(type)) \in Cards
    <3>1. pc = "request"
      BY <1>6 DEF Request
    <3> QED BY <3>1, PreFrameTyped, CardAfterTyped
  <2>2. [card EXCEPT !.state = "rcv"] \in Cards
    BY DEF Cards
  <2> QED BY <1>6, <2>1, <2>2 DEF Request, SendRequest
<1>7. CASE \E o \in Outcomes : RequestResult(o)
  <2>1. CardAfter([type |-> "result"]) \in Cards
    BY CardAfterTyped
  <2>2. [card EXCEPT !.state = "rcv"] \in Cards
    BY DEF Cards
  <2> QED BY <1>7, <2>1, <2>2 DEF RequestResult, SendRequest
<1>8. CASE CardReady
  BY <1>8 DEF CardReady, Cards
<1>9. CASE Stop \/ Return \/ InitDone \/ ReadBlock
  BY <1>9 DEF Stop, Return, InitDone, ReadBlock
<1>10. CASE \/ \E c \in Commands : Receive(c)
            \/ \E o \in Outcomes : Response(o) \/ Status(o)
  BY <1>10 DEF Receive, Response, Status
<1> QED
  BY <1>1, <1>2, <1>3, <1>4, <1>5, <1>6, <1>7, <1>8, <1>9, <1>10 DEF Next, Step

\* A step that fails leaves the control well-typed.
LEMMA ControlStep == ASSUME OrigPayloadAssumption, IInv, Next PROVE ControlOK'
<1>0. ControlOK /\ card \in Cards
  BY DEF IInv, TypeOK, ControlOK
<1> USE <1>0 DEF ControlOK, fifo, ResetHw
<1>1. CASE Load
  BY <1>1 DEF Load
<1>2. CASE Stop
  <2>1. wc' \in 0..MaxCounter /\ step' \in 1..13
    BY <1>2 DEF Stop, OrigPayloadAssumption
  <2>2. UNCHANGED <<cmd, type>> /\ reply' = NoReply
    BY <1>2 DEF Stop
  <2>3. /\ pc' = "down" /\ ret' = "none" /\ rpmb_key' = "zeros" /\ named' = Unknown
        /\ late' = FALSE /\ leftover' = FALSE /\ trouble' = TRUE
    BY <1>2 DEF Stop
  <2> QED BY <2>1, <2>2, <2>3
<1>3. CASE \E c \in Commands : Receive(c)
  <2> PICK c \in Commands : Receive(c)
    BY <1>3
  <2>1. pc' \in {"init", "block", "cmd6", "return"}
    BY CommandFields DEF Receive, First
  <2>2. type' \in {"none", "counter", "read", "write"}
    BY DEF Receive, FirstType
  <2>3. rpmb_key' \in {"zeros", "card"}
    BY CommandFields DEF Receive
  <2>4. trouble' \in BOOLEAN
    BY DEF Receive, FirstType
  <2>5. wc' \in 0..MaxCounter
    BY DEF Receive, OrigPayloadAssumption
  <2> QED BY <2>1, <2>2, <2>3, <2>4, <2>5 DEF Receive
<1>4. CASE Return
  <2>1. reply' = NoReply \/ reply' \in [what : {"ack"}] \cup [what : {"data"}, data : Data]
    BY <1>4 DEF Return, OrigPayloadAssumption
  <2> QED BY <1>4, <2>1 DEF Return
<1>5. CASE \E o \in Outcomes : InitCommand(o)
  <2>1. step' \in 1..13
    BY <1>5 DEF InitCommand
  <2>2. trouble' \in BOOLEAN
    BY <1>5 DEF InitCommand, Trouble
  <2> QED BY <1>5, <2>1, <2>2 DEF InitCommand
<1>6. CASE InitDone
  BY <1>6 DEF InitDone
<1>7. CASE \E o \in Outcomes : Cmd6(o)
  <2> PICK o \in Outcomes : Cmd6(o)
    BY <1>7
  <2>1. trouble' \in BOOLEAN /\ late' \in BOOLEAN /\ leftover' \in BOOLEAN
    BY DEF Cmd6, Trouble, Fails
  <2>2. /\ pc' \in {"status", "return"} /\ ret' \in {"none", "ok", "error"}
        /\ named' \in {User, Boot, Rpmb, Unknown}
    BY DEF Cmd6, Fails
  <2>3. UNCHANGED <<step, cmd, type, wc, reply, rpmb_key>>
    BY DEF Cmd6
  <2> QED BY <2>1, <2>2, <2>3
<1>8. CASE \E o \in Outcomes : Status(o)
  <2>1. Target \in {User, Boot, Rpmb}
    BY CommandFields DEF Target
  <2> PICK o \in Outcomes : Status(o)
    BY <1>8
  <2>2. trouble' \in BOOLEAN
    BY CardFields DEF Status, Trouble
  <2>3. late' \in BOOLEAN /\ leftover' \in BOOLEAN
    BY DEF Status, Fails
  <2>4. /\ pc' \in {"status", "return", "request"} /\ ret' \in {"none", "ok", "error"}
        /\ named' \in {User, Boot, Rpmb, Unknown}
    BY <2>1 DEF Status, Fails
  <2> QED BY <2>2, <2>3, <2>4 DEF Status
<1>9. CASE \E o \in Outcomes : BlockFails(o)
  BY <1>9 DEF BlockFails, Trouble
<1>10. CASE ReadBlock
  <2>1. reply' = NoReply \/ reply' \in [what : {"ack"}] \cup [what : {"data"}, data : Data]
    <3>1. \A d \in Data :
            [what |-> "data", data |-> d] \in [what : {"ack"}] \cup [what : {"data"}, data : Data]
      OBVIOUS
    <3>2. \/ reply' = reply
          \/ \E d \in Data : reply' = [what |-> "data", data |-> d]
      BY <1>10 DEF ReadBlock
    <3>3. CASE reply' = reply
      BY <3>3
    <3> QED BY <3>1, <3>2, <3>3
  <2>2. late' \in BOOLEAN /\ leftover' \in BOOLEAN /\ trouble' \in BOOLEAN
    BY <1>10 DEF ReadBlock, Trouble
  <2>3. ret' \in {"ok", "error"} /\ pc' = "return"
    BY <1>10 DEF ReadBlock
  <2> QED BY <1>10, <2>1, <2>2, <2>3 DEF ReadBlock
<1>11. CASE WriteBlock
  BY <1>11 DEF WriteBlock
<1>12. CASE \E o \in Outcomes : Request(o) \/ RequestResult(o)
  <2> PICK o \in Outcomes : Request(o) \/ RequestResult(o)
    BY <1>12
  <2>1. pc' \in {"result", "response", "return"} /\ ret' \in {"none", "ok", "error"}
    BY DEF Request, RequestResult, SendRequest, Fails
  <2>2. late' \in BOOLEAN /\ leftover' \in BOOLEAN /\ trouble' \in BOOLEAN
    BY DEF Request, RequestResult, SendRequest, Fails, Trouble
  <2>3. named' \in {User, Boot, Rpmb, Unknown}
    BY DEF Request, RequestResult, SendRequest, Fails
  <2> QED BY <2>1, <2>2, <2>3 DEF Request, RequestResult, SendRequest
<1>13. CASE \E o \in Outcomes : Response(o)
  <2> PICK o \in Outcomes : Response(o)
    BY <1>13
  <2>1. CASE Fails(o) /\ Trouble(TRUE) /\ UNCHANGED <<type, wc, reply>>
    BY <2>1 DEF Response, Fails, Trouble
  <2>2. CASE (\E f \in Frames : Received(f) /\ PostFrame(f)) /\ UNCHANGED named
    <3> PICK f \in Frames : Received(f) /\ PostFrame(f)
      BY <2>2
    <3>1. f.counter \in 0..MaxCounter /\ f.data \in Data
      BY DEF Frames
    <3>2. late' \in BOOLEAN /\ leftover' \in BOOLEAN /\ trouble' \in BOOLEAN
      BY DEF Received, Trouble
    <3>3. reply' = NoReply \/ reply' \in [what : {"ack"}] \cup [what : {"data"}, data : Data]
      BY <3>1 DEF PostFrame, GotCount, GotData, GotResult
    <3>4. /\ wc' \in 0..MaxCounter /\ type' \in {"none", "counter", "read", "write"}
          /\ pc' \in {"cmd6", "return"} /\ ret' \in {"none", "ok", "error"}
      BY <3>1 DEF PostFrame, GotCount, GotData, GotResult
    <3> QED BY <2>2, <3>2, <3>3, <3>4 DEF Response
  <2> QED BY <2>1, <2>2 DEF Response
<1>14. CASE CardReady
  BY <1>14 DEF CardReady
<1> QED
  BY <1>1, <1>2, <1>3, <1>4, <1>5, <1>6, <1>7, <1>8, <1>9, <1>10, <1>11, <1>12, <1>13, <1>14
  DEF Next, Step

\* What is kept of the card when a command comes.
LEMMA BeforeStep == ASSUME OrigPayloadAssumption, IInv, Next PROVE before' \in Before
<1>0. card \in Cards /\ before \in Before
  BY DEF IInv, TypeOK, Before
<1>1. CASE \E c \in Commands : Receive(c)
  BY <1>0, <1>1, CardFields DEF Receive, Before
<1>2. CASE ~\E c \in Commands : Receive(c)
  <2>1. before' = before
    BY <1>2 DEF Next, Step, Load, Stop, Return, InitCommand, InitDone, Cmd6, Status, BlockFails,
                ReadBlock, WriteBlock, Request, RequestResult, SendRequest, Response, CardReady
  <2> QED BY <1>0, <2>1
<1> QED BY <1>1, <1>2

\* Only a write request changes the RPMB, and it is on its way once.
LEMMA OnceStep == ASSUME OrigPayloadAssumption, IInv, Next PROVE OnceInv' /\ WriteOnce'
<1>0. card \in Cards /\ cmd \in Commands
  BY DEF IInv, TypeOK
<1> DEFINE Kept == card'.rpmb = card.rpmb /\ card'.counter = card.counter
<1> USE DEF IInv, OnceInv, WriteOnce, Unwritten
<1>1. CASE Load
  <2>1. Kept
    BY <1>0, <1>1 DEF Load, Cards
  <2> QED BY <1>1, <2>1 DEF Load
<1>2. CASE Stop \/ Return \/ InitDone
  BY <1>2 DEF Stop, Return, InitDone
<1>3. CASE \E c \in Commands : Receive(c)
  <2> PICK c \in Commands : Receive(c)
    BY <1>3
  <2>1. card'.rpmb = before'.rpmb /\ card'.counter = before'.counter
    BY DEF Receive, FirstType
  <2>2. cmd' = c /\ pc' = First(c) /\ c \in Commands /\ before'.counter = card.counter
    BY DEF Receive, FirstType
  <2>3. /\ c.op = "rpmb_read" <=> type' = "read"
        /\ c.op = "rpmb_write" <=> type' = "counter"
        /\ type' # "write"
    BY DEF Receive, FirstType
  <2>4. c.op = "rpmb_write" => before'.counter < MaxCounter
    BY <2>2 DEF Receive
  <2>5. /\ pc' = "init" => c.op = "init"
        /\ pc' = "block" /\ c.op # "read" => c.op = "write"
        /\ pc' \in {"cmd6", "status"} /\ type' = "none" => c.op = "part"
        /\ pc' # "request"
    BY <2>2, <2>3, CommandFields DEF First
  <2> QED BY <2>1, <2>2, <2>3, <2>4, <2>5
<1>4. CASE \E o \in Outcomes : InitCommand(o)
  <2>1. Kept
    BY <1>0, <1>4 DEF InitCommand, Cards
  <2> QED BY <1>4, <2>1 DEF InitCommand
<1>5. CASE \E o \in Outcomes : Cmd6(o)
  <2>1. Kept
    BY <1>0, <1>5 DEF Cmd6, Cards
  <2>2. pc' \in {"status", "return"} /\ pc = "cmd6" /\ UNCHANGED <<cmd, type, before>>
    BY <1>5 DEF Cmd6, Fails
  <2> QED BY <2>1, <2>2
<1>6. CASE \E o \in Outcomes : Status(o)
  <2>1. pc = "status" /\ UNCHANGED <<cmd, type, before, card>>
    BY <1>6 DEF Status
  <2>2. pc' \in {"status", "return"} \/ (pc' = "request" /\ cmd.op # "part")
    BY <1>6 DEF Status, Fails
  <2> QED BY <2>1, <2>2
<1>7. CASE \E o \in Outcomes : BlockFails(o)
  <2>1. Kept
    BY <1>0, <1>7 DEF BlockFails, Cards
  <2> QED BY <1>7, <2>1 DEF BlockFails
<1>8. CASE ReadBlock
  BY <1>8 DEF ReadBlock
<1>9. CASE WriteBlock
  <2>1. Kept
    BY <1>0, <1>9 DEF WriteBlock, Cards
  <2> QED BY <1>9, <2>1 DEF WriteBlock
<1>10. CASE \E o \in Outcomes : Request(o)
  <2>1. pc = "request" /\ Unwritten /\ UNCHANGED <<cmd, type, before>>
        /\ pc' \in {"result", "response", "return"}
    BY <1>10 DEF Request, SendRequest, Fails
  <2>2. \/ Kept
        \/ card' = CardAfter(PreFrame(type))
    BY <1>0, <1>10 DEF Request, SendRequest, Cards
  <2>3. CASE Kept
    BY <2>1, <2>3
  <2>4. CASE card' = CardAfter(PreFrame(type)) /\ type # "write"
    <3>1. Kept
      BY <1>0, <2>1, <2>4, PreFrameTyped DEF CardAfter, Cards
    <3> QED BY <2>1, <3>1
  <2>5. CASE card' = CardAfter(PreFrame(type)) /\ type = "write"
    <3> DEFINE f == PreFrame(type)
    <3>1. f.type = "write" /\ f.addr = 0 /\ f.data = cmd.data
      BY <2>1, <2>5, PreFrameTyped
    <3> HIDE DEF f
    <3>2. \/ Kept
          \/ card'.rpmb = [card.rpmb EXCEPT ![0] = cmd.data] /\ card'.counter = card.counter + 1
      BY <1>0, <2>5, <3>1 DEF CardAfter, Cards, f
    <3>3. cmd.op = "rpmb_write"
      BY <2>5
    <3> QED BY <2>1, <2>5, <3>2, <3>3
  <2> QED BY <2>2, <2>3, <2>4, <2>5
<1>11. CASE \E o \in Outcomes : RequestResult(o)
  <2>1. CardAfter([type |-> "result"]).rpmb = card.rpmb
        /\ CardAfter([type |-> "result"]).counter = card.counter
    BY <1>0 DEF CardAfter, Cards
  <2>2. Kept
    BY <1>0, <1>11, <2>1 DEF RequestResult, SendRequest, Cards
  <2>3. pc = "result" /\ pc' \in {"response", "return"} /\ UNCHANGED <<cmd, type, before>>
    BY <1>11 DEF RequestResult, SendRequest, Fails
  <2> QED BY <2>2, <2>3
<1>12. CASE \E o \in Outcomes : Response(o)
  <2>1. pc = "response" /\ UNCHANGED <<cmd, before, card>>
    BY <1>12 DEF Response
  <2>2. \/ pc' = "return" /\ type' = type
        \/ pc' = "cmd6" /\ type = "counter" /\ type' = "write"
    BY <1>12 DEF Response, Fails, PostFrame, GotCount, GotData, GotResult
  <2> QED BY <2>1, <2>2
<1>13. CASE CardReady
  <2>1. Kept
    BY <1>0, <1>13 DEF CardReady, Cards
  <2> QED BY <1>13, <2>1 DEF CardReady
<1> QED
  BY <1>1, <1>2, <1>3, <1>4, <1>5, <1>6, <1>7, <1>8, <1>9, <1>10, <1>11, <1>12, <1>13
  DEF Next, Step

\* The first states satisfy the invariant.
LEMMA InitInvariant == ASSUME OrigPayloadAssumption, Init PROVE IInv
<1> USE DEF Init, OrigPayloadAssumption
<1>1. Cleared \in Frames
  BY DEF Cleared, Frames
<1>2. card \in Cards
  BY <1>1 DEF Cards
<1>3. before \in Before /\ Unwritten
  <2>1. card.rpmb = [a \in RpmbAddrs |-> Zeros] /\ card.counter = 0
    OBVIOUS
  <2>2. before.rpmb = card.rpmb /\ before.counter = 0
    OBVIOUS
  <2> QED BY <2>1, <2>2 DEF Before, Unwritten
<1>4. cmd \in Commands
  BY DEF Commands
<1>5. TypeOK
  <2>1. wc \in 0..MaxCounter /\ step \in 1..13
    OBVIOUS
  <2>2. pc = "down" /\ type = "none" /\ ret = "none" /\ reply = NoReply /\ rpmb_key = "zeros"
          /\ late = FALSE /\ leftover = FALSE /\ trouble = FALSE /\ named = Unknown
    OBVIOUS
  <2> HIDE DEF Init
  <2>3. before \in [rpmb : [RpmbAddrs -> Data], counter : 0..MaxCounter]
    BY <1>3 DEF Before
  <2> QED BY <1>2, <1>4, <2>1, <2>2, <2>3 DEF TypeOK
<1>6. OnceInv /\ WriteOnce
  BY <1>3 DEF OnceInv, WriteOnce, Unwritten
<1> QED BY <1>5, <1>6 DEF IInv

\* The invariant holds for ever.
LEMMA Invariant == ASSUME OrigPayloadAssumption PROVE Spec => []IInv
<1>1. Init => IInv
  BY InitInvariant
<1>2. IInv /\ Next => TypeOK'
  <2> SUFFICES ASSUME IInv, Next PROVE TypeOK'
    OBVIOUS
  <2>1. ControlOK' /\ card' \in Cards /\ before' \in Before
    BY ControlStep, CardStep, BeforeStep
  <2> QED BY <2>1 DEF ControlOK, Before, TypeOK
<1>3. IInv /\ Next => IInv'
  BY <1>2, OnceStep DEF IInv
<1>4. IInv /\ UNCHANGED vars => IInv'
  <2> SUFFICES ASSUME IInv, UNCHANGED vars PROVE IInv'
    OBVIOUS
  <2>1. TypeOK'
    BY DEF vars, fifo, IInv, TypeOK
  <2>2. OnceInv' /\ WriteOnce'
    BY DEF vars, IInv, OnceInv, WriteOnce, Unwritten
  <2> QED BY <2>1, <2>2 DEF IInv
<1> QED BY <1>1, <1>3, <1>4, PTL DEF Spec

\* The payload and the card are well-typed in every state, for any contents of blocks and
\* any bound of the counter.
THEOREM TypeCorrect == Spec => []TypeOK
<1>1. IInv => TypeOK BY DEF IInv
<1> QED BY <1>1, Invariant, OrigPayloadAssumption, PTL

\* However commands, answers and data phases are lost, and wherever the payload is stopped,
\* one 0x2001 writes the RPMB at most once, with its own data.
THEOREM WritesAreExecutedOnce == Spec => []WriteOnce
<1>1. IInv => WriteOnce BY DEF IInv
<1> QED BY <1>1, Invariant, OrigPayloadAssumption, PTL

-----------------------------------------------------------------------------
(* What the host may believe.  The card has the partition named last, or   *)
(* that of the RPMB, except while 0x1002 or 0x6000 switches; what a        *)
(* command has read or written is known from the step that did it until    *)
(* the next command comes.                                                 *)

Working == {"init", "cmd6", "status", "block", "request", "result", "response"}

PartInv ==
  /\ pc \notin {"down", "init"} /\ named # Unknown =>
       card.part \in {named, Rpmb} \/ (pc = "status" /\ cmd.op = "part")
  /\ pc = "status" /\ cmd.op = "part" /\ ~card.switchError => card.part = Target
  /\ pc = "init" /\ step > 1 /\ ~trouble => card.part = User

BlockInv ==
  /\ pc \in Working \cup {"down"} => reply = NoReply
  /\ pc \in Working \ {"block"} => cmd.op \notin {"read", "write"}
  /\ ~trouble /\ cmd.op = "read" /\ pc \in {"return", "loop"} /\ reply # NoReply =>
       /\ card.part # Rpmb
       /\ reply = [what |-> "data", data |-> card.blocks[card.part]]
  /\ cmd.op = "write"
       /\ ((pc = "return" /\ ret = "ok") \/ (pc = "loop" /\ reply # NoReply)) =>
       card.part # Rpmb /\ (card.blocks[card.part] = cmd.data \/ late)
  /\ cmd.op = "write" /\ pc = "return" => reply = NoReply

\* No read is untroubled that may take the words of another.
LeftInv == leftover /\ Reads(cmd) => trouble

\* A request and its response belong together.
AnswerInv ==
  /\ pc = "result" => type = "write"
  /\ ~trouble =>
     /\ pc = "down" => cmd.op = "init"
     /\ pc = "response" /\ type = "read" => card.answer.data = card.rpmb[cmd.addr]
     /\ pc = "response" /\ type = "counter" => card.answer.counter = card.counter
     /\ type = "write" /\ pc \in {"cmd6", "status", "request"} => wc = card.counter
     /\ cmd.op = "rpmb_read" /\ pc \in {"return", "loop"} =>
          reply = [what |-> "data", data |-> card.rpmb[cmd.addr]]
     /\ cmd.op = "rpmb_write" /\ rpmb_key = "card"
          /\ (pc \in {"result", "return", "loop"} \/ (pc = "response" /\ type = "write")) =>
          card.rpmb[0] = cmd.data

TruthInv == PartInv /\ BlockInv /\ LeftInv /\ AnswerInv

\* What an update of the card leaves alone.
LEMMA CardUpdates ==
  ASSUME NEW c \in Cards, NEW s, NEW p, NEW e
  PROVE  /\ LET d == [c EXCEPT !.state = s]
            IN /\ d.part = c.part /\ d.switchError = c.switchError /\ d.blocks = c.blocks
               /\ d.rpmb = c.rpmb /\ d.counter = c.counter /\ d.answer = c.answer
         /\ LET d == [c EXCEPT !.state = s, !.part = p]
            IN /\ d.part = p /\ d.blocks = c.blocks /\ d.rpmb = c.rpmb
               /\ d.counter = c.counter /\ d.answer = c.answer
         /\ LET d == [c EXCEPT !.part = p, !.switchError = e, !.state = s]
            IN /\ d.part = p /\ d.switchError = e /\ d.blocks = c.blocks /\ d.rpmb = c.rpmb
               /\ d.counter = c.counter /\ d.answer = c.answer
BY DEF Cards

\* The card has the partition that was named last, or that of the RPMB.
LEMMA PartStep == ASSUME IInv, PartInv, Next PROVE PartInv'
<1>0. card \in Cards /\ cmd \in Commands
  BY DEF IInv, TypeOK
<1> USE DEF PartInv
<1>1. CASE Load \/ Stop
  BY <1>1 DEF Load, Stop
<1>2. CASE Return
  BY <1>2 DEF Return
<1>3. CASE \E c \in Commands : Receive(c)
  <2> PICK c \in Commands : Receive(c)
    BY <1>3
  <2>1. /\ pc = "loop" /\ step' = 1 /\ UNCHANGED <<named, card>>
        /\ pc' \in {"init", "block", "cmd6", "return"}
    BY CommandFields DEF Receive, First
  <2> QED BY <2>1
<1>4. CASE \E o \in Outcomes : InitCommand(o)
  <2> PICK o \in Outcomes : InitCommand(o)
    BY <1>4
  <2>1. pc = "init" /\ pc' = "init" /\ step \in 1..12 /\ step' = step + 1
          /\ trouble' = (trouble \/ o # "ok")
    BY DEF InitCommand, Trouble, IInv, TypeOK
  <2>2. ASSUME ~trouble' PROVE card'.part = User
    <3> DEFINE c == InitSequence[step]
               user == IF c = "0" THEN User ELSE card.part
    <3>1. card' = [card EXCEPT !.state = LeadsTo(c), !.part = user]
      BY <2>1, <2>2 DEF InitCommand
    <3>2. card'.part = user
      BY <1>0, <3>1, CardUpdates
    <3>3. step = 1 => c = "0"
      BY DEF InitSequence
    <3>4. ~trouble
      BY <2>1, <2>2
    <3>5. step = 1 \/ step > 1
      BY <2>1
    <3>6. user = User
      BY <2>1, <3>3, <3>4, <3>5
    <3> QED BY <3>2, <3>6
  <2> QED BY <2>1, <2>2
<1>5. CASE InitDone
  BY <1>5 DEF InitDone
<1>6. CASE \E o \in Outcomes : Cmd6(o)
  <2> PICK o \in Outcomes : Cmd6(o)
    BY <1>6
  <2>1. pc = "cmd6" /\ cmd' = cmd /\ Target' = Target /\ pc' \in {"status", "return"}
    BY DEF Cmd6, Fails, Target
  <2>2. CASE card' = card
    <3>1. o # "ok" => pc' = "return" /\ named' = IF cmd.op = "part" THEN Unknown ELSE named
      BY DEF Cmd6, Fails
    <3>2. o # "ok" \/ \E refused \in BOOLEAN :
            card' = [card EXCEPT !.part = IF refused THEN card.part ELSE Target,
                                 !.switchError = refused, !.state = "prg"]
      BY DEF Cmd6
    <3>3. o = "ok" => card'.state = "prg" /\ card.state = "tran"
      BY <1>0, <3>2 DEF Cmd6, Sends, InTran, Cards
    <3>4. o # "ok"
      BY <2>2, <3>3
    <3> QED BY <2>1, <2>2, <3>1, <3>4
  <2>3. CASE \E refused \in BOOLEAN :
               card' = [card EXCEPT !.part = IF refused THEN card.part ELSE Target,
                                    !.switchError = refused, !.state = "prg"]
    <3>1. PICK refused \in BOOLEAN :
            card' = [card EXCEPT !.part = IF refused THEN card.part ELSE Target,
                                 !.switchError = refused, !.state = "prg"]
      BY <2>3
    <3>2. card'.part = (IF refused THEN card.part ELSE Target) /\ card'.switchError = refused
      BY <1>0, <3>1, CardUpdates
    <3>3. CASE cmd.op = "part"
      <4>1. pc' = "status" \/ named' = Unknown
        BY <3>3 DEF Cmd6, Fails
      <4> QED BY <2>1, <3>2, <3>3, <4>1
    <3>4. CASE cmd.op # "part"
      <4>1. named' = named /\ Target = Rpmb
        BY <3>4 DEF Cmd6, Fails, Target
      <4> QED BY <2>1, <3>2, <3>4, <4>1
    <3> QED BY <3>3, <3>4
  <2> QED BY <2>2, <2>3 DEF Cmd6
<1>7. CASE \E o \in Outcomes : Status(o)
  <2>1. pc = "status" /\ UNCHANGED <<card, cmd>> /\ Target' = Target
    BY <1>7 DEF Status, Target
  <2>2. CASE cmd.op = "part"
    <3>1. \/ pc' = "status" /\ named' = named
          \/ named' = Unknown /\ pc' = "return"
          \/ ~card.switchError /\ named' = Target /\ pc' = "return"
      BY <1>7, <2>2 DEF Status, Fails
    <3> QED BY <2>1, <2>2, <3>1
  <2>3. CASE cmd.op # "part"
    <3>1. named' = named /\ pc' \in {"status", "return", "request"}
      BY <1>7, <2>3 DEF Status, Fails
    <3> QED BY <2>1, <2>3, <3>1
  <2> QED BY <2>2, <2>3
<1>8. CASE \/ \E o \in Outcomes : BlockFails(o) \/ Request(o) \/ RequestResult(o) \/ Response(o)
           \/ ReadBlock \/ WriteBlock
  <2>1. card'.part = card.part
    <3>1. CASE \E o \in Outcomes : BlockFails(o)
      BY <1>0, <3>1, CardUpdates DEF BlockFails
    <3>2. CASE WriteBlock
      BY <1>0, <3>2 DEF WriteBlock, Cards
    <3>3. CASE \E o \in Outcomes : Request(o) \/ RequestResult(o)
      <4>1. ASSUME NEW f, f.type \in {"counter", "read", "result", "write"}
            PROVE  CardAfter(f).part = card.part
        BY <1>0, <4>1 DEF CardAfter, Cards
      <4>2. pc = "request" => PreFrame(type).type \in {"counter", "read", "result", "write"}
        BY PreFrameTyped, OrigPayloadAssumption
      <4>3. [card EXCEPT !.state = "rcv"].part = card.part
        BY <1>0, CardUpdates
      <4>4. PICK o \in Outcomes : Request(o) \/ RequestResult(o)
        BY <3>3
      <4>5. CASE Request(o)
        <5>1. CardAfter(PreFrame(type)).part = card.part
          BY <4>1, <4>2, <4>5 DEF Request
        <5>2. card' \in {card, [card EXCEPT !.state = "rcv"], CardAfter(PreFrame(type))}
          BY <4>5 DEF Request, SendRequest
        <5> QED BY <4>3, <5>1, <5>2
      <4>6. CASE RequestResult(o)
        <5>1. CardAfter([type |-> "result"]).part = card.part
          BY <4>1
        <5>2. card' \in {card, [card EXCEPT !.state = "rcv"], CardAfter([type |-> "result"])}
          BY <4>6 DEF RequestResult, SendRequest
        <5> QED BY <4>3, <5>1, <5>2
      <4> QED BY <4>4, <4>5, <4>6
    <3>4. CASE ReadBlock \/ \E o \in Outcomes : Response(o)
      BY <3>4 DEF ReadBlock, Response
    <3> QED BY <1>8, <3>1, <3>2, <3>3, <3>4
  <2>2. /\ pc \in {"block", "request", "result", "response"}
        /\ pc' \in {"return", "result", "response", "cmd6"}
        /\ named' \in {named, Unknown}
    BY <1>8 DEF BlockFails, Request, RequestResult, Response, SendRequest, Fails, ReadBlock,
       WriteBlock, PostFrame, GotCount, GotData, GotResult
  <2> QED BY <2>1, <2>2
<1>9. CASE CardReady
  <2>1. card'.part = card.part /\ card'.switchError = card.switchError
    BY <1>0, <1>9, CardUpdates DEF CardReady
  <2>2. UNCHANGED <<pc, step, cmd, trouble, named>> /\ Target' = Target
    BY <1>9 DEF CardReady, Target
  <2> QED BY <2>1, <2>2
<1> QED
  BY <1>1, <1>2, <1>3, <1>4, <1>5, <1>6, <1>7, <1>8, <1>9 DEF Next, Step

\* What was read was in the block and what was acknowledged is.
LEMMA BlockStep == ASSUME IInv, BlockInv, LeftInv, Next PROVE BlockInv'
<1>0. card \in Cards /\ cmd \in Commands
  BY DEF IInv, TypeOK
<1> USE DEF BlockInv, fifo
<1>1. CASE Stop
  BY <1>1 DEF Stop, Working
<1>2. CASE Load
  <2>1. pc = "down" /\ pc' = "loop" /\ reply' = reply
    BY <1>2 DEF Load
  <2> QED BY <2>1 DEF Working
<1>3. CASE \E c \in Commands : Receive(c)
  <2>1. /\ reply' = NoReply /\ ret' = "none" /\ pc' # "loop"
        /\ cmd'.op \in {"read", "write"} => pc' = "block"
    BY <1>3, CommandFields DEF Receive, First
  <2> QED BY <2>1
<1>4. CASE Return
  <2>1. pc = "return" /\ pc' = "loop" /\ UNCHANGED <<cmd, ret, late, card, trouble>>
    BY <1>4 DEF Return
  <2>2. cmd.op = "read" => reply' = reply
    BY <1>4 DEF Return
  <2>3. cmd.op = "write" /\ reply' # NoReply => ret = "ok"
    BY <1>4, <2>1 DEF Return
  <2> QED BY <2>1, <2>2, <2>3 DEF Working
<1>5. CASE ReadBlock
  <2>1. pc = "block" /\ cmd.op = "read" /\ pc' = "return" /\ UNCHANGED <<cmd, card>>
    BY <1>5 DEF ReadBlock
  <2>2. \/ reply' = [what |-> "data", data |-> card.blocks[card.part]]
        \/ reply' = reply
        \/ trouble'
        \/ leftover /\ trouble' = (trouble \/ FALSE)
    BY <1>5 DEF ReadBlock, Trouble
  <2>3. leftover => trouble
    BY <2>1 DEF LeftInv, Reads
  <2>4. card.part # Rpmb
    BY <1>5 DEF ReadBlock, Sends, BlockTaken
  <2> QED BY <2>1, <2>2, <2>3, <2>4 DEF Working
<1>6. CASE WriteBlock
  <2>1. /\ pc = "block" /\ cmd.op = "write" /\ pc' = "return" /\ UNCHANGED <<cmd, reply>>
        /\ card.part \in {User, Boot} /\ card.part # Rpmb
    BY <1>0, <1>6, CardFields DEF WriteBlock, Sends, BlockTaken, Outcomes
  <2>2. card' = [card EXCEPT !.blocks[card.part] = cmd.data] \/ late'
    BY <1>6 DEF WriteBlock
  <2>3. ASSUME card' = [card EXCEPT !.blocks[card.part] = cmd.data]
        PROVE  card'.part = card.part /\ card'.blocks[card'.part] = cmd.data
    <3>1. card'.part = card.part /\ card'.blocks = [card.blocks EXCEPT ![card.part] = cmd.data]
      BY <1>0, <2>3 DEF Cards
    <3>2. card.blocks \in [{User, Boot} -> Data]
      BY <1>0, CardFields
    <3> QED BY <2>1, <3>1, <3>2
  <2>4. card' = [card EXCEPT !.blocks[card.part] = cmd.data] \/ card' = card
    BY <1>6 DEF WriteBlock
  <2> QED BY <2>1, <2>2, <2>3, <2>4 DEF Working
<1>7. CASE \/ InitDone
           \/ \E o \in Outcomes : \/ InitCommand(o) \/ Cmd6(o) \/ Status(o)
                                \/ Request(o) \/ RequestResult(o) \/ Response(o)
  <2>1. /\ pc \in Working \ {"block"} /\ cmd' = cmd
        /\ \/ pc' \in Working /\ reply' = reply
           \/ pc' = "return"
    <3>1. CASE InitDone \/ \E o \in Outcomes : InitCommand(o) \/ Cmd6(o) \/ Status(o)
      BY <3>1 DEF InitDone, InitCommand, Cmd6, Status, Fails, Working
    <3>2. CASE \E o \in Outcomes : Request(o) \/ RequestResult(o)
      BY <3>2 DEF Request, RequestResult, SendRequest, Fails, Working
    <3>3. CASE \E o \in Outcomes : Response(o)
      BY <3>3 DEF Response, Fails, PostFrame, GotCount, GotData, GotResult, Working
    <3> QED BY <1>7, <3>1, <3>2, <3>3
  <2>2. cmd.op \notin {"read", "write"}
    BY <2>1
  <2> QED BY <2>1, <2>2 DEF Working
<1>8. CASE \E o \in Outcomes : BlockFails(o)
  <2>1. pc = "block" /\ pc' = "return" /\ ret' = "error" /\ UNCHANGED <<cmd, reply>>
    BY <1>8 DEF BlockFails
  <2> QED BY <2>1 DEF Working
<1>9. CASE CardReady
  <2>1. card'.blocks = card.blocks /\ card'.part = card.part
    BY <1>0, <1>9, CardUpdates DEF CardReady
  <2>2. UNCHANGED <<pc, cmd, ret, reply, late, trouble>>
    BY <1>9 DEF CardReady
  <2> QED BY <2>1, <2>2
<1> QED
  BY <1>1, <1>2, <1>3, <1>4, <1>5, <1>6, <1>7, <1>8, <1>9 DEF Next, Step

\* A read that breaks off is in trouble itself, and whatever is to read after it.
LEMMA LeftStep == ASSUME IInv, LeftInv, Next PROVE LeftInv'
<1> USE DEF LeftInv, fifo, ResetHw
<1>0. trouble \in BOOLEAN /\ late \in BOOLEAN /\ leftover \in BOOLEAN
  BY DEF IInv, TypeOK
<1>1. CASE Load \/ Stop \/ InitDone \/ \E o \in Outcomes : InitCommand(o) \/ BlockFails(o)
  BY <1>1 DEF Load, Stop, InitDone, InitCommand, BlockFails
<1>2. CASE \E c \in Commands : Receive(c)
  <2> PICK c \in Commands : Receive(c)
    BY <1>2
  <2>1. cmd' = c /\ leftover' = leftover
    BY DEF Receive
  <2>2. leftover /\ Reads(c) => trouble'
    BY DEF Receive, Reads
  <2> QED BY <2>1, <2>2 DEF Reads
<1>3. CASE Return \/ CardReady
  BY <1>3 DEF Return, CardReady, Reads
<1>4. CASE \E o \in Outcomes : Cmd6(o) \/ Status(o)
  <2>1. cmd' = cmd
    BY <1>4 DEF Cmd6, Status
  <2>2. leftover' => leftover
    BY <1>0, <1>4 DEF Cmd6, Status, Fails
  <2>3. trouble => trouble'
    BY <1>0, <1>4 DEF Cmd6, Status, Trouble
  <2> QED BY <2>1, <2>2, <2>3 DEF Reads
<1>5. CASE ReadBlock \/ WriteBlock
  <2>1. cmd' = cmd
    BY <1>5 DEF ReadBlock, WriteBlock
  <2>2. leftover' => leftover \/ trouble'
    BY <1>0, <1>5 DEF ReadBlock, WriteBlock, Trouble
  <2>3. trouble => trouble'
    BY <1>0, <1>5 DEF ReadBlock, WriteBlock, Trouble
  <2> QED BY <2>1, <2>2, <2>3 DEF Reads
<1>6. CASE \E o \in Outcomes : Request(o) \/ RequestResult(o)
  <2>1. cmd' = cmd
    BY <1>6 DEF Request, RequestResult, SendRequest
  <2>2. leftover' => leftover
    BY <1>0, <1>6 DEF Request, RequestResult, SendRequest, Fails
  <2>3. trouble => trouble'
    BY <1>0, <1>6 DEF Request, RequestResult, SendRequest, Trouble
  <2> QED BY <2>1, <2>2, <2>3 DEF Reads
<1>7. CASE \E o \in Outcomes : Response(o)
  <2>1. cmd' = cmd
    BY <1>7 DEF Response
  <2>2. leftover' => leftover \/ trouble'
    BY <1>0, <1>7 DEF Response, Fails, Received, Trouble
  <2>3. trouble => trouble'
    BY <1>0, <1>7 DEF Response, Received, Trouble
  <2> QED BY <2>1, <2>2, <2>3 DEF Reads
<1> QED BY <1>1, <1>2, <1>3, <1>4, <1>5, <1>6, <1>7 DEF Next, Step

\* An untroubled exchange of RPMB frames ends with what the card has said of it.
LEMMA AnswerStep ==
  ASSUME OrigPayloadAssumption, IInv, LeftInv, AnswerInv, Next PROVE AnswerInv'
<1>0. card \in Cards /\ cmd \in Commands /\ OnceInv
  BY DEF IInv, TypeOK
<1>b. trouble \in BOOLEAN
  BY DEF IInv, TypeOK
<1> DEFINE Kept == /\ card'.rpmb = card.rpmb /\ card'.counter = card.counter
                   /\ card'.answer = card.answer
<1> USE DEF AnswerInv
<1>1. CASE Load
  <2>1. pc = "down" /\ pc' = "loop" /\ UNCHANGED <<cmd, trouble>>
    BY <1>1 DEF Load
  <2> QED BY <2>1
<1>2. CASE Stop
  BY <1>2 DEF Stop
<1>3. CASE \E c \in Commands : Receive(c)
  <2> PICK c \in Commands : Receive(c)
    BY <1>3
  <2>1. /\ cmd' = c /\ type' # "write" /\ pc' \in {"init", "block", "cmd6", "return"}
        /\ c.op \in {"rpmb_read", "rpmb_write"} => pc' = "cmd6"
    BY CommandFields DEF Receive, First, FirstType
  <2> QED BY <2>1
<1>4. CASE Return
  <2>1. /\ pc = "return" /\ pc' = "loop"
        /\ UNCHANGED <<cmd, type, rpmb_key, card, trouble>>
    BY <1>4 DEF Return
  <2>2. cmd.op = "rpmb_read" /\ reply # NoReply => reply' = reply
    BY <1>4 DEF Return
  <2>3. \A d : [what |-> "data", data |-> d] # NoReply
    BY DEF NoReply
  <2> QED BY <2>1, <2>2, <2>3
<1>5. CASE InitDone \/ \E o \in Outcomes : InitCommand(o)
  <2>1. pc = "init" /\ pc' \in {"init", "return"} /\ UNCHANGED <<cmd, type>>
    BY <1>5 DEF InitDone, InitCommand
  <2>2. cmd.op = "init" /\ type # "write"
    BY <1>0, <2>1 DEF OnceInv
  <2> QED BY <2>1, <2>2
<1>6. CASE \E o \in Outcomes : Cmd6(o)
  <2> PICK o \in Outcomes : Cmd6(o)
    BY <1>6
  <2>1. pc = "cmd6" /\ UNCHANGED <<cmd, type, wc>> /\ trouble' = (trouble \/ o # "ok")
    BY DEF Cmd6, Trouble
  <2>2. CASE o = "ok"
    <3>1. card'.counter = card.counter
      BY <1>0, <2>2 DEF Cmd6, Cards
    <3>2. pc' = "status" /\ trouble' = trouble
      BY <2>2, <1>b DEF Cmd6, Trouble
    <3> QED BY <2>1, <3>1, <3>2
  <2>3. CASE o # "ok"
    <3>1. trouble' /\ pc' = "return"
      BY <2>1, <2>3 DEF Cmd6, Fails
    <3> QED BY <3>1
  <2> QED BY <2>2, <2>3
<1>7. CASE \E o \in Outcomes : Status(o)
  <2> PICK o \in Outcomes : Status(o)
    BY <1>7
  <2>1. pc = "status" /\ UNCHANGED <<cmd, type, wc, card>>
    BY DEF Status
  <2>2. trouble => trouble'
    BY DEF Status, Trouble
  <2>3. \/ pc' \in {"status", "request"}
        \/ pc' = "return" /\ cmd.op = "part"
        \/ pc' = "return" /\ trouble'
    BY DEF Status, Fails, Trouble
  <2> QED BY <2>1, <2>2, <2>3
<1>8. CASE ReadBlock \/ WriteBlock \/ \E o \in Outcomes : BlockFails(o)
  <2>1. pc = "block" /\ pc' = "return" /\ UNCHANGED <<cmd, type>>
    BY <1>8 DEF ReadBlock, WriteBlock, BlockFails
  <2>2. cmd.op \in {"read", "write"}
    BY <1>0, <2>1 DEF OnceInv
  <2> QED BY <2>1, <2>2
<1>9. CASE \E o \in Outcomes : Request(o)
  <2> DEFINE f == PreFrame(type)
  <2>1. /\ pc = "request" /\ UNCHANGED <<cmd, type, reply, rpmb_key>>
        /\ f.type = type /\ type \in {"counter", "read", "write"}
    BY <1>9, PreFrameTyped DEF Request, SendRequest
  <2>2. \/ trouble' /\ pc' = "return"
        \/ /\ pc' = IF type = "write" THEN "result" ELSE "response"
           /\ trouble' \/ (card' = CardAfter(f) /\ trouble' = (trouble \/ FALSE))
    BY <1>9 DEF Request, SendRequest, Fails, Trouble
  <2>3. CASE trouble'
    BY <2>1, <2>2, <2>3
  <2>4. CASE ~trouble'
    <3>1. card' = CardAfter(f) /\ ~trouble /\ pc' = IF type = "write" THEN "result" ELSE "response"
      BY <2>2, <2>4
    <3>2. CASE type = "read"
      <4>1. f.addr = cmd.addr
        BY <3>2 DEF PreFrame
      <4>2. cmd.op = "rpmb_read"
        BY <1>0, <3>2 DEF OnceInv
      <4> HIDE DEF f
      <4>3. card'.rpmb = card.rpmb /\ card'.answer.data = card.rpmb[cmd.addr]
        <5>1. f.type = "read"
          BY <2>1, <3>2
        <5>2. CardAfter(f).rpmb = card.rpmb /\ CardAfter(f).answer.data = card.rpmb[f.addr]
          BY <1>0, <5>1 DEF CardAfter, Answer, Cards
        <5> QED BY <3>1, <4>1, <5>2
      <4> QED BY <2>1, <3>1, <3>2, <4>2, <4>3
    <3>3. CASE type = "counter"
      <4> HIDE DEF f
      <4>1. card'.counter = card.counter /\ card'.answer.counter = card.counter
        <5>1. f.type = "counter"
          BY <2>1, <3>3
        <5>2. CardAfter(f).counter = card.counter /\ CardAfter(f).answer.counter = card.counter
          BY <1>0, <5>1 DEF CardAfter, Answer, Cards
        <5> QED BY <3>1, <5>2
      <4> QED BY <2>1, <3>1, <3>3, <4>1
    <3>4. CASE type = "write"
      <4>1. f.mac = rpmb_key /\ f.counter = wc /\ f.addr = 0 /\ f.data = cmd.data
        BY <3>4 DEF PreFrame
      <4>2. wc = card.counter
        BY <2>1, <3>1, <3>4
      <4> HIDE DEF f
      <4>3. ASSUME rpmb_key = "card" PROVE card'.rpmb[0] = cmd.data
        <5>1. card'.rpmb = [card.rpmb EXCEPT ![0] = cmd.data]
          BY <1>0, <2>1, <3>1, <3>4, <4>1, <4>2, <4>3 DEF CardAfter, Cards
        <5>2. card.rpmb \in [RpmbAddrs -> Data]
          BY <1>0, CardFields
        <5> QED BY <5>1, <5>2 DEF RpmbAddrs
      <4>4. pc' = "result"
        BY <3>1, <3>4
      <4> QED BY <2>1, <3>4, <4>3, <4>4
    <3> QED BY <2>1, <3>2, <3>3, <3>4
  <2> QED BY <2>3, <2>4
<1>10. CASE \E o \in Outcomes : RequestResult(o)
  <2> DEFINE f == [type |-> "result"]
  <2>1. pc = "result" /\ type = "write" /\ UNCHANGED <<cmd, type, reply, rpmb_key>>
    BY <1>10 DEF RequestResult, SendRequest
  <2>2. \/ trouble' /\ pc' = "return"
        \/ /\ pc' = "response"
           /\ trouble' \/ (card' = CardAfter(f) /\ trouble' = (trouble \/ FALSE))
    BY <1>10 DEF RequestResult, SendRequest, Fails, Trouble
  <2>3. CASE trouble'
    BY <2>1, <2>2, <2>3
  <2>4. CASE ~trouble'
    <3>1. card' = CardAfter(f) /\ ~trouble /\ pc' = "response"
      BY <2>2, <2>4
    <3>2. CardAfter(f).rpmb = card.rpmb
      BY <1>0 DEF CardAfter, Answer, Cards
    <3> QED BY <2>1, <3>1, <3>2
  <2> QED BY <2>3, <2>4
<1>11. CASE \E o \in Outcomes : Response(o)
  <2> PICK o \in Outcomes : Response(o)
    BY <1>11
  <2>1. pc = "response" /\ UNCHANGED <<cmd, card, rpmb_key>>
    BY DEF Response
  <2>2. CASE Fails(o) /\ Trouble(TRUE)
    <3>1. trouble' /\ pc' = "return"
      BY <2>2 DEF Fails, Trouble
    <3> QED BY <3>1
  <2>3. CASE \E f \in Frames : Received(f) /\ PostFrame(f)
    <3> PICK f \in Frames : Received(f) /\ PostFrame(f)
      BY <2>3
    <3>1. pc' \in {"cmd6", "return"}
      BY DEF PostFrame, GotCount, GotData, GotResult
    <3>2. trouble' \/ (f = card.answer /\ trouble' = (trouble \/ FALSE))
      <4>1. type \in {"counter", "read", "write"}
        BY DEF PostFrame, GotCount, GotData, GotResult
      <4>2. leftover => trouble
        BY <1>0, <4>1 DEF OnceInv, LeftInv, Reads
      <4>3. \/ trouble'
            \/ (f = card.answer \/ leftover) /\ trouble' = (trouble \/ FALSE)
        BY DEF Received, Trouble
      <4> QED BY <4>2, <4>3
    <3>3. CASE trouble'
      BY <3>1, <3>3
    <3>4. CASE ~trouble'
      <4>1. f = card.answer /\ ~trouble
        BY <3>2, <3>4
      <4>2. CASE GotCount(f)
        <5>1. type = "counter" /\ type' = "write" /\ pc' = "cmd6" /\ wc' = f.counter
          BY <4>2 DEF GotCount
        <5> QED BY <2>1, <4>1, <5>1
      <4>3. CASE GotData(f)
        <5>1. type = "read" /\ pc' = "return" /\ reply' = [what |-> "data", data |-> f.data]
          BY <4>3 DEF GotData
        <5>2. cmd.op = "rpmb_read"
          BY <1>0, <5>1 DEF OnceInv
        <5> QED BY <2>1, <4>1, <5>1, <5>2
      <4>4. CASE GotResult
        <5>1. type = "write" /\ pc' = "return"
          BY <4>4 DEF GotResult
        <5>2. cmd.op = "rpmb_write"
          BY <1>0, <5>1 DEF OnceInv
        <5> QED BY <2>1, <4>1, <5>1, <5>2
      <4> QED BY <4>2, <4>3, <4>4 DEF PostFrame
    <3> QED BY <3>3, <3>4
  <2> QED BY <2>2, <2>3 DEF Response
<1>12. CASE CardReady
  <2>1. Kept
    BY <1>0, <1>12, CardUpdates DEF CardReady
  <2>2. UNCHANGED <<pc, cmd, type, wc, reply, rpmb_key, trouble>>
    BY <1>12 DEF CardReady
  <2> QED BY <2>1, <2>2
<1> QED
  BY <1>1, <1>2, <1>3, <1>4, <1>5, <1>6, <1>7, <1>8, <1>9, <1>10, <1>11, <1>12 DEF Next, Step

\* What may be believed of the card is known in every state.
LEMMA TruthInvariant == ASSUME OrigPayloadAssumption PROVE Spec => [](IInv /\ TruthInv)
<1>1. Init => TruthInv
  <2> SUFFICES ASSUME Init PROVE TruthInv
    OBVIOUS
  <2>1. /\ pc = "down" /\ type = "none" /\ cmd.op = "init" /\ reply = NoReply
        /\ named = Unknown /\ leftover = FALSE
    BY DEF Init
  <2> HIDE DEF Init
  <2> QED BY <2>1 DEF TruthInv, PartInv, BlockInv, LeftInv, AnswerInv, Working
<1>2. IInv /\ TruthInv /\ Next => TruthInv'
  BY PartStep, BlockStep, LeftStep, AnswerStep DEF TruthInv
<1>3. TruthInv /\ UNCHANGED vars => TruthInv'
  <2> SUFFICES ASSUME TruthInv, UNCHANGED vars PROVE TruthInv'
    OBVIOUS
  <2> USE DEF vars, fifo, TruthInv
  <2>1. PartInv'
    BY DEF PartInv, Target
  <2>2. BlockInv'
    BY DEF BlockInv
  <2>3. LeftInv'
    BY DEF LeftInv, Reads
  <2>4. AnswerInv'
    BY DEF AnswerInv
  <2> QED BY <2>1, <2>2, <2>3, <2>4
<1>4. Spec => []IInv
  BY Invariant
<1> QED BY <1>1, <1>2, <1>3, <1>4, PTL DEF Spec

\* Blocks read and written without a fault are those of the partition that the host has
\* named last, whatever came before: switches that failed or were refused, a payload
\* started over, RPMB commands that switch the card on their own.
THEOREM BlocksAreThose == Spec => []BlocksAreRight
<1>1. TruthInv => BlocksAreRight
  <2> SUFFICES ASSUME TruthInv, Untroubled, named \in {User, Boot}
               PROVE  /\ cmd.op = "read" /\ reply # NoReply => reply.data = card.blocks[named]
                      /\ cmd.op = "write" /\ reply # NoReply =>
                           card.blocks[named] = cmd.data \/ late
    BY DEF BlocksAreRight
  <2>1. pc = "loop" /\ ~trouble /\ named # Unknown
    BY DEF Untroubled, User, Boot, Unknown
  <2>2. card.part \in {named, Rpmb}
    BY <2>1 DEF TruthInv, PartInv
  <2> QED BY <2>1, <2>2 DEF TruthInv, BlockInv
<1> QED BY <1>1, TruthInvariant, OrigPayloadAssumption, PTL

\* What an RPMB command tells the host is so, if no fault concerns it: the data is that of
\* its address, and a write with the card's key has been stored, although the driver looks
\* at no result.
THEOREM AnswersHold == Spec => []AnswersAreTrue
<1>1. TruthInv => AnswersAreTrue
  BY DEF TruthInv, AnswerInv, AnswersAreTrue, Untroubled
<1> QED BY <1>1, TruthInvariant, OrigPayloadAssumption, PTL

=============================================================================
