-------------------------- MODULE EmmcDriverProofs --------------------------
(***************************************************************************)
(* Theorems about EmmcDriver for every value of its constants, every set   *)
(* of faults included unless a theorem names those it excludes.            *)
(***************************************************************************)
EXTENDS EmmcDriver, TLAPS

USE ConstantsAssumption

InitSteps == {"cmd0", "cmd1", "cmd2", "cmd3", "cmd7", "initReady"}
SwitchSteps == {"switch", "switchReady"}
ReadSteps == {"cmd17", "cmd8", "rx", "rxReady"}
WriteSteps == {"cmd24", "tx", "txReady"}

\* Which commands reach which steps, and how many transfers they have made.
ControlInv ==
  /\ pc \in InitSteps =>
       \/ op.kind \in {"boot", "init"}
       \/ op.kind = "verify" /\ reads = 0
       \/ op.kind = "ext" /\ reads \in {1, 2}
  /\ pc \in SwitchSteps =>
       \/ op.kind \in {"read", "write"} /\ reads = 0
       \/ op.kind = "verify" /\ reads \in {0, 2}
  /\ pc = "ready" =>
       \/ op.kind \in {"read", "write", "ext"} /\ reads = 0
       \/ op.kind = "verify" /\ reads \in {0, 2}
  /\ pc \in ReadSteps =>
       \/ op.kind \in {"read", "ext"} /\ reads \in {0, 1}
       \/ op.kind = "verify" /\ reads \in {0, 1, 2, 3}
  /\ pc = "switchReady" => Region \in Regions
  /\ pc = "cmd17" => op.kind # "ext"
  /\ pc = "cmd8" => op.kind = "ext"
  /\ pc \in WriteSteps => op.kind = "write"

TypeInv == TypeOK /\ ControlInv

LEMMA OpType ==
  ASSUME NEW o \in Commands \cup {BootOp}
  PROVE  /\ o.kind \in {"boot", "init", "ext", "verify", "read", "write"}
         /\ o.region \in Regions \cup {BadRegion}
         /\ o.sector \in Sectors
         /\ o.data \in Data
BY DEF Commands, BootOp, Op, FirstSector

LEMMA BootKind == BootOp.kind = "boot"
BY DEF BootOp, Op

LEMMA Addressing ==
  ASSUME TypeOK
  PROVE  Region \in Regions \cup {BadRegion} /\ Sector \in Sectors
BY OpType DEF TypeOK, Region, Sector

LEMMA CommandKind ==
  ASSUME NEW o \in Commands
  PROVE  o.kind \in {"init", "ext", "verify", "read", "write"}
BY DEF Commands, Op

\* A sector that was being programmed holds something.
LEMMA InterruptedType ==
  ASSUME TypeOK, Interrupted
  PROVE  medium' \in [Regions -> [Sectors -> Data]] /\ programming' \subseteq Regions \X Sectors
<1>1. PICK d \in Data :
        medium' = [r \in Regions |->
                     [s \in Sectors |-> IF <<r, s>> \in programming THEN d ELSE medium[r][s]]]
  BY DEF Interrupted
<1>2. medium \in [Regions -> [Sectors -> Data]]
  BY DEF TypeOK
<1> QED BY <1>1, <1>2 DEF Interrupted

\* A card that is not programming loses nothing.
LEMMA NotInterrupted ==
  ASSUME TypeOK, Interrupted, programming = {}
  PROVE  UNCHANGED <<medium, programming>>
<1>1. PICK d \in Data :
        medium' = [r \in Regions |->
                     [s \in Sectors |-> IF <<r, s>> \in programming THEN d ELSE medium[r][s]]]
  BY DEF Interrupted
<1>2. medium \in [Regions -> [Sectors -> Data]]
  BY DEF TypeOK
<1>3. medium' = [r \in Regions |-> [s \in Sectors |-> medium[r][s]]]
  BY <1>1
<1>4. \A r \in Regions : [s \in Sectors |-> medium[r][s]] = medium[r]
  BY <1>2
<1>5. medium' = [r \in Regions |-> medium[r]]
  BY <1>3, <1>4
<1>6. medium' = medium
  BY <1>2, <1>5
<1> QED BY <1>6 DEF Interrupted

\* Whatever Return sends is a reply.
LEMMA ReturnType ==
  ASSUME TypeOK, buf' \in Data, NEW ok, Return(ok)
  PROVE  pc' = "loop" /\ op' = op
         /\ reply' \in {NoReply, Hello, Ack} \cup {DataReply(d) : d \in Data}
BY OpType DEF Return, TypeOK

\* emmc_init's ways out, for the callers that reach it.
LEMMA AfterInitType ==
  ASSUME TypeInv, pc \in InitSteps, AfterInit
  PROVE  /\ pc' \in Steps /\ op' = op /\ reads' = reads /\ buf' = buf
         /\ reply' \in {NoReply, Hello, Ack} \cup {DataReply(d) : d \in Data}
         /\ pc' \in {"loop", "switch", "cmd8"}
         /\ pc' = "switch" => op.kind = "verify" /\ reads = 0
         /\ pc' = "cmd8" => op.kind = "ext" /\ reads = 1
<1>1. buf' = buf /\ reads' = reads /\ buf' \in Data
  BY DEF AfterInit, TypeInv, TypeOK
<1>2. CASE op.kind = "verify"
  BY <1>1, <1>2 DEF AfterInit, Continue, TypeInv, TypeOK, ControlInv, Steps
<1>3. CASE op.kind = "ext" /\ reads < 2
  <2>1. reads = 1
    BY <1>3 DEF TypeInv, TypeOK, ControlInv
  <2>2. Continue("cmd8")
    BY <1>3, <2>1 DEF AfterInit
  <2> QED
    BY <1>1, <1>3, <2>1, <2>2 DEF Continue, TypeInv, TypeOK, Steps
<1>4. CASE op.kind # "verify" /\ ~(op.kind = "ext" /\ reads < 2)
  <2>1. Return(TRUE)
    BY <1>4 DEF AfterInit, Continue
  <2> QED
    BY <1>1, <2>1, ReturnType DEF TypeInv, Steps
<1> QED
  BY <1>2, <1>3, <1>4

LEMMA FailType ==
  ASSUME TypeInv, Fail
  PROVE  /\ pc' = "loop" /\ op' = op /\ reads' = reads /\ buf' = buf
         /\ current_partition' = current_partition
         /\ reply' \in {NoReply, Hello, Ack} \cup {DataReply(d) : d \in Data}
BY ReturnType DEF Fail, TypeInv, TypeOK

LEMMA TypeInit == Init => TypeInv
BY DEF Init, TypeInv, TypeOK, ControlInv, Steps, CardStates, InitSteps, SwitchSteps,
       ReadSteps, WriteSteps, BootOp, Op, FirstSector

LEMMA TypeStep == TypeInv /\ [Next]_vars => TypeInv'
<1> SUFFICES ASSUME TypeInv, [Next]_vars PROVE TypeInv'
  OBVIOUS
<1> USE DEF TypeInv, TypeOK, ControlInv, Steps, CardStates, InitSteps, SwitchSteps,
            ReadSteps, WriteSteps, card
<1>0. op' = op => Region' = Region
  BY DEF Region
<1>1. ASSUME NEW o \in Commands, Loop(o) PROVE TypeInv'
  BY <1>1, CommandKind, OpType DEF Loop
<1>2. CASE Cmd0
  <2>1. CASE Ignored("cmd0", CardStates)
    BY <1>2, <2>1 DEF Cmd0, Goto, Continue, Ignored
  <2>2. CASE cardState' = "idle" /\ cardPart' = User /\ Interrupted /\ stale' = stale
    BY <1>2, <2>2, InterruptedType DEF Cmd0, Goto, Continue
  <2> QED BY <1>2, <2>1, <2>2 DEF Cmd0
<1>3. ASSUME NEW c, NEW f, NEW to \in CardStates, NEW n, InitCommand(c, f, to, n),
             c \in InitSteps, n \in InitSteps
      PROVE  TypeInv'
  <2>1. CASE Goto(n)
    BY <1>3, <2>1 DEF InitCommand, Goto, Continue, BecomesCard, Ignored
  <2>2. CASE InitReturns
    <3>1. AfterInit /\ current_partition' = current_partition
      BY <2>2 DEF InitReturns
    <3>2. /\ cardState' \in CardStates /\ cardPart' \in Regions /\ stale' \in BOOLEAN
          /\ medium' \in [Regions -> [Sectors -> Data]]
          /\ programming' \subseteq Regions \X Sectors
      BY <1>3 DEF InitCommand, BecomesCard, Ignored
    <3> QED
      BY <1>3, <3>1, <3>2, AfterInitType DEF InitCommand
  <2> QED
    BY <1>3, <2>1, <2>2 DEF InitCommand
<1>4. CASE Cmd1 \/ Cmd2 \/ Cmd3 \/ Cmd7
  BY <1>3, <1>4 DEF Cmd1, Cmd2, Cmd3, Cmd7
<1>5. CASE InitReady
  BY <1>5, AfterInitType DEF InitReady, WaitOk, WaitFails, InitReturns
<1>6. CASE SwitchCached
  BY <1>6 DEF SwitchCached, Goto, Continue
<1>7. CASE SwitchBadRegion
  BY <1>7, FailType DEF SwitchBadRegion
<1>8. CASE SwitchPartition
  <2>1. Region \in Regions
    BY <1>8 DEF SwitchPartition
  <2>2. /\ cardState' \in CardStates /\ cardPart' \in Regions /\ stale' \in BOOLEAN
        /\ medium' = medium /\ programming' = programming
    BY <1>8, <2>1 DEF SwitchPartition, Ignored
  <2>3. Goto("switchReady") \/ Fail
    BY <1>8 DEF SwitchPartition
  <2> QED
    BY <1>0, <1>8, <2>1, <2>2, <2>3, FailType DEF SwitchPartition, Goto, Continue
<1>9. CASE SwitchReady
  BY <1>9, FailType DEF SwitchReady, Continue, WaitOk, WaitFails, Region
<1>10. CASE Ready
  BY <1>10, FailType DEF Ready, WaitOk, WaitFails, Goto, Continue
<1>11. CASE Cmd17 \/ Cmd8
  BY <1>11, FailType DEF Cmd17, Cmd8, ReadCommand, BecomesCard, Goto, Continue, Ignored
<1>12. CASE Rx
  <2>1. Addressed \in Data
    BY Addressing DEF Addressed
  <2>2. buf' \in Data /\ stale' \in BOOLEAN
    BY <1>12, <2>1 DEF Rx
  <2>3. CASE Continue("rxReady")
    BY <1>12, <2>2, <2>3 DEF Rx, Continue
  <2>4. CASE Return(FALSE)
    BY <1>12, <2>2, <2>4, ReturnType DEF Rx
  <2> QED
    BY <1>12, <2>3, <2>4 DEF Rx
<1>13. CASE RxReady
  <2>1. CASE WaitFails("rxReady") /\ Fail
    BY <1>13, <2>1, FailType DEF WaitFails
  <2>2. CASE WaitOk /\ reads' = reads + 1 /\ UNCHANGED <<current_partition, buf>>
    <3>1. reads' \in 0..4 /\ buf' \in Data
      BY <1>13, <2>2 DEF RxReady
    <3>2. CASE Return(TRUE)
      BY <2>2, <3>1, <3>2, ReturnType DEF WaitOk
    <3>3. CASE op.kind = "ext" /\ Continue("cmd0")
      BY <1>13, <2>2, <3>1, <3>3 DEF RxReady, WaitOk, Continue
    <3>4. CASE op.kind # "ext" /\ reads \in {0, 2} /\ Continue("cmd17")
      BY <1>13, <2>2, <3>1, <3>4 DEF RxReady, WaitOk, Continue
    <3>5. CASE op.kind = "verify" /\ reads = 1 /\ Continue("switch")
      BY <1>13, <2>2, <3>1, <3>5 DEF WaitOk, Continue
    <3> QED
      BY <1>13, <2>1, <2>2, <3>2, <3>3, <3>4, <3>5 DEF RxReady
  <2> QED
    BY <1>13, <2>1, <2>2 DEF RxReady
<1>14. CASE Cmd24
  BY <1>14, FailType DEF Cmd24, BecomesCard, Goto, Continue, Ignored
<1>15. CASE Tx
  <2>1. /\ cardState' \in CardStates /\ cardPart' \in Regions /\ stale' \in BOOLEAN
        /\ medium' \in [Regions -> [Sectors -> Data]]
        /\ programming' \subseteq Regions \X Sectors
    <3>1. CASE Programs
      <4>1. cardPart \in Regions /\ Sector \in Sectors /\ buf \in Data
        BY Addressing
      <4>2. medium' = [medium EXCEPT ![cardPart] = [medium[cardPart] EXCEPT ![Sector] = buf]]
        BY <3>1 DEF Programs
      <4>3. medium[cardPart] \in [Sectors -> Data]
        BY <4>1
      <4> QED
        BY <3>1, <4>1, <4>2, <4>3 DEF Programs
    <3>2. CASE Drops
      BY <3>2 DEF Drops, BecomesCard
    <3> QED
      BY <1>15, <3>1, <3>2 DEF Tx
  <2>2. CASE Goto("txReady")
    BY <1>15, <2>1, <2>2 DEF Tx, Goto, Continue
  <2>3. CASE Fail
    BY <1>15, <2>1, <2>3, FailType DEF Tx
  <2> QED
    BY <1>15, <2>2, <2>3 DEF Tx
<1>16. CASE TxReady
  BY <1>16, FailType, ReturnType DEF TxReady, WaitOk, WaitFails
<1>17. CASE CardFinish
  BY <1>0, <1>17 DEF CardFinish, BecomesCard, driver
<1>18. CASE Restart
  <2>1. /\ cardState' \in CardStates /\ cardPart' \in Regions /\ stale' \in BOOLEAN
        /\ medium' \in [Regions -> [Sectors -> Data]]
        /\ programming' \subseteq Regions \X Sectors
    BY <1>18, InterruptedType DEF Restart
  <2> QED
    BY <1>18, <2>1, BootKind DEF Restart
<1>19. CASE UNCHANGED vars
  BY <1>0, <1>19 DEF vars, driver
<1> QED
  BY <1>1, <1>2, <1>4, <1>5, <1>6, <1>7, <1>8, <1>9, <1>10, <1>11, <1>12, <1>13,
     <1>14, <1>15, <1>16, <1>17, <1>18, <1>19 DEF Next, DriverStep

\* The variables have their types, whatever goes wrong.
THEOREM TypeCorrect == Spec => []TypeOK
<1>1. Spec => []TypeInv
  BY TypeInit, TypeStep, PTL DEF Spec
<1>2. TypeInv => TypeOK
  BY DEF TypeInv
<1> QED
  BY <1>1, <1>2, PTL

-----------------------------------------------------------------------------
(* The partition                                                           *)

Selected == {"tran", "data", "rcv", "prg"}
Transfers == {"cmd17", "rx", "rxReady", "cmd24", "tx", "txReady"}

\* What a wait for the card is about to confirm is true of the card, and a
\* card that is not selected is in the user region, where CMD0 has put it.
ConfirmInv ==
  /\ cardState \notin Selected => cardPart = User
  /\ pc = "initReady" => cardState = "tran" /\ cardPart = User
  /\ pc = "switchReady" => cardState \in {"tran", "prg"} /\ cardPart = Region

LEMMA ConfirmInit == Init => ConfirmInv
BY DEF Init, ConfirmInv, Selected

LEMMA RegionFrame == op' = op => Region' = Region
BY DEF Region

\* Where the ways out of a command and of emmc_init lead.
LEMMA FailFrame ==
  ASSUME Fail
  PROVE  pc' = "loop" /\ op' = op /\ current_partition' = current_partition
         /\ reads' = reads /\ buf' = buf
BY DEF Fail, Return

LEMMA AfterInitFrame ==
  ASSUME AfterInit
  PROVE  pc' \in {"loop", "switch", "cmd8"} /\ op' = op
         /\ reads' = reads /\ buf' = buf
BY DEF AfterInit, Continue, Return

LEMMA ConfirmStep ==
  ASSUME ~Refuse("cmd6"), TypeInv, ConfirmInv, [Next]_vars
  PROVE  ConfirmInv'
<1> USE DEF ConfirmInv, Selected
<1>1. ASSUME NEW o \in Commands, Loop(o) PROVE ConfirmInv'
  BY <1>1, CommandKind DEF Loop, card
<1>2. CASE Cmd0
  BY <1>2 DEF Cmd0, Goto, Continue, BecomesCard, Ignored, card
<1>3. CASE Cmd1 \/ Cmd2 \/ Cmd3
  BY <1>3, AfterInitFrame
  DEF Cmd1, Cmd2, Cmd3, InitCommand, InitReturns, Goto, Continue, BecomesCard, Ignored,
      Answered, Executes, card
<1>4. CASE Cmd7
  BY <1>4, AfterInitFrame
  DEF Cmd7, InitCommand, InitReturns, Goto, Continue, BecomesCard, Ignored,
      Answered, Executes, card
<1>5. CASE InitReady
  BY <1>5, AfterInitFrame DEF InitReady, InitReturns, WaitOk, WaitFails, card
<1>6. CASE SwitchCached
  BY <1>6 DEF SwitchCached, Goto, Continue, card
<1>7. CASE SwitchBadRegion
  BY <1>7, FailFrame DEF SwitchBadRegion, card
<1>8. CASE SwitchPartition
  BY <1>8, FailFrame, RegionFrame
  DEF SwitchPartition, Goto, Continue, Ignored, Answered, Executes, card
<1>9. CASE SwitchReady
  BY <1>9, FailFrame DEF SwitchReady, Continue, WaitOk, WaitFails, card
<1>10. CASE Ready
  <2>1. pc' \in {"loop", "cmd17", "cmd24", "cmd8"} /\ UNCHANGED card
    BY <1>10, FailFrame DEF Ready, WaitOk, WaitFails, Goto, Continue
  <2> QED
    BY <2>1 DEF card
<1>11. CASE Cmd17 \/ Cmd8
  BY <1>11, FailFrame
  DEF Cmd17, Cmd8, ReadCommand, BecomesCard, Goto, Continue, Ignored, Answered, Executes, card
<1>12. CASE Rx
  <2>1. pc' \in {"loop", "rxReady"} /\ UNCHANGED <<cardState, cardPart>>
    BY <1>12 DEF Rx, Continue, Return
  <2> QED
    BY <2>1
<1>13. CASE RxReady
  <2>1. pc' \in {"loop", "cmd0", "cmd17", "switch"} /\ UNCHANGED card
    BY <1>13, FailFrame DEF RxReady, WaitOk, WaitFails, Continue, Return
  <2> QED
    BY <2>1 DEF card
<1>14. CASE Cmd24
  BY <1>14, FailFrame
  DEF Cmd24, BecomesCard, Goto, Continue, Ignored, Answered, Executes, card
<1>15. CASE Tx
  <2>1. pc' \in {"loop", "txReady"}
    BY <1>15, FailFrame DEF Tx, Goto, Continue
  <2>2. cardState' \in Selected /\ cardPart' = cardPart
    BY <1>15 DEF Tx, Programs, Drops, BecomesCard
  <2> QED
    BY <2>1, <2>2
<1>16. CASE TxReady
  <2>1. pc' = "loop" /\ UNCHANGED card
    BY <1>16, FailFrame DEF TxReady, WaitOk, WaitFails, Return
  <2> QED
    BY <2>1 DEF card
<1>17. CASE CardFinish
  BY <1>17, RegionFrame DEF CardFinish, BecomesCard, driver
<1>18. CASE Restart
  BY <1>18 DEF Restart, card
<1>19. CASE UNCHANGED vars
  BY <1>19, RegionFrame DEF vars, driver, card
<1> QED
  BY <1>1, <1>2, <1>3, <1>4, <1>5, <1>6, <1>7, <1>8, <1>9, <1>10, <1>11, <1>12, <1>13,
     <1>14, <1>15, <1>16, <1>17, <1>18, <1>19 DEF Next, DriverStep

\* The only steps that give current_partition a region are the two waits
\* that ConfirmInv is about.
LEMMA CacheStep ==
  ASSUME TypeInv, ConfirmInv, [Next]_vars,
         current_partition' \in Regions \ {current_partition}
  PROVE  cardPart' = current_partition'
<1>1. CASE InitReady
  BY <1>1 DEF InitReady, InitReturns, WaitOk, card, ConfirmInv
<1>2. CASE SwitchReady
  BY <1>2, FailFrame DEF SwitchReady, WaitOk, card, ConfirmInv
<1>3. CASE \E o \in Commands : Loop(o)
  BY <1>3 DEF Loop
<1>4. CASE Restart
  BY <1>4 DEF Restart
<1>5. CASE CardFinish \/ UNCHANGED vars
  BY <1>5 DEF CardFinish, vars, driver
<1>6. CASE Cmd0 \/ Cmd1 \/ Cmd2 \/ Cmd3 \/ Cmd7
  BY <1>6 DEF Cmd0, Cmd1, Cmd2, Cmd3, Cmd7, InitCommand, InitReturns, Goto
<1>7. CASE SwitchCached \/ SwitchBadRegion \/ SwitchPartition \/ Ready
  BY <1>7, FailFrame DEF SwitchCached, SwitchBadRegion, SwitchPartition, Ready, Goto
<1>8. CASE Cmd17 \/ Cmd8 \/ Rx \/ RxReady
  BY <1>8, FailFrame DEF Cmd17, Cmd8, ReadCommand, Rx, RxReady, Goto
<1>9. CASE Cmd24 \/ Tx \/ TxReady
  BY <1>9, FailFrame DEF Cmd24, Tx, TxReady, Goto
<1> QED
  BY <1>1, <1>2, <1>3, <1>4, <1>5, <1>6, <1>7, <1>8, <1>9 DEF Next, DriverStep

\* However commands and responses are lost, waits fail and the agent is
\* restarted, a region that enters current_partition is the card's, as long
\* as the card does not refuse CMD6 (its SWITCH_ERROR bit is not looked at).
THEOREM CacheIsTrueWhenSet ==
  ASSUME ~Refuse("cmd6")
  PROVE  Spec => NewCacheIsTrue
<1>1. Init => TypeInv /\ ConfirmInv
  BY TypeInit, ConfirmInit
<1>2. TypeInv /\ ConfirmInv /\ [Next]_vars => TypeInv' /\ ConfirmInv'
  BY TypeStep, ConfirmStep
<1>3. TypeInv /\ ConfirmInv /\ [Next]_vars
        => [current_partition' \in Regions \ {current_partition}
              => cardPart' = current_partition']_vars
  BY CacheStep
<1> QED
  BY <1>1, <1>2, <1>3, PTL DEF Spec, NewCacheIsTrue

NoPartitionFault ==
  Faults \cap PartitionFaults = {}

LEMMA NoPartitionFaultMeans ==
  ASSUME NoPartitionFault
  PROVE  ~Lost("cmd6") /\ ~Lost("cmd7") /\ ~Busy("switchReady")
         /\ ~Busy("initReady") /\ ~Refuse("cmd6")
BY DEF NoPartitionFault, PartitionFaults, Lost, Busy, Refuse

\* current_partition agrees with the card, but while emmc_init or
\* emmc_switch_partition waits for the card; and once past the switch it is
\* the region of the command.
AgreeInv ==
  /\ cardState \in Selected /\ pc \notin {"initReady", "switchReady"}
       /\ current_partition \in Regions => cardPart = current_partition
  /\ pc \in Transfers \cup {"ready"} /\ op.kind # "ext"
       => Region = current_partition /\ Region \in Regions
  /\ pc \in Transfers => cardState \in Selected

LEMMA AgreeInit == Init => AgreeInv
BY DEF Init, AgreeInv, Transfers, TypeInv, TypeOK

LEMMA AgreeStep ==
  ASSUME NoPartitionFault, TypeInv, ConfirmInv, AgreeInv, [Next]_vars
  PROVE  AgreeInv'
<1> USE NoPartitionFaultMeans DEF AgreeInv, Selected, Transfers
<1>1. ASSUME NEW o \in Commands, Loop(o) PROVE AgreeInv'
  BY <1>1, CommandKind DEF Loop, card
<1>2. CASE Cmd0
  BY <1>2 DEF Cmd0, Goto, Continue, BecomesCard, Ignored, card
<1>3. CASE Cmd1 \/ Cmd2 \/ Cmd3
  BY <1>3, AfterInitFrame
  DEF Cmd1, Cmd2, Cmd3, InitCommand, InitReturns, Goto, Continue, BecomesCard, Ignored,
      Answered, Executes, card
<1>4. CASE Cmd7
  BY <1>4, AfterInitFrame
  DEF Cmd7, InitCommand, InitReturns, Goto, Continue, BecomesCard, Ignored,
      Answered, Executes, card
<1>5. CASE InitReady
  BY <1>5, AfterInitFrame DEF InitReady, InitReturns, WaitOk, WaitFails, ConfirmInv, card
<1>6. CASE SwitchCached
  BY <1>6, Addressing, RegionFrame DEF SwitchCached, Goto, Continue, card, TypeInv, TypeOK
<1>7. CASE SwitchBadRegion
  BY <1>7, FailFrame DEF SwitchBadRegion, card
<1>8. CASE SwitchPartition
  BY <1>8, FailFrame
  DEF SwitchPartition, Goto, Continue, Ignored, Answered, Executes, card
<1>9. CASE SwitchReady
  BY <1>9, FailFrame, RegionFrame
  DEF SwitchReady, Continue, WaitOk, WaitFails, ConfirmInv, card, TypeInv, ControlInv
<1>10. CASE Ready
  BY <1>10, FailFrame, RegionFrame DEF Ready, WaitOk, WaitFails, Goto, Continue, card
<1>11. CASE Cmd17 \/ Cmd8
  BY <1>11, FailFrame, RegionFrame
  DEF Cmd17, Cmd8, ReadCommand, BecomesCard, Goto, Continue, Ignored, Answered, Executes,
      card, TypeInv, ControlInv
<1>12. CASE Rx
  <2>1. pc' \in {"loop", "rxReady"} /\ op' = op
        /\ UNCHANGED <<cardState, cardPart, current_partition>>
    BY <1>12 DEF Rx, Continue, Return
  <2> QED
    BY <1>12, <2>1, RegionFrame DEF Rx
<1>13. CASE RxReady
  <2>1. pc' \in {"loop", "cmd0", "cmd17", "switch"} /\ op' = op
        /\ UNCHANGED card /\ UNCHANGED current_partition
    BY <1>13, FailFrame DEF RxReady, WaitOk, WaitFails, Continue, Return
  <2> QED
    BY <1>13, <2>1, RegionFrame DEF RxReady, card
<1>14. CASE Cmd24
  BY <1>14, FailFrame, RegionFrame
  DEF Cmd24, BecomesCard, Goto, Continue, Ignored, Answered, Executes, card
<1>15. CASE Tx
  <2>1. pc' \in {"loop", "txReady"} /\ op' = op
        /\ current_partition' = current_partition
    BY <1>15, FailFrame DEF Tx, Goto, Continue
  <2>2. cardState' \in Selected /\ cardPart' = cardPart
    BY <1>15 DEF Tx, Programs, Drops, BecomesCard
  <2> QED
    BY <1>15, <2>1, <2>2, RegionFrame DEF Tx
<1>16. CASE TxReady
  <2>1. pc' = "loop" /\ UNCHANGED card /\ current_partition' = current_partition
    BY <1>16, FailFrame DEF TxReady, WaitOk, WaitFails, Return
  <2> QED
    BY <1>16, <2>1 DEF TxReady, card
<1>17. CASE CardFinish
  BY <1>17, RegionFrame DEF CardFinish, BecomesCard, driver
<1>18. CASE Restart
  BY <1>18 DEF Restart, card
<1>19. CASE UNCHANGED vars
  BY <1>19, RegionFrame DEF vars, driver, card
<1> QED
  BY <1>1, <1>2, <1>3, <1>4, <1>5, <1>6, <1>7, <1>8, <1>9, <1>10, <1>11, <1>12, <1>13,
     <1>14, <1>15, <1>16, <1>17, <1>18, <1>19 DEF Next, DriverStep

\* Only a card in its programming state programs, and not while a block is sent to it
\* or when emmc_read_ext_csd resets it.
ProgrammingInv ==
  /\ programming # {} => cardState = "prg"
  /\ pc = "tx" => programming = {}
  /\ pc = "cmd0" /\ op.kind = "ext" => programming = {}

LEMMA ProgrammingStep ==
  ASSUME TypeInv, ProgrammingInv, [Next]_vars
  PROVE  ProgrammingInv'
<1> USE DEF ProgrammingInv
<1>1. ASSUME NEW o \in Commands, Loop(o) PROVE ProgrammingInv'
  BY <1>1, CommandKind DEF Loop, card
<1>2. CASE Cmd0
  BY <1>2 DEF Cmd0, Goto, Continue, Interrupted, Ignored, card
<1>3. CASE Cmd1 \/ Cmd2 \/ Cmd3 \/ Cmd7
  BY <1>3, AfterInitFrame
  DEF Cmd1, Cmd2, Cmd3, Cmd7, InitCommand, InitReturns, Goto, Continue, BecomesCard, Ignored,
      card
<1>4. CASE InitReady
  BY <1>4, AfterInitFrame DEF InitReady, InitReturns, WaitOk, WaitFails, card
<1>5. CASE SwitchCached \/ SwitchBadRegion
  BY <1>5, FailFrame DEF SwitchCached, SwitchBadRegion, Goto, Continue, card
<1>6. CASE SwitchPartition
  <2>1. pc' \in {"switchReady", "loop"}
    BY <1>6, FailFrame DEF SwitchPartition, Goto, Continue
  <2>2. programming' = programming /\ (cardState' = "prg" \/ cardState' = cardState)
    BY <1>6 DEF SwitchPartition, Ignored, card
  <2> QED
    BY <2>1, <2>2
<1>7. CASE SwitchReady \/ Ready \/ TxReady
  <2>1. pc' \in {"loop", "ready", "cmd17", "cmd24", "cmd8"} /\ UNCHANGED card
    BY <1>7, FailFrame
    DEF SwitchReady, Ready, TxReady, WaitOk, WaitFails, Goto, Continue, Return
  <2> QED
    BY <2>1 DEF card
<1>8. CASE Cmd17 \/ Cmd8
  BY <1>8, FailFrame DEF Cmd17, Cmd8, ReadCommand, BecomesCard, Goto, Continue, Ignored, card
<1>9. CASE Rx
  <2>1. pc' \in {"loop", "rxReady"} /\ UNCHANGED <<cardState, programming>>
    BY <1>9 DEF Rx, Continue, Return
  <2> QED
    BY <2>1
<1>10. CASE RxReady
  <2>1. pc' \in {"loop", "cmd0", "cmd17", "switch"} /\ UNCHANGED card
    BY <1>10, FailFrame DEF RxReady, WaitOk, WaitFails, Continue, Return
  <2>2. pc' = "cmd0" => cardState = "tran"
    BY <1>10, FailFrame DEF RxReady, WaitOk
  <2> QED
    BY <2>1, <2>2 DEF card
<1>11. CASE Cmd24
  BY <1>11, FailFrame DEF Cmd24, BecomesCard, Goto, Continue, Ignored, card
<1>12. CASE Tx
  <2>1. pc' \in {"loop", "txReady"}
    BY <1>12, FailFrame DEF Tx, Goto, Continue
  <2>2. programming' = {} \/ cardState' = "prg"
    BY <1>12 DEF Tx, Programs, Drops, BecomesCard
  <2> QED
    BY <2>1, <2>2
<1>13. CASE CardFinish
  BY <1>13 DEF CardFinish, BecomesCard
<1>14. CASE Restart
  BY <1>14, BootKind DEF Restart, Interrupted, card
<1>15. CASE UNCHANGED vars
  BY <1>15 DEF vars, driver, card
<1> QED
  BY <1>1, <1>2, <1>3, <1>4, <1>5, <1>6, <1>7, <1>8, <1>9, <1>10, <1>11, <1>12, <1>13,
     <1>14, <1>15 DEF Next, DriverStep

LEMMA ProgrammingInit == Init => ProgrammingInv
BY DEF Init, ProgrammingInv

AllInv == TypeInv /\ ConfirmInv /\ AgreeInv /\ ProgrammingInv

LEMMA AllInvariant ==
  ASSUME NoPartitionFault
  PROVE  Spec => []AllInv
<1>1. Init => AllInv
  BY TypeInit, ConfirmInit, AgreeInit, ProgrammingInit DEF AllInv
<1>2. AllInv /\ [Next]_vars => AllInv'
  BY TypeStep, ConfirmStep, AgreeStep, ProgrammingStep, NoPartitionFaultMeans DEF AllInv
<1> QED
  BY <1>1, <1>2, PTL DEF Spec

\* Unless one of the five partition faults strikes, no sector of another
\* region than the one asked for is ever read or written.
THEOREM RegionsAreRight ==
  ASSUME NoPartitionFault
  PROVE  Spec => []RightRegion
<1>1. AllInv => RightRegion
  BY DEF AllInv, AgreeInv, RightRegion, Transfers, Selected
<1> QED
  BY <1>1, AllInvariant, PTL

-----------------------------------------------------------------------------
(* EmmcDriver implements BlockStore                                        *)

NoLateFault == Faults \cap LateFaults = {}

LEMMA NoLateFaultMeans ==
  ASSUME NoLateFault
  PROVE  ~Late("rx") /\ ~Late("tx")
BY DEF NoLateFault, LateFaults, Late

Stored == medium[op.region][op.sector]

\* What is on its way is the block of the command; the second transfer of a
\* read is never the first after a switch or a write.
DataInv ==
  /\ op.kind = "write" /\ pc \in SwitchSteps \cup {"ready", "cmd24", "tx"} => buf = op.data
  /\ pc = "txReady" => Stored = op.data
  /\ op.kind = "read" /\ pc \in {"cmd17", "rx"} /\ reads = 1 => ~stale
  /\ op.kind = "read" /\ pc = "rxReady" => ~stale
  /\ op.kind = "read" /\ pc = "rxReady" /\ reads = 1 => buf = Stored

LEMMA DataInit == Init => DataInv
BY BootKind DEF Init, DataInv, SwitchSteps

\* A transfer of a read or write is with the sector the command names.
LEMMA TransferAddress ==
  ASSUME AllInv, pc \in {"rx", "tx"}, op.kind \in {"read", "write"}
  PROVE  cardPart = op.region /\ Sector = op.sector /\ op.region \in Regions
BY DEF AllInv, AgreeInv, Transfers, Selected, Region, Sector

LEMMA ProgramsStores ==
  ASSUME AllInv, DataInv, pc = "tx", Programs
  PROVE  /\ medium' = [medium EXCEPT ![op.region][op.sector] = op.data]
         /\ medium'[op.region][op.sector] = op.data
         /\ programming' = {<<op.region, op.sector>>}
<1>1. op.kind = "write" /\ buf = op.data
  BY DEF AllInv, TypeInv, ControlInv, WriteSteps, DataInv
<1>2. cardPart = op.region /\ Sector = op.sector /\ op.region \in Regions
  BY <1>1, TransferAddress
<1>3. medium' = [medium EXCEPT ![op.region][op.sector] = op.data]
  BY <1>1, <1>2 DEF Programs
<1>4. medium \in [Regions -> [Sectors -> Data]] /\ op.sector \in Sectors
  BY OpType DEF AllInv, TypeInv, TypeOK
<1>5. programming' = {<<op.region, op.sector>>}
  BY <1>2 DEF Programs
<1> QED
  BY <1>2, <1>3, <1>4, <1>5

LEMMA DataStep ==
  ASSUME NoLateFault, AllInv, DataInv, [Next]_vars
  PROVE  DataInv'
<1> USE NoLateFaultMeans DEF DataInv, SwitchSteps, Stored
<1>0. /\ TypeInv /\ ControlInv
  BY DEF AllInv, TypeInv
<1>1. ASSUME NEW o \in Commands, Loop(o) PROVE DataInv'
  BY <1>1, CommandKind DEF Loop
<1>2. CASE Cmd0
  BY <1>2 DEF Cmd0, Goto, Continue
<1>3. CASE Cmd1 \/ Cmd2 \/ Cmd3 \/ Cmd7
  <2>1. op.kind \notin {"read", "write"}
    BY <1>0, <1>3 DEF Cmd1, Cmd2, Cmd3, Cmd7, InitCommand, ControlInv, InitSteps
  <2>2. op' = op /\ pc' # "txReady"
    BY <1>3, AfterInitFrame
    DEF Cmd1, Cmd2, Cmd3, Cmd7, InitCommand, InitReturns, Goto, Continue
  <2> QED
    BY <2>1, <2>2
<1>5. CASE InitReady
  <2>1. op.kind \notin {"read", "write"}
    BY <1>0, <1>5 DEF InitReady, ControlInv, InitSteps
  <2>2. op' = op /\ pc' # "txReady"
    BY <1>5, AfterInitFrame DEF InitReady, InitReturns
  <2> QED
    BY <2>1, <2>2
<1>6. CASE SwitchCached
  BY <1>6 DEF SwitchCached, Goto, Continue, card
<1>7. CASE SwitchBadRegion
  BY <1>7, FailFrame DEF SwitchBadRegion
<1>8. CASE SwitchPartition
  BY <1>8, FailFrame DEF SwitchPartition, Goto, Continue
<1>9. CASE SwitchReady
  BY <1>9, FailFrame DEF SwitchReady, Continue
<1>10. CASE Ready
  BY <1>0, <1>10, FailFrame DEF Ready, Goto, Continue, ControlInv
<1>11. CASE Cmd17 \/ Cmd8
  BY <1>0, <1>11, FailFrame
  DEF Cmd17, Cmd8, ReadCommand, BecomesCard, Goto, Continue, Ignored, card, ControlInv
<1>12. CASE Rx
  <2>1. CASE op.kind = "read" /\ pc' = "rxReady"
    <3>1. op' = op /\ medium' = medium /\ reads' = reads /\ stale' = FALSE
      BY <1>12, <2>1 DEF Rx, Continue, Return
    <3>2. reads = 1 => buf' = Addressed
      BY <1>12, <2>1 DEF Rx, Return
    <3>3. Addressed = Stored
      BY <1>12, <2>1, TransferAddress DEF Rx, Addressed
    <3> QED
      BY <2>1, <3>1, <3>2, <3>3
  <2>2. CASE ~(op.kind = "read" /\ pc' = "rxReady")
    BY <1>12, <2>2 DEF Rx, Continue, Return
  <2> QED
    BY <2>1, <2>2
<1>13. CASE RxReady
  <2>1. op' = op /\ pc' \in {"loop", "cmd0", "cmd17", "switch"} /\ UNCHANGED card
    BY <1>13, FailFrame DEF RxReady, WaitOk, WaitFails, Continue, Return
  <2>2. op.kind # "write"
    BY <1>0, <1>13 DEF RxReady, ControlInv, ReadSteps
  <2> QED
    BY <1>13, <2>1, <2>2 DEF RxReady, card
<1>14. CASE Cmd24
  BY <1>0, <1>14, FailFrame DEF Cmd24, Goto, Continue, ControlInv, WriteSteps
<1>15. CASE Tx
  <2>1. CASE Fail
    BY <2>1, FailFrame
  <2>2. CASE Programs /\ Goto("txReady")
    BY <1>15, <2>2, ProgramsStores DEF Tx, Goto, Continue
  <2> QED
    BY <1>15, <2>1, <2>2 DEF Tx
<1>16. CASE TxReady
  BY <1>16, FailFrame DEF TxReady, Return
<1>17. CASE CardFinish
  BY <1>17 DEF CardFinish, BecomesCard, driver
<1>18. CASE Restart
  BY <1>18, BootKind DEF Restart
<1>19. CASE UNCHANGED vars
  BY <1>19 DEF vars, driver, card
<1> QED
  BY <1>1, <1>2, <1>3, <1>5, <1>6, <1>7, <1>8, <1>9, <1>10, <1>11, <1>12, <1>13,
     <1>14, <1>15, <1>16, <1>17, <1>18, <1>19 DEF Next, DriverStep

\* A command that returns is answered as BlockStore allows.
LEMMA ReturnAnswers ==
  ASSUME TypeInv, pc # "loop", buf' \in Data, UNCHANGED <<medium, programming>>,
         NEW ok, Return(ok), op.kind \in {"read", "write"} /\ ok => programming = {},
         op.kind = "read" /\ ok => op.region \in Regions /\ buf' = Stored,
         op.kind = "write" /\ ok => op.region \in Regions /\ Stored = op.data
  PROVE  BS!Answer
<1>1. pc' = "loop" /\ op' = op
  BY DEF Return
<1>2. op.kind \in {"boot", "init", "ext", "verify", "read", "write"}
  BY OpType DEF TypeInv, TypeOK
<1>3. \/ op.kind \in {"read", "write", "verify"} /\ reply' = NoReply
      \/ op.kind = "boot" /\ reply' = Hello
      \/ op.kind = "init" /\ reply' = Ack
      \/ op.kind = "ext" /\ reply' = DataReply(buf')
      \/ /\ op.kind = "read" /\ op.region \in Regions /\ programming = {}
         /\ reply' = DataReply(Stored)
      \/ /\ op.kind = "write" /\ op.region \in Regions /\ programming = {}
         /\ Stored = op.data /\ reply' = Ack
  BY <1>2 DEF Return
<1> QED
  BY <1>1, <1>3 DEF BS!Answer, BS!Writes, Stored

LEMMA FailAnswers ==
  ASSUME TypeInv, pc # "loop", UNCHANGED <<medium, programming>>, Fail
  PROVE  BS!Answer
BY ReturnAnswers DEF Fail, TypeInv, TypeOK

\* Steps inside a command that leave the medium alone are stutters.
LEMMA Stutters ==
  ASSUME pc # "loop", pc' # "loop", op' = op, reply' = reply, UNCHANGED <<medium, programming>>
  PROVE  UNCHANGED BS!vars
BY DEF BS!vars

LEMMA AfterInitMaps ==
  ASSUME TypeInv, pc \in InitSteps, AfterInit, UNCHANGED <<medium, programming>>
  PROVE  BS!Answer \/ UNCHANGED BS!vars
<1>1. pc # "loop" /\ op.kind \notin {"read", "write"} /\ buf' \in Data
  BY DEF InitSteps, TypeInv, TypeOK, ControlInv, AfterInit
<1>2. CASE Return(TRUE)
  BY <1>1, <1>2, ReturnAnswers
<1>3. CASE Continue("switch") \/ Continue("cmd8")
  BY <1>1, <1>3, Stutters DEF Continue
<1> QED
  BY <1>2, <1>3 DEF AfterInit

\* What is lost with the power, or by a reset, is the same in both.
LEMMA InterruptedMaps == Interrupted <=> BS!Interrupted
BY DEF Interrupted, BS!Interrupted

LEMMA StepMaps ==
  ASSUME NoLateFault, AllInv, DataInv, [Next]_vars
  PROVE  [BS!Next]_(BS!vars)
<1> USE NoLateFaultMeans
<1>0. TypeInv /\ TypeOK /\ ControlInv /\ ProgrammingInv
  BY DEF AllInv, TypeInv
<1> SUFFICES \/ \E o \in Commands : BS!Request(o)
             \/ BS!Store \/ BS!Settle \/ BS!Answer \/ BS!Reset \/ BS!Crash
             \/ UNCHANGED BS!vars
  BY DEF BS!Next
<1>1. ASSUME NEW o \in Commands, Loop(o) PROVE BS!Request(o)
  <2>1. pc' # "loop"
    BY <1>1, CommandKind DEF Loop
  <2> QED
    BY <1>1, <2>1 DEF Loop, card, BS!Request
<1>2. CASE Cmd0
  <2>1. pc # "loop" /\ pc' # "loop" /\ op' = op /\ reply' = reply
    BY <1>2 DEF Cmd0, Goto, Continue
  <2>2. CASE UNCHANGED card
    BY <2>1, <2>2, Stutters DEF card
  <2>3. CASE Interrupted /\ op.kind = "ext"
    <3>1. programming = {}
      BY <1>0, <1>2, <2>3 DEF ProgrammingInv, Cmd0
    <3>2. UNCHANGED <<medium, programming>>
      BY <1>0, <2>3, <3>1, NotInterrupted
    <3> QED BY <2>1, <3>2, Stutters
  <2>4. CASE Interrupted /\ op.kind # "ext"
    <3>1. op.kind \in {"boot", "init", "verify"}
      BY <1>0, <1>2, <2>4 DEF ControlInv, Cmd0, InitSteps
    <3>2. BS!Interrupted
      BY <2>4, InterruptedMaps
    <3> QED BY <2>1, <3>1, <3>2 DEF BS!Reset
  <2> QED BY <1>2, <2>2, <2>3, <2>4 DEF Cmd0, Ignored
<1>3. ASSUME NEW c \in InitSteps, NEW f, NEW to, NEW n \in InitSteps, InitCommand(c, f, to, n),
             f # "prg"
      PROVE  BS!Answer \/ UNCHANGED BS!vars
  <2>1. UNCHANGED <<medium, programming>> /\ pc \in InitSteps
    BY <1>0, <1>3
    DEF InitCommand, BecomesCard, Ignored, Answered, Executes, ProgrammingInv, card
  <2>2. CASE InitReturns
    BY <1>0, <2>1, <2>2, AfterInitMaps DEF InitReturns
  <2>3. CASE Goto(n)
    BY <2>1, <2>3, Stutters DEF Goto, Continue, InitSteps
  <2> QED
    BY <1>3, <2>2, <2>3 DEF InitCommand
<1>4. CASE Cmd1 \/ Cmd2 \/ Cmd3 \/ Cmd7
  BY <1>3, <1>4 DEF Cmd1, Cmd2, Cmd3, Cmd7, InitSteps
<1>5. CASE InitReady
  BY <1>0, <1>5, AfterInitMaps DEF InitReady, InitReturns, WaitOk, WaitFails, card, InitSteps
<1>6. CASE SwitchCached
  BY <1>6, Stutters DEF SwitchCached, Goto, Continue, card
<1>7. CASE SwitchBadRegion
  BY <1>0, <1>7, FailAnswers DEF SwitchBadRegion, card
<1>8. CASE SwitchPartition
  <2>1. CASE Goto("switchReady")
    BY <1>8, <2>1, Stutters DEF SwitchPartition, Goto, Continue
  <2>2. CASE Fail
    BY <1>0, <1>8, <2>2, FailAnswers DEF SwitchPartition
  <2> QED
    BY <1>8, <2>1, <2>2 DEF SwitchPartition
<1>9. CASE SwitchReady
  BY <1>0, <1>9, FailAnswers, Stutters DEF SwitchReady, WaitOk, WaitFails, Continue, card
<1>10. CASE Ready
  <2>1. UNCHANGED <<medium, programming>> /\ pc # "loop"
    BY <1>10 DEF Ready, WaitOk, WaitFails, card
  <2>2. CASE Fail
    BY <1>0, <2>1, <2>2, FailAnswers
  <2>3. CASE Goto("cmd17") \/ Goto("cmd24") \/ Goto("cmd8")
    BY <2>1, <2>3, Stutters DEF Goto, Continue
  <2> QED
    BY <1>10, <2>2, <2>3 DEF Ready
<1>11. CASE Cmd17 \/ Cmd8
  <2>1. UNCHANGED <<medium, programming>> /\ pc # "loop"
    BY <1>0, <1>11
    DEF Cmd17, Cmd8, ReadCommand, BecomesCard, Ignored, Answered, Executes, ProgrammingInv, card
  <2>2. CASE Fail
    BY <1>0, <2>1, <2>2, FailAnswers
  <2>3. CASE Goto("rx")
    BY <2>1, <2>3, Stutters DEF Goto, Continue
  <2> QED
    BY <1>11, <2>2, <2>3 DEF Cmd17, Cmd8, ReadCommand
<1>12. CASE Rx
  <2>1. CASE Continue("rxReady")
    BY <1>12, <2>1, Stutters DEF Rx, Continue
  <2>2. CASE buf' \in Data /\ Return(FALSE)
    BY <1>0, <1>12, <2>2, ReturnAnswers DEF Rx
  <2> QED
    BY <1>12, <2>1, <2>2 DEF Rx
<1>13. CASE RxReady
  <2>1. UNCHANGED <<medium, programming>> /\ pc # "loop"
    BY <1>13 DEF RxReady, WaitOk, WaitFails, card
  <2>2. CASE Fail
    BY <1>0, <2>1, <2>2, FailAnswers
  <2>3. CASE WaitOk /\ buf' = buf /\ op.kind = "read" /\ reads = 1 /\ Return(TRUE)
    <3>1. op.region \in Regions /\ buf' = Stored /\ buf' \in Data
      BY <1>0, <1>13, <2>3
      DEF RxReady, DataInv, AllInv, AgreeInv, Transfers, Region, TypeOK
    <3>2. programming = {}
      BY <1>0, <2>3 DEF WaitOk, ProgrammingInv
    <3> QED
      BY <1>0, <2>1, <2>3, <3>1, <3>2, ReturnAnswers
  <2>4. CASE buf' = buf /\ op.kind = "verify" /\ Return(TRUE)
    BY <1>0, <2>1, <2>4, ReturnAnswers DEF TypeOK
  <2>5. CASE Continue("cmd0") \/ Continue("cmd17") \/ Continue("switch")
    BY <2>1, <2>5, Stutters DEF Continue
  <2> QED
    BY <1>13, <2>2, <2>3, <2>4, <2>5 DEF RxReady
<1>14. CASE Cmd24
  <2>1. UNCHANGED <<medium, programming>> /\ pc # "loop"
    BY <1>0, <1>14
    DEF Cmd24, BecomesCard, Ignored, Answered, Executes, ProgrammingInv, card
  <2>2. CASE Fail
    BY <1>0, <2>1, <2>2, FailAnswers
  <2>3. CASE Goto("tx")
    BY <2>1, <2>3, Stutters DEF Goto, Continue
  <2> QED
    BY <1>14, <2>2, <2>3 DEF Cmd24
<1>15. CASE Tx
  <2>1. CASE Programs /\ Goto("txReady")
    <3>1. /\ medium' = [medium EXCEPT ![op.region][op.sector] = op.data]
          /\ programming' = {<<op.region, op.sector>>}
      BY <1>15, <2>1, ProgramsStores DEF Tx
    <3>2. op.kind = "write" /\ op.region \in Regions
      BY <1>0, <1>15, TransferAddress DEF Tx, ControlInv, WriteSteps
    <3> QED
      BY <1>15, <2>1, <3>1, <3>2 DEF Tx, Goto, Continue, BS!Store, BS!Writes, BS!Put
  <2>2. CASE Drops /\ Fail
    BY <1>0, <1>15, <2>2, FailAnswers DEF Tx, Drops, BecomesCard, ProgrammingInv
  <2> QED
    BY <1>15, <2>1, <2>2 DEF Tx
<1>16. CASE TxReady
  <2>1. CASE WaitFails("txReady") /\ Fail
    BY <1>0, <1>16, <2>1, FailAnswers DEF TxReady, WaitFails, card
  <2>2. CASE WaitOk /\ buf' = buf /\ Return(TRUE)
    <3>1. op.kind = "write" /\ op.region \in Regions /\ Stored = op.data
      BY <1>0, <1>16
      DEF TxReady, DataInv, AllInv, AgreeInv, Transfers, Region, ControlInv, WriteSteps
    <3>2. programming = {}
      BY <1>0, <2>2 DEF WaitOk, ProgrammingInv
    <3> QED
      BY <1>0, <1>16, <2>2, <3>1, <3>2, ReturnAnswers DEF TxReady, WaitOk, card, TypeOK
  <2> QED
    BY <1>16, <2>1, <2>2 DEF TxReady
<1>17. CASE CardFinish
  BY <1>17 DEF CardFinish, BecomesCard, driver, BS!Settle
<1>18. CASE Restart
  BY <1>18, InterruptedMaps DEF Restart, card, BS!Crash
<1>19. CASE UNCHANGED vars
  BY <1>19 DEF vars, driver, card, BS!vars
<1> QED
  BY <1>1, <1>2, <1>4, <1>5, <1>6, <1>7, <1>8, <1>9, <1>10, <1>11, <1>12, <1>13,
     <1>14, <1>15, <1>16, <1>17, <1>18, <1>19 DEF Next, DriverStep

LEMMA DataInvariant ==
  ASSUME NoPartitionFault, NoLateFault
  PROVE  Spec => [](AllInv /\ DataInv)
<1>1. Init => AllInv /\ DataInv
  BY TypeInit, ConfirmInit, AgreeInit, ProgrammingInit, DataInit DEF AllInv
<1>2. AllInv /\ DataInv /\ [Next]_vars => AllInv' /\ DataInv'
  BY TypeStep, ConfirmStep, AgreeStep, ProgrammingStep, DataStep, NoPartitionFaultMeans
  DEF AllInv
<1> QED
  BY <1>1, <1>2, PTL DEF Spec

\* Under every set of faults but the partition and the late ones, restarts
\* and lost commands included, driver and card implement BlockStore.
THEOREM DriverImplementsBlockStore ==
  ASSUME NoPartitionFault, NoLateFault
  PROVE  Spec => ImplementsBlockStore
<1>1. Init => BS!Init
  BY DEF Init, BS!Init
<1>2. AllInv /\ DataInv /\ [Next]_vars => [BS!Next]_(BS!vars)
  BY StepMaps
<1> QED
  BY <1>1, <1>2, DataInvariant, PTL DEF Spec, ImplementsBlockStore, BS!Spec

\* The promise about replies is BlockStore's: an Answer makes it true, and
\* nothing changes the store before the next request.
LEMMA RepliesStep ==
  ASSUME ReadIsCurrent, AckedIsStored, [BS!Next]_(BS!vars)
  PROVE  ReadIsCurrent' /\ AckedIsStored'
<1> USE DEF ReadIsCurrent, AckedIsStored
<1>1. CASE \E o \in Commands : BS!Request(o)
  BY <1>1 DEF BS!Request
<1>2. CASE BS!Store \/ BS!Settle \/ BS!Reset
  BY <1>2 DEF BS!Store, BS!Settle, BS!Reset
<1>3. CASE BS!Answer
  <2>1. NoReply.tag # "data" /\ Hello.tag # "data" /\ Ack.tag # "data"
        /\ NoReply # Ack /\ Hello # Ack
    BY DEF NoReply, Hello, Ack
  <2>2. \A d : DataReply(d).tag = "data" /\ DataReply(d).data = d /\ DataReply(d) # Ack
    BY DEF DataReply, Ack
  <2> QED
    BY <1>3, <2>1, <2>2 DEF BS!Answer, BS!Writes
<1>4. CASE BS!Crash
  BY <1>4 DEF BS!Crash
<1>5. CASE UNCHANGED BS!vars
  BY <1>5 DEF BS!vars
<1> QED
  BY <1>1, <1>2, <1>3, <1>4, <1>5 DEF BS!Next

\* Under the same faults, the data sent for a read is what the addressed
\* sector holds, and a write is acknowledged only when its block is there.
THEOREM RepliesAreTrue ==
  ASSUME NoPartitionFault, NoLateFault
  PROVE  Spec => [](ReadIsCurrent /\ AckedIsStored)
<1>1. Init => ReadIsCurrent /\ AckedIsStored
  BY DEF Init, ReadIsCurrent, AckedIsStored
<1>2. AllInv /\ DataInv /\ ReadIsCurrent /\ AckedIsStored /\ [Next]_vars
        => ReadIsCurrent' /\ AckedIsStored'
  BY StepMaps, RepliesStep
<1> QED
  BY <1>1, <1>2, DataInvariant, PTL DEF Spec

\* The first half of it: the data sent for a read is what the sector holds.
THEOREM ReadsAreCurrent ==
  ASSUME NoPartitionFault, NoLateFault
  PROVE  Spec => []ReadIsCurrent
BY RepliesAreTrue, PTL

\* The second half: a write that has been acknowledged is stored.
THEOREM AcksAreStored ==
  ASSUME NoPartitionFault, NoLateFault
  PROVE  Spec => []AckedIsStored
BY RepliesAreTrue, PTL
=============================================================================
