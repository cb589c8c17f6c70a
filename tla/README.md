# Verification of the MT8113 eMMC tool

TLA+ models of the download agent in `src/stage2_static`, of the payload it was
written after in `src/stage2_static_orig`, and of the client
`src/mt8113_reflash.py`, model-checked with TLC and, in large part, proved with
TLAPS. Paths below are relative to `src/`; E is `stage2_static/mt8113_emmc.c`, S is
`stage2_static/stage2.c`, T is `stage2_static/tools.c`, R is `mt8113_reflash.py`, O is
`stage2_static_orig`.

## 1. The system

The agent is loaded into a Kobo e-reader by the boot ROM and runs alone there, one
thread without interrupts. The client runs on a PC and talks to it over two USB
bulk pipes. What either does to the user's device is done by the eMMC card. The
original payload has the same structure and a driver of its own, with more
commands (partitions, RPMB) and its own faults.

| part | state | operations | talks to |
|---|---|---|---|
| eMMC driver (E) | `current_partition`, the region last selected; the caller's buffer; locals of the polling loops | `emmc_init`, `emmc_switch_partition`, `emmc_read_sector`, `emmc_write_sector`, `emmc_read_ext_csd`, `emmc_boot0_verify_test`, `emmc_roundtrip_test` | the card through the MSDC controller; called by the command loop |
| PIO data phases (E, O`/drivers/sd.c`) | `timeout_val`, `words_read`, `words_written`, `left`; the FIFOs, the bits of `MSDC_INT` | fill or empty the FIFO, wait for the end of the transfer | shared registers of the controller |
| command loop (S) | `buf` | magic, command and arguments in dwords; 0x1000-0x1003, 0x3000, 0x7000 and memory commands | USB below, driver calls |
| USB session (R, T) | what is in each pipe; how much of a command was sent and of a reply received | `connect`, `send_command`, `usbread`, `read_sector`, `write_sector`, `get_ext_csd` | two bulk pipes that nobody flushes |
| flash operations (R) | range, loop counter, `original_data`, files | `read_flash`, `write_flash`, `read_partition`, `write_partition`, `roundtrip_test` | USB session calls, files, the user |
| GPT and EXT_CSD parsers | none | `parse_gpt`, `find_partition_by_label`, `parse` | called by the flash operations |
| BROM search (T) | the pointers to the boot ROM's routines | `searchparams`, `searchfunc` | called first by `main`; everything else calls through the pointers |
| C library, printf, output | none | `uidiv`, memory and string functions, `_vsnprintf`, `print`, `pdword`, `hex_dump` | compiler-generated calls, the UART |
| original payload (O) | card, host and RPMB structures; `rpmb_key`; bits left in `MSDC_INT` | initialization, `mmc_read`, `mmc_write`, `mmc_set_part`, `mmc_rpmb_read`, `mmc_rpmb_write`, memory commands | its MSDC driver, the card |
| cryptography (O`/crypto`) | hash state | `sha256_*`, `hmac_sha256` | RPMB writes |

What is hard, and what makes each part correct:

* The driver caches the card's partition and skips CMD6 on a hit, while CMD0, a
  warm reset of the SoC and each half-failed switch change the card or the cache
  and not both. *Correct:* every transfer goes to the region the caller named.
* The first read transfer after other traffic may be old data; every read is made
  twice, with error exits in between. *Correct:* what is sent is what the sector
  holds, what is acknowledged is stored.
* Driver and controller run concurrently, and `timeout_val-- > 0` leaves the
  counter at 0 or at 2^32-1 depending on why the loop ended. *Correct:* the result
  tells what happened to the block.
* The original driver does not wait for the end of a data phase: its error turns up
  in the next transfer, and some error paths leave words in the FIFO. *Correct:*
  damage fails some call before another transfer succeeds; a block is its own.
* The original payload looks at few results: not at those of initialization
  commands, of `mmc_set_part`, of RPMB data phases or of RPMB writes. *Correct:*
  without a fault answers are true; with any fault a write is executed once.
* A failed command is answered with silence; Ctrl-C and USB errors end the client
  anywhere, but the agent and the pipes stay. *Correct:* both sides agree where
  commands begin, and a result belongs to the command it is returned for.
* Writes of many sectors stop half way; input files change; labels are ambiguous;
  a verification error must not prevent restoring. *Correct:* nothing outside the
  checked range is written, a prefix is written, the card is restored.
* Algorithms with boundaries: padding of a hash, fields of a formatter, a search
  with partial matches, byte orders of RPMB frames.
  *Correct:* each computes what its caller takes it for.

The complete list, each hazard at its line and with the properties that cover it,
is in `PROJECT.json`.

## 2. Modules

| module | models | theorems |
|---|---|---|
| `BlockStore` | abstract: what the agent promises, a store of sectors, one request at a time | - |
| `EmmcDriver` | E with its caller S against the card, faults and restarts; implements `BlockStore` | `EmmcDriverProofs` |
| `PioWrite`, `PioRead` | the polling loops inside `EmmcDriver`'s `Tx` and `Rx` | `PioProofs` |
| `OrigMsdc` | commands and data phases of O`/drivers/sd.c` | `PioProofs` |
| `Pio` | the three of them side by side, for one run and one specification to prove about | `PioProofs` |
| `OrigPayload` | O's command loop over `drivers/mmc.c`: partitions, blocks, RPMB | `OrigPayloadProofs` |
| `UsbSession` | R's USB calls and S's receive and reply code over the pipes; its card is the store of `BlockStore` | `UsbSessionProofs` |
| `DownloadAgent` | the whole: `UsbSession`'s host and pipes, S's loop, and `EmmcDriver` with its card where `UsbSession` has a store | `DownloadAgentProofs` |
| `ReflashHost` | R's flash operations and `gpt_parser.py`, over sector reads and writes | `ReflashHostProofs` |
| `RoundtripTest` | `emmc_roundtrip_test` over reads and writes that fail or are falsely reported | `LibraryProofs` |
| `Uidiv` | the division of `libc.c`, turn by turn | `LibraryProofs` |
| `CString`, `MemoryCommands` | the memory and string functions; commands 0x4000 and 0x4002 of both payloads | `MemoryProofs` |
| `Printf`, `UartOutput` | `_vsnprintf`; the output functions of T and S | - |
| `SearchParams` | `searchparams` and `searchfunc` | `MemoryProofs` |
| `Sha256` | O`/crypto` block by block | `LibraryProofs` |
| `RpmbFrame` | RPMB requests and responses as bytes | `MemoryProofs` |
| `SdcCommand`, `ClockDivider` | the command word; clock, voltage and bus width | `LibraryProofs` |
| `MCLibrary` | the algorithms together, each over its inputs | `LibraryProofs`, `MemoryProofs` |
| `MCEmmcDriver`, `MCUsbSession`, `MCReflashHost` | values of the constants for TLC | - |

The layers are joined by what they promise, since the product would multiply state
spaces that meet only in a call and a result. The one product there is,
`DownloadAgent`, joins the two largest so that it can be proved that they may be
verified apart. `EmmcDriver` states a data phase as outcomes, `PioWrite` and `PioRead` show which
outcomes there are. `OrigPayload` takes the data phases of `OrigMsdc` as outcomes, too, with the
two things they leave behind in the controller: the error of a transfer that has
returned (`late`, there `owed`) and the words of a read that has broken off (`leftover`,
there `brokeOff`). That link is by hand, not proved.
`RoundtripTest` and `ReflashHost` take sector reads and writes as calls that
succeed, or fail with or without effect.

### EmmcDriver

`pc` is the eMMC command about to be sent or the wait the driver is in; each has
one action, whose outcomes are those of the C code: success, the early return, and
for the calls whose result is ignored, going on. `Region` and `Sector` give the
address in flight (the self-test reads two sectors of boot0 and each read makes
two transfers, counted in `reads`). `Loop` is the dispatch of a command, `Return`
the reply. The card is external: its protocol state, its PARTITION_ACCESS field
(`cardPart`), its contents (`medium`) and whether the next transfer may deliver
old data (`stale`; the comment and the second read in `emmc_read_sector` are the
evidence that it exists). `Restart` is a reset of the SoC, from any step, after which
`main` runs from the beginning; the card keeps its state (warm) or is reset
(cold). Then the sector it was programming may hold anything; `programming` says which
one that is until the card has finished, also when the driver has used up its wait and
is back in the loop (E:455-459). CMD0 in the programming state does the same. In
`BlockStore` such a write is `unsettled`: until it has settled, a reset or the loss of
power may leave anything in its sector, but data and acknowledgements are only sent
when nothing is left to settle.

What goes wrong is the constant `Faults`, pairs such as `<<"lost", "cmd6">>`, so
that every run and theorem says under which faults it holds:

* *partition faults*: response to CMD6 or CMD7 lost, the wait after them used up,
  CMD6 refused. They let card and cache disagree; see the findings.
* *late faults*: the controller reports the end of a transfer after the driver
  stopped looking. `PioWrite` and `PioRead` show when that happens.
* all others: lost responses to other commands, transfer errors, waits used up,
  write commands refused, restarts.

A polling loop is one step here. `msdc_wait_cmd_ready`, `msdc_clear_fifo` and the
FIFO drains poll a controller bit without a limit; they are assumed to end.

### PioWrite, PioRead, OrigMsdc, Pio

One action per turn of a polling loop. In the new driver `timeout_val` is
decremented modulo `Modulus` as the condition does it, also when it fails; the
original driver polls without a limit. The controller shifts words, raises bits of
`MSDC_INT` and moves the card on its own. When it raises the end of a transfer
relative to the driver's polls cannot be read off the code; a variable that no
step changes (`late`, `end`) selects the kind of controller, and each property
says which kind it needs. These conditions are not idle: `OkIsUndamaged` fails for
a controller that ends a transfer after the last word was taken, since the error
bits are looked at once; `ErrorIsDamagedOrSlow` fails for one that ends it with the
last word's arrival, since the loop is left at XFER_COMPL with words still in the
FIFO. `OrigMsdc` needs no such condition: a phase may end at any time after its
command, and history variables (`owed`, `taken`, `brokeOff`) say what later calls
have to answer for. `Pio` runs one of the three per behaviour.

### OrigPayload

One action per eMMC command or exchange of RPMB frames. Each command is executed
and answered, executed with its answer damaged, or lost, and the payload cannot
tell the last two apart. `late` stands for an error bit that a transfer which has
returned 0 leaves for the next. `leftover` stands for words in the FIFO: a read that an
error ends half way returns without `msdc_reset_hw` (O`/drivers/sd.c:114-119`), and every
later block or RPMB response begins with the words it has left and leaves as many of
its own, so that its content is anything until some error path or the initialization
resets the controller (`ResetHw`). `trouble` records that a fault concerns the
command at hand: one that strikes it, or what an earlier one has left for it, an error
bit, a card outside its transfer state or, for commands that read, such words. `named` is
the partition the host has named last, by 0x1002 or by an initialization, and not what
RPMB operations leave the card in: a block asked for after these must fail, as
partition 3 takes no CMD17 and CMD24. The
host sends any command at any time, loads the payload again (`Load`), and power
may be lost (`Stop`). The card is external: it accepts a write with the right
MAC and counter, counts it, and keeps the result. `MaxCounter` bounds the writes.

### UsbSession

`host` is the client's position: no session, between commands, sending dword by
dword, waiting for the reply. `agent` is what the agent's code reads next; it
has no notion of a command's end but having read it. `out` holds dwords, `in` the
packets of the agent's `usbdl_put_data` calls (a sector is sent in chunks, which
`usbread` collects). Every kind of cut is an action: `Abort` while a command is
sent, `Interrupt` while its reply is awaited, a read timeout although a reply
will come ("late"), and `ReceiveOverflow` when a packet is longer than what is
asked for. `ExecFails` is the silence after an error. Sessions follow each other
without end, and `Connect` flushes nothing, as the code.

What the driver promises is a store that executes a command at once or fails, and
for EXT_CSD one of `ExtReplies`: the register, or whatever the buffer holds when it
could not be read.

### DownloadAgent

The variables and actions are those of `EmmcDriver` and of `UsbSession`; new is what
S's loop does between them. It is one thread with the driver: `LoopStep` takes a
dword or sends a packet only while no function of the driver runs (`pc = "loop"`),
`Call` calls the driver when a command has been read, for the request `OpOf(req)`,
and `Result` is the driver's last step together with what the loop makes of its
result (`Respond`). Before the first command the loop waits for `emmc_init`. The
host and the card go on all the time. `held` is auxiliary: what the region held at
the call. `UsbSession`'s store is then `Shown`, which takes in a write when the
driver returns, and `IsUsbSession` says that the whole is `UsbSession` with that
store. `Fits` says what is needed of the constants: of the words of the protocol only
`RegionId` names a region, and whatever can be sent for a sector can be stored.

Two things are simplified. A sector beyond the card, which the host only sends when
the framing is lost, fails like a region that does not exist; the driver would
switch the partition first. And the agent is not loaded again: `Restart` is in
`EmmcDriver` alone, since what `UsbSession` keeps of the agent would restart too.

### ReflashHost

A run of the client: `Start` applies the checks of the operation (`ReadRanges`,
`WriteRanges`, `TestRanges`, `PartitionReadRanges`, `PartitionWriteRanges` are
the ranges that pass them), and one action per sector follows, in the stages of
the operation. `Raise` ends the run anywhere: every call can raise and the user
can interrupt. A write that raises may have taken effect. `Found` is
`find_partition_by_label` over `ParseGpt`; sectors hold entries in units, so that
entry sizes that do not divide a sector are read over its end as `parse_gpt`
does. Sector contents, labels and files are small sets. Dumping EXT_CSD or
the GPT changes nothing and is left out.

### The library

`Uidiv`, `Sha256` and `RoundtripTest` are state machines, one action per turn,
block or call. The rest are pure functions, compared in `MCLibrary` with a
reference that is written independently of the code's way to the result: the
fields the C standard gives a conversion (`Printf!Standard`), the least matching
offset (`SearchParams`), the frame layout of the RPMB standard (`RpmbFrame`), the
padded message cut into blocks (`Sha256!StandardHash`, which an assumption compares
with the digest of "abc" that the standard prints), the smallest factor that makes the
clock not faster than asked for (`ClockDivider`). Recursion is written as recursive
functions and folds: a loop that has no other result than memory is the memory after
each of its turns (`CString!Copied`). A word is the set of its bits or the sequence of its bytes where the code
works on those.

## 3. Runs

| run | bounds | shows |
|---|---|---|
| `driver_benign` | 2 regions and a number that is none, 2 sectors, 2 contents; all faults but partition and late ones | `RightRegion`, `ReadIsCurrent`, `AckedIsStored`, and that driver and card implement `BlockStore` |
| `driver_faults` | 1 sector; all faults but a refused CMD6 | `TypeOK`; a region newly cached is the card's (`NewCacheIsTrue`); commands end |
| `driver_busy_switch` | the wait after CMD6 used up | violation of `RightRegion` (finding 1) |
| `driver_ext_csd` | response to CMD8 lost | violation of `ExtCsdOrZeros` (finding 2) |
| `pio` | 4 words, FIFO of 2, threshold of 1, counters modulo 16 starting at 10 and 6 | what the results of a write and a read say, per kind of controller; in the original payload no silent damage, no foreign words; all transfers return |
| `pio_write_timeout` | the same | violation of `TimeoutIsReported` (finding 3) |
| `usb_session` | 1 sector of 2 chunks of 2 dwords, 2 blocks, 2 upsets | sync, true results, bounded leftovers, framing, commands return |
| `usb_stale_reply` | 2 sectors, 1 interrupt | violation of `ReturnsWhatWasAsked` (finding 4) |
| `reflash_host` | regions of 7 and 2 sectors, files of up to 3 chunks, 24 cards | ranges, prefix, copies, restore, partition lookup, end of the tool |
| `library` | words of 6 bits and all pairs of operands for the division; inputs around the limits for the rest | each algorithm computes what it promises; the roundtrip test's report is true; the division ends |
| `orig_payload` | 2 contents, 2 RPMB addresses, counter up to 2 | blocks and answers are right without a fault, one RPMB write is executed at most once with any, commands end |
| `orig_result` | the same | violation of `ResultIsChecked` (finding 5) |

Why these bounds are enough. The driver holds one cached region, one buffer and
one command: two regions are what it takes to confuse two, and the number that is
no region takes the error exit; two sectors and two contents tell the addressed
sector from another and new data from old. In the PIO loops the block is larger
than the FIFO and the counters start above what one transfer needs and below the
wrap, so that every loop can end for each of its reasons; the theorems lift these
bounds. In `usb_session` a sector is two chunks, so that a reply can be taken in
part, and two upsets let one hit what the other left; `OutCap` is smaller than a
command, so that sending and receiving interleave, and `InCap` is more than two
leftover replies. `reflash_host` runs the tool once from each of several cards: a
run resets all of its state, so a second one is a first one from another card.
Ranges start before, at and after the first sector and end inside, at and beyond
the region; files are empty, short of a sector, and larger than a partition; GPT
headers have entry sizes that divide a sector, do not, are too small and too
large, and a table that runs off the card. In `orig_payload` two contents tell a
block from the cleared buffer, and a counter of 2 lets a write follow one whose
answer was lost. The messages of `library` end on both sides of each padding
case; the numbers fill, overfill and underfill their fields; each boot ROM is
built of up to three fragments, some of them half a pattern. Deadlock is switched
off where the system may stop: a tool that is not started again, a call that has
returned.

Fairness. The agent is one loop that never yields and the client is one process:
weak fairness of "some step of it" (`DriverStep`, `AgentStep`, `Driver`, the
polling loops, `Work`, `Step`) is what a running processor gives. `CardFinish` and
`CardReady` are fair because a card ends a programming or data state; a card that
does not answer within the polls of the new driver is the fault "busy", not
unfairness. The original driver has no limit on its polls, so `TransfersEnd` and
`CommandEnds` of `OrigPayload` need that the controller answers (`Controller`) and
that a status poll is not lost for ever (`Status("ok")`): the properties then say
that the driver waits for nothing that does not come. Client calls end because
pyusb's timeouts expire (`HostWrites`, `HostReads`). Nothing is assumed of the
user, of `Restart` (`CommandEnds` is stated for behaviours that do not restart for
ever) or of the controller in `PioWrite` and `PioRead`.

## 4. Findings

1. `driver_busy_switch`. When the wait after an executed CMD6 is used up,
   `emmc_switch_partition` returns -1 and leaves `current_partition` at the old
   region (E:301-304). The next command for the old region hits the cache and
   transfers to the region the card has switched to.
2. `driver_ext_csd`. When the second attempt of `emmc_read_ext_csd` fails, the
   buffer sent holds what the first, discarded attempt read; S:131 says zeros.
3. `pio_write_timeout`. `if (timeout_val == 0)` after the XFER_COMPL loop (E:444)
   is not taken when the loop was exhausted, and is taken when XFER_COMPL came at
   the last poll.
4. `usb_stale_reply`. A reply whose reader was interrupted is the result of the
   next session's first command.
5. `orig_result`. `mmc_rpmb_write` (O`/drivers/mmc.c:879`) returns 0 for a write that
   the card has refused, the result being printed only.

Seen on the way, without a run:

* `write_partition` says it "Validates that file size matches partition size
  exactly" (R:476) and, after a confirmation, writes a smaller one.
* A `roundtrip-test` that raises after its first write leaves the test pattern
  (R:625). `emmc_roundtrip_test` does not read back the restoration it makes after a
  failure.
* A write command that is cut off takes the next session's dwords for its data.
* `uidiv` loses the top bit of a quotient of 2^31 or more: 0x80000000 / 1 is 0
  (`stage2_static/libc.c:45`).
* `__aeabi_uidivmod` (`libc.c:59`) returns the remainder alone. For the Cortex-A9 of
  the Makefile the compiler calls it for `%` and expects the quotient in r0 and the
  remainder in r1. The models translate C, where `%` and `/` are what they should be;
  the new payload prints numbers without dividing.
* After a read of the original payload has broken off, every later 0x1000 or 0x2000 may
  send shifted data as if it were good, until a command fails or 0x6000 resets the
  controller (`leftover` in `OrigPayload`).
* A region number of 0xFF, which S:95 and S:110 take from the pipe unchecked, is a hit
  of the cache until the first `emmc_init` that succeeds (E:112, E:285) and transfers to
  whatever region the card is in. `ConstantsAssumption` leaves it out, and with it
  `DownloadAgent` (`Fits`): the client sends 0 to 2.
* `u32_to_str` returns one static buffer, so that a `printf` of two numbers prints
  the second twice (S:51).
* When no boot ROM has the UART's code, `searchparams` goes on with
  `brom_bases[3]`, behind the array (T:140).

## 5. Theorems

For every value of the constants: any regions, sectors, data, fault sets, sizes of
blocks, FIFOs and words, partition tables, files, command lines. The assumptions on
constants are the named ASSUMEs, which TLC evaluates in the runs of their modules.

| theorem | states | assumes |
|---|---|---|
| `EmmcDriverProofs!TypeCorrect` | `Spec => []TypeOK` | - |
| `CacheIsTrueWhenSet` | `Spec => NewCacheIsTrue` | CMD6 is not refused |
| `RegionsAreRight` | `Spec => []RightRegion` | no partition faults |
| `DriverImplementsBlockStore` | `Spec => ImplementsBlockStore` | no partition, no late faults |
| `ReadsAreCurrent`, `AcksAreStored` | `[]ReadIsCurrent`, `[]AckedIsStored` | the same |
| `PioProofs!TypeCorrect` | no FIFO overflows or underflows, counters in range | `PioAssumption` |
| `WriteResultsTell`, `ReadResultsTell` | `[]WriteTells`, `[]ReadTells` | the same |
| `DamageIsReported`, `BlocksAreOwn` | `[]NoSilentDamage`, `[]ReadIsOwnBlock` | the same |
| `WritesEndAsModelled` | `WriteOutcomes`, with `TxFaults` | the same, `Transfers`, and a bus that may fail a write |
| `ReadsEndAsModelled` | `ReadOutcomes`, with `RxFaults` | the same, `Transfers`, and a bus that may fail a read |
| `OrigPayloadProofs!TypeCorrect` | `Spec => []TypeOK` | - |
| `WritesAreExecutedOnce` | `Spec => []WriteOnce`, under every fault | - |
| `BlocksAreThose`, `AnswersHold` | `[]BlocksAreRight`, `[]AnswersAreTrue` | - |
| `UsbSessionProofs!TypeCorrect` | `Spec => []TypeOK` | `UsbSessionAssumption` |
| `FramingHolds`, `LeftoversAreBounded` | `[]FramingSurvives`, `[]LeftoversBounded` | and `InCap >= MaxUpsets * Packets`, those of a sector |
| `StaysInSync`, `UndisturbedHostIsRight` | `[]InSync`, `[]UndisturbedResultsAreTrue` | `UsbSessionAssumption` only |
| `StackIsUsbSession` | `StackSpec => IsUsbSession` | `Fits`; no partition, no late faults |
| `HostAgreesWithCard` | `StackSpec => []HostAndCardAgree` | the same |
| `CardHoldsBlocks` | `StackSpec => []OnlyBlocksOnCard` | and `InCap >= MaxUpsets *` packets of a sector |
| `StackRegionsAreRight` | `StackSpec => []RightRegion` | `Fits`; no partition, no late faults |
| `ReflashHostProofs!TypeCorrect` | `Spec => []TypeOK` | `ReflashHostAssumption` |
| `WritesStayInside`, `WritesArePrefixes` | `[]StaysInside`, `[]WrittenPrefix` | the same |
| `ReadsAreCopies`, `TestLeavesCard` | `[]ReadIsCopy`, `[]TestRestores` | the same |
| `FirstIsFound` | `[]FindsTheFirst` | the same |
| `LibraryProofs!TestRestores` | `TestSpec => []RoundtripRestores` | - |
| `DivisionTypeCorrect`, `Division` | `[]TypeOK`, `[]DivisionIsRight` of `Uidiv` | `Modulus` is even and positive |
| `DigestsAreStandard` | `HashSpec => []DigestIsStandard` | messages and keys are sequences of bytes |
| `DigestsAreRight` | `MCSpec => []DigestIsOfMessage` | - |
| `ClockIsRight` | `ClockFits` for any two frequencies | source clock + 4 * 200 MHz - 1 below 2^32 |
| `VoltageIsRight`, `FieldIsRight` | `VoltageFits`, `FieldFits` for any registers | - |
| `CommandsAreRight` | `WordFits` | a command that `mmc.c` sends |
| `SetUpIsRight` | `MCSpec => []SetUpFits` | - |
| `MemoryProofs!WritesFit` | `WriteFits` for any block, counter, secret and result | their sizes in bytes |
| `FramesRight` | `MCSpec => []FramesAreRight` | - |
| `WriteIsRight` | `WritesRight` for any memory, address, size and data | the range lies in memory, enough was sent |
| `CopyIsRight`, `StringCopyIsRight` | `CopiesRight`, `StringCopiedRight` for any memory and addresses | the ranges lie in memory; for `strcpy` a 0 follows |
| `StringsAreRight` | `ComparesRight` for any two strings and count | a string ends with its only 0 |
| `MemoryRight` | `MCSpec => []MemoryIsRight` | - |
| `SearchIsRight` | `searchfunc` returns the first place of any pattern in any range | the pattern is not empty, the range does not begin at 0 |
| `RoutinesAreFound` | `Found` for any three ROMs | they are longer than the vectors; one has the UART's code |
| `FindsRight` | `MCSpec => []FindsRoutines` | - |

The fault of `driver_busy_switch` is one that `RegionsAreRight` excludes: the
assumption is needed.

*The driver.* One inductive invariant built up in layers. `TypeInv` adds to
`TypeOK` which commands reach which steps and after how many transfers
(`ControlInv`); without it `reads` and `Region` are not bounded where they are used.
`ConfirmInv` says where the card is at the two points where the cache is set, and
holds under all faults but one: it gives `NewCacheIsTrue`. `AgreeInv` says that a
cached region is the card's outside those points; it needs that no partition fault
strikes, and gives `RightRegion`. `DataInv` follows the block: the buffer of a write
is the request's until the transfer, the second read of a pair is not stale and its
buffer is the sector. The refinement maps each step of `EmmcDriver` to one of
`BlockStore` or to a stutter: `Tx` that programs to `Store`, every return to the loop
to `Answer`, `Restart` to `Crash`, `CardFinish` to `Settle`, a CMD0 that interrupts the
card to `Reset`. `ProgrammingInv` ties the sector in `programming` to the state of the
card, so that every wait that succeeds has seen the write end.

*The data phases.* Each machine has an invariant that counts words: those the
driver has put down are in the FIFO or on the card (`WriteCountInv`), those that
have arrived are in the buffer or in the FIFO (`ReadCountInv`), those moved by the
original driver are of this transfer (`MsdcCountInv`). To these come what a raised
bit says of the block (`WriteCardInv`, `ReadBitsInv`), how far the counter can be
down when the end is seen (`WriteLimitInv`, `WriteSeenInv`), when a reader may leave
its loop (`ReadEndInv`), and that damage nobody was told of is in a bit of `MSDC_INT`
which a transfer looks at before its first word (`MsdcDamageInv`).
With these the two levels of the driver are tied together. `Tx` and `Rx` in
`PioProofs` are `EmmcDriver` with its variables computed from those of the loops: a
transfer stays at its step `tx` or `rx` until the driver knows its result and, for a
write, the card knows what to do with the block, and then shows what has become of
it. Every step of the loops is then a step `Tx`, `TxReady`, `CardFinish` or `Rx`, or
does not show, provided `EmmcDriver` has the faults of that controller: `error` on the
bus always; `late` and `busy` for one that may end a write after the polls, and `late`
for one that may end a read other than with its last word. TLC finds a step without
a counterpart when any of the five is taken away.

*RPMB.* `OnceInv` says that until the write request goes out neither the counter
nor the data has changed since the command came, and which requests belong to
which command: behind the write request only the steps that ask for its result
follow, so that no second one can. What the host may believe needs four more
parts, all under the condition that no fault has struck since the command came:
`PartInv`, that the card has the partition named last, or that of RPMB, except while a
command switches (this one holds under faults, too, since a switch that may have failed
makes the name unknown); `LeftInv`, that an untroubled command that reads finds no words
of another in the FIFO; `BlockInv`, that a block read or written is still the
card's until the next command; `AnswerInv`, that a request, the counter in it and
the response to it belong together.

*The pipes.* `Framed` says that there is a chain of places, one before each dword in
`out` and one behind the last, along which each dword follows from the command it
belongs to (`Linked`): the agent is at the first place, the host at the last. A place
also counts the packets that the commands ending behind it will cause. With it
`Debt` bounds what is and will be in the pipe to the host by one reply for each
upset, which gives the two properties. It also excludes `SendTimeout`: the agent
can only be stuck, with a command of the host half sent, when replies nobody reads
fill the pipe. That needs the pipe to hold them; a smaller one would let the host
give up in the middle of a command, which is the case `Abort` stands for.
As long as nothing is cut off no such bound is needed, and more is known
(`Together`): one command is under way at a time. What the agent has taken and what
is in `out` are the dwords of the host's command; from then on `req` is that
command; and what the host has received, `in` and `toSend` are, one after the other,
the packets of its reply. A driver that fails leaves the host waiting with nothing in
the pipes, and `ReceiveTimeout`, the first upset, can only strike in that state.

*The whole.* `DownloadAgentProofs` joins the two results before it: the pipes are right
over a store that executes or fails, the driver and its card are such a store. Each
step of the whole is a step of `EmmcDriver` or leaves it alone (`DriverSteps`), and a
step of `UsbSession` or nothing to it (`StackStep`), with the invariants of both
and one more, `Waiting`: while the driver works the loop stands still, with the request
that the driver was called for, and the region holds what it held at the call or that
with the block of the command. It follows from the driver's refinement that nothing
else can have happened to the card (`WorkWrites`), so that a write that failed is
`ExecFails` with or without effect, one that was acknowledged is `ExecWrite` and a read
is `ExecRead` (`ResultMaps`). Every theorem about `UsbSession` then holds of
the card itself: `HostAgreesWithCard` says of what the user of the client gets, and of
the flash chip, what neither part could say alone. Both theorems are about the card at
every moment, not only about `Shown` between two calls: while the driver works the
host has no result in its hands, by `InSync`, and what it writes is the block of the
request, by `Stored`.

*The flash operations.* `RangeInv` ties the range of each stage to the one that
was checked; `AheadInv` says that the sectors a write has not reached are
untouched, `SavedInv` that what was read is what was there and what was restored
is so again; `FreshInv` and `KindInv` say which stages have not written. The
properties are part of the invariant because they speak of stages that have
ended. Partition lookup rests on arithmetic alone: `TableFits` shows that the
sectors read, counted with rounding, hold all the entries for any entry size up
to a sector, so that `parse_gpt` never cuts the table (`WholeTable`).

*The division.* The invariant of the second loop is
`arg = quo * tmp + num /\ num < 2 * tmp`, and that `tmp` is a chain of doublings
of the divisor (`Doubling`, an existential over functions): halving an arbitrary
number would lose a bit, halving a doubling does not. That the doubled quotient is
still a word is where the excluded operands would break it.

*The hash.* A message is hashed through a buffer of a block: `Update` fills it and
hands it on, `Final` pads it, in one block or two. The invariant (`HashInv`) says
that the state is the standard's chain over the blocks taken so far, the buffer the
beginning of the next one and `todo` what is left of the message, and which message
that is: the key, the inner or the outer one of a MAC. What is left to show is that
the padding of the code and that of the standard are the same bytes, in the case
where the length fits into the last block and in the other. What the compression does to
a block plays no part; that it is SHA-256's is left to the digest of "abc". The chain
of states is a recursion over the naturals: that it has a solution and that each state
follows from the one before (`AfterIs`) is proved from the least number at which it
would not (`LeastElement`, from `WFMin`), since an induction theorem that takes an
operator cannot be used.

*The set-ups.* `ClockIsRight` is arithmetic: the divisor is a quotient rounded up, so
that the clock is not faster than asked for and with a smaller divisor would be
(`QuotientIs`, `Grows`). It needs that the sum which is divided stays below 2^32; the
source clocks of the run are such, a faster one would make the code's sum wrap.

*The frames.* A frame is put together by copies into a cleared block of 512 bytes. The
lemmas give each byte of it: those of a field where the field lies, the others as before
(`CopiedAt`), and the same of the standard's concatenation (`StandardIs`); two frames
with the same bytes are the same. A counter of any value is swapped on its way in
and out, a block is turned around, and both come back as they were (`WritesFit`).

*Memory and strings.* A loop of `libc.c` is a function that is defined by a step: what
it gives at one place is what it gives at the next, unless it stops. That there is such
a function is not obvious, as nothing says that the loop ends: `LoopExists` takes for
each place the end of the path from there, if it has one, and `LoopIs` says that the
function gives its value. Of a scan this is the first place where it stops
(`ScanIs`): `strlen`, the comparisons and `strstr` follow, each with its own places to
stop. A copy is described by the memory after each turn, for which there is a closed form
(`Overlaid`): the bytes copied so far are those of the source modulo the distance of the
two ranges when the second lies on the first (`TurnReads`). `WriteIsRight` adds the
way of 0x4000: dwords swapped twice, joined, and cut to the size (`Received`,
`StoredAre`).

*The search.* `searchfunc` keeps its count of matches across the turns of both loops and
clears it only where a comparison fails. `Looked` and `Known` say what is
known after each turn of the inner and of the outer loop: the count is 0 when a turn of
the outer loop begins, so it is the number of halfwords that match from this
offset on, and what has been found is the least place of the pattern. The mutant of the
model, which keeps the count, breaks exactly this. Nothing else depends on the ROM: the
forms of `send_usb_response` are places moved back by what lies before the pattern
(`ResponseIs`), the repeated search for `usbdl_get_data` is a loop like those of
`libc.c` (`GetDataIs`, by `LoopIs`). That the loop over the ROMs ends at one of them is a hypothesis,
since otherwise it reads behind `brom_bases`.

The corollaries about `MCSpec` add that the inputs of the run are ones that the
theorems speak of. The theorems themselves are about all inputs.

Only model-checked: all liveness (`CommandEnds`, `TransfersEnd`, `CommandReturns`,
`ToolEnds`, `Ends`), which is out of the prover's reach; and of the library
`OutputConforms`: `_vsnprintf` parses its format with nested folds over characters and
digits, which would need induction over them, with strings of characters that the
provers know nothing of. Only proved, on the other hand, is what is said of
`DownloadAgent`: its two parts have runs of their own, the product has none.

## 6. Not modelled

* `ext_csd_parser.parse`: three fields and a product, `Size` in `ReflashHost`.
* The commands 0x3001 (watchdog register) and 0x5000 (CPU control registers): they
  touch no state that another command looks at. Memory commands of more than the
  512 bytes of the buffer, which nothing checks.
* In `searchparams`, the literal pool address `ldr_lit` computes from an instruction.
* In the original payload: pin and tuning registers that nothing reads, SDIO,
  interrupts and auto commands that no caller enables; most of `mt_sd.h` is register
  layouts. In `printf.c`: floating point and long long, which are configured out,
  and the variants that write to a caller's buffer, which nobody calls.
* Delays, start-up code, link script, reverse-engineering notes: no state of the
  protocol.
* Unlimited polls of controller bits in E, torn contents of sectors other than the
  one being programmed at a power loss, misread GPT sectors.

## 7. Plan

Built, in this order: `BlockStore` and `EmmcDriver` with proofs, the PIO loops,
`UsbSession`, `ReflashHost`, `Uidiv` with proofs; then the original payload
(`OrigMsdc`, `OrigPayload`), the library, `RoundtripTest`, the proofs of all of
these, the data phases as a refinement of the driver, the theorems about the
library's functions and the search through the boot ROM, and last `DownloadAgent`, the
refinement of the store that `UsbSession` talks to by the driver. Left is what
`DownloadAgent` leaves out: the agent loaded again in the middle of a session, and
`ReflashHost` over the whole instead of over sector reads and writes that succeed or
fail.
