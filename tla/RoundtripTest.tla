--------------------------- MODULE RoundtripTest ---------------------------
(***************************************************************************)
(* emmc_roundtrip_test of the new payload: a sector is read, overwritten   *)
(* with a pattern, read back and restored.  The calls of the driver are    *)
(* what EmmcDriver and PioWrite show of them, and one fault more, which    *)
(* the test is there to find: a write reported as done and not done.  (The *)
(* build as it stands has the call of the test commented out.)             *)
(***************************************************************************)
CONSTANTS
  Blocks,   \* contents of a sector
  Pattern   \* 0x0C0FFEE0 ^ i for each word

ASSUME RoundtripAssumption == Pattern \in Blocks

VARIABLES
  step, original, readback, failed, report,
  sector,   \* TEST_BLOCK on the card
  first,    \* history: the sector before the test
  held,     \* history: the pattern was on the card when it was read back
  untrue    \* history: a write was reported as done and was not done

testvars == <<step, original, readback, failed, report, sector, first, held, untrue>>

Reports == {"none", "not read", "failed", "not restored", "not verified", "not original", "passed"}

TestTypeOK ==
  /\ step \in {"read", "write", "verify", "restore", "check", "return"}
  /\ {original, readback, sector, first} \subseteq Blocks /\ failed \in BOOLEAN
  /\ report \in Reports /\ held \in BOOLEAN /\ untrue \in BOOLEAN

-----------------------------------------------------------------------------
(* The driver                                                              *)

\* A write has happened or not, and is reported so or not.
emmc_write_sector(b, ok) ==
  \/ sector' = b /\ UNCHANGED untrue
  \/ UNCHANGED sector /\ untrue' = (untrue \/ ok)

Report(r) == step' = "return" /\ report' = r

TestInit ==
  /\ step = "read" /\ failed = FALSE /\ report = "none" /\ held = FALSE /\ untrue = FALSE
  /\ sector \in Blocks /\ first = sector
  /\ original \in Blocks /\ readback \in Blocks

\* Step 1.  The variables on the stack are what they happen to be before.
ReadOriginal(ok) ==
  /\ step = "read"
  /\ \/ ok /\ original' = sector /\ step' = "write" /\ UNCHANGED report
     \/ ~ok /\ Report("not read") /\ UNCHANGED original
  /\ UNCHANGED <<readback, failed, sector, first, held, untrue>>

\* Step 2.
WritePattern(ok) ==
  /\ step = "write" /\ emmc_write_sector(Pattern, ok)
  /\ step' = (IF ok THEN "verify" ELSE "restore") /\ failed' = ~ok
  /\ UNCHANGED <<original, readback, report, first, held>>

\* Mutant: a readback that fails ends the test.
Verify_Returns(ok) ==
  /\ step = "verify"
  /\ \/ ok /\ readback' = sector /\ step' = "restore" /\ failed' = (sector # Pattern)
        /\ held' = (sector = Pattern) /\ UNCHANGED report
     \/ ~ok /\ Report("failed") /\ UNCHANGED <<readback, failed, held>>
  /\ UNCHANGED <<original, sector, first, untrue>>

\* Step 3: buffers_equal compares all words.
Verify(ok) ==
  /\ step = "verify" /\ step' = "restore"
  /\ \/ ok /\ readback' = sector /\ failed' = (sector # Pattern) /\ held' = (sector = Pattern)
     \/ ~ok /\ failed' = TRUE /\ UNCHANGED <<readback, held>>
  /\ UNCHANGED <<original, report, sector, first, untrue>>

\* Step 4.  After a failure the restoration is not read back.
Restore(ok) ==
  /\ step = "restore" /\ emmc_write_sector(original, ok)
  /\ \/ ~ok /\ Report("not restored")
     \/ ok /\ failed /\ Report("failed")
     \/ ok /\ ~failed /\ step' = "check" /\ UNCHANGED report
  /\ UNCHANGED <<original, readback, failed, first, held>>

\* Step 5.
Check(ok) ==
  /\ step = "check"
  /\ \/ ~ok /\ Report("not verified") /\ UNCHANGED readback
     \/ /\ ok /\ readback' = sector
        /\ Report(IF sector = original THEN "passed" ELSE "not original")
  /\ UNCHANGED <<original, failed, sector, first, held, untrue>>

TestNext ==
  \E ok \in BOOLEAN :
    ReadOriginal(ok) \/ WritePattern(ok) \/ Verify(ok) \/ Restore(ok) \/ Check(ok)

TestSpec == TestInit /\ [][TestNext]_testvars

-----------------------------------------------------------------------------

\* "Roundtrip Test PASSED" means that the pattern has been on the card and that the
\* sector is as before; and unless writes are reported that have not happened, the
\* sector is as before in the end or the report says that it could not be restored.
RoundtripRestores ==
  /\ report = "passed" => held /\ sector = first
  /\ step = "return" /\ sector # first => untrue \/ report = "not restored"
=============================================================================
