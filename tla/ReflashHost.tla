----------------------------- MODULE ReflashHost -----------------------------
(***************************************************************************)
(* The flash operations of mt8113_reflash.py: read, write, read-partition, *)
(* write-partition and roundtrip-test, each a loop of read_sector and      *)
(* write_sector calls over a range of sectors, between files and the card. *)
(*                                                                         *)
(* A call either takes effect or raises; a write that raises may have      *)
(* taken effect.  (UsbSession and EmmcDriver say when that is so.)  The    *)
(* user may interrupt the tool anywhere.  What else can happen is recorded *)
(* in the variable upset: the input file grows after its size was looked   *)
(* at, or a read delivers something that is not in the sector.  The sectors*)
(* of the GPT are read without such an error.                              *)
(*                                                                         *)
(* A sector of the card is a member of Data.  A file is a sequence of      *)
(* chunks of 512 bytes, the last of which may be shorter.                  *)
(***************************************************************************)
EXTENDS Integers, Sequences

CONSTANTS
  Regions, Userdata,  \* regions, and the one that has the GPT
  Size,               \* [Regions -> Nat]: the sizes EXT_CSD reports
  Data,               \* contents of a sector
  Misreads,           \* contents a read may deliver for those of a sector
  Chunks, Padded,     \* chunks of files; [Chunks -> Data]: zero-padded
  Pattern(_),         \* generate_test_sector
  Labels, Lower,      \* partition labels; [Labels -> Labels]: str.lower
  Header,             \* [Data -> GPT headers]: lba, num and size of the entries
  NoGpt,              \* or: the sector has no GPT signature
  Entries,            \* [Data -> Seq]: a sector as entries, if cut into units
  Unused,             \* an entry that is not used
  SectorUnits,        \* units of a sector
  EntryUnits,         \* units of the smallest entry (128 bytes)
  Files, Stores,      \* input files, and initial contents of the card
  Operations,         \* the command lines the tool is run with
  MaxRuns             \* bound on the number of runs of the tool

ASSUME ReflashHostAssumption ==
  /\ Userdata \in Regions
  /\ Size \in [Regions -> Nat] /\ Size[Userdata] > 1
  /\ Misreads \subseteq Data
  /\ EntryUnits \in Nat \ {0} /\ SectorUnits \in Nat \ {0}
  /\ \A d \in Data :
       /\ Header[d] # NoGpt => {Header[d].lba, Header[d].num, Header[d].size} \subseteq Nat
       /\ DOMAIN Entries[d] = 1..SectorUnits
       /\ \A u \in 1..SectorUnits : Entries[d][u] # Unused =>
            Entries[d][u].first \in Nat /\ Entries[d][u].last \in Nat
  /\ Padded \in [Chunks -> Data]
  /\ Lower \in [Labels -> Labels]
  /\ \A o \in Operations :
       /\ o.kind \in {"read", "write", "roundtrip", "readPartition", "writePartition"}
       /\ o.region \in Regions /\ o.start \in Int /\ o.num \in Int /\ o.label \in Labels
       /\ \A k \in 0..(o.num - 1) : Pattern(k) \in Data
  /\ Files \subseteq Seq(Chunks)
  /\ \A st \in Stores : st \in [Regions -> Seq(Data)] /\ \A r \in Regions : Len(st[r]) = Size[r]
  /\ MaxRuns \in Nat

VARIABLES
  pc,       \* "off", "start", a stage of an operation, or "prompt"
  op,       \* the command line
  start, num, \* the range of sectors: the first, and how many
  i,        \* sectors done in this stage
  file,     \* the input file
  saved,    \* sectors read: the output file, or original_data
  errors,   \* sectors with verification errors
  result,   \* how the last run of the tool ended
  store,    \* contents of the card
  before,   \* and what it had when the tool was started
  upset, runs

host == <<pc, op, start, num, i, saved, errors, result>>
vars == <<host, file, store, before, upset, runs>>

Grown == <<"grown", "file">>
Stages == {"read", "write", "testRead", "testWrite", "testVerify", "testRestore"}

TypeOK ==
  /\ pc \in {"off", "start", "prompt"} \cup Stages
  /\ op \in Operations
  /\ start \in Int /\ num \in Int /\ i \in Nat
  /\ file \in Seq(Chunks)
  /\ saved \in Seq(Data) /\ (saved = <<>> \/ Len(saved) <= num)
  /\ errors \subseteq Nat
  /\ result \in {"none", "done", "raised", "cancelled", "passed", "failed"}
  /\ store \in [Regions -> Seq(Data)] /\ before \in [Regions -> Seq(Data)]
  /\ upset \subseteq {Grown} \cup {<<"misread", stage>> : stage \in Stages}
  /\ runs \in 0..MaxRuns

\* Sectors are numbered from 0: sector s of region r is store[r][s + 1].
OnCard(r, s) == s \in 0..(Size[r] - 1)
Region == IF op.kind \in {"readPartition", "writePartition"} THEN Userdata ELSE op.region

-----------------------------------------------------------------------------

End(how) == pc' = "off" /\ result' = how /\ UNCHANGED <<op, start, num, i, saved, errors>>

\* main: a command line, with an input file.
Launch(o, f) ==
  /\ pc = "off" /\ runs < MaxRuns
  /\ pc' = "start" /\ op' = o /\ file' = f
  /\ start' = 0 /\ num' = 0 /\ i' = 0 /\ saved' = <<>> /\ errors' = {}
  /\ result' = "none" /\ before' = store /\ upset' = {} /\ runs' = runs + 1
  /\ UNCHANGED store

\* Any call of the USB layer, of the operating system or of a parser may
\* raise, and the user may interrupt: the tool exits.
Raise ==
  /\ pc # "off" /\ End("raised")
  /\ UNCHANGED <<file, store, before, upset, runs>>

Stage(label, s, n) ==
  /\ pc' = label /\ start' = s /\ num' = n /\ i' = 0
  /\ UNCHANGED <<op, saved, errors, result, file, store, before, upset, runs>>

\* What an operation goes on with when its checks are passed: a stage, and the
\* range of sectors.
Span(label, s, n) == [stage |-> label, start |-> s, num |-> n]

\* The bounds checks of read_flash, write_flash and roundtrip_test, with the
\* region sizes of the EXT_CSD just read.
InBounds(r) == r.start < Size[op.region] /\ r.start + r.num <= Size[op.region]

\* Length 0 is the rest of the region.
ReadRanges ==
  LET n == IF op.num = 0 THEN Size[op.region] - op.start ELSE op.num
  IN {r \in {Span("read", op.start, n)} : InBounds(r)}

WriteRanges ==
  {r \in {Span("write", op.start, Len(file))} : InBounds(r)}

TestRanges ==
  {r \in {Span("testRead", op.start, op.num)} : InBounds(r)}

\* Mutant: entries of the last sector that is not full are left out.
SectorsNeeded_RoundedDown(h) == h.num \div (SectorUnits \div h.size)

\* read_gpt: how many sectors of entries are read.
SectorsNeeded(h) ==
  LET perSector == SectorUnits \div h.size IN (h.num + perSector - 1) \div perSector

\* No GPT signature, a division by 0, an entry smaller than 128 bytes or a sector
\* that is not on the card end read_gpt before it has a table.
Readable(h) ==
  /\ h # NoGpt /\ h.size \in 1..SectorUnits
  /\ h.num > 0 => h.size >= EntryUnits
  /\ \A k \in 0..(SectorsNeeded(h) - 1) : OnCard(Userdata, h.lba + k)

HeaderOf(st) == Header[st[Userdata][2]]

\* parse_partition_entry: the entry at a place of the table, in the sectors read.
Entry(st, k) ==
  LET unit == k * HeaderOf(st).size
      sector == HeaderOf(st).lba + (unit \div SectorUnits)
  IN Entries[st[Userdata][sector + 1]][(unit % SectorUnits) + 1]

\* parse_gpt: the places of the used entries among those that lie in the data read.
ParseGpt(st) ==
  LET h == HeaderOf(st)
      length == SectorsNeeded(h) * SectorUnits
      n == IF h.num * h.size > length THEN length \div h.size ELSE h.num
  IN IF Readable(h) THEN {k \in 0..(n - 1) : Entry(st, k) # Unused} ELSE {}

SameLabel(p) == Lower[p.name] = Lower[op.label]

\* find_partition_by_label: the first partition with the label.
Found(st) ==
  {Entry(st, k) : k \in {j \in ParseGpt(st) :
     /\ SameLabel(Entry(st, j))
     /\ \A e \in ParseGpt(st) : e < j => ~SameLabel(Entry(st, e))}}

SizeOf(p) == p.last - p.first + 1

PartitionReadRanges ==
  {Span("read", p.first, SizeOf(p)) : p \in Found(store)}

\* Mutant: a file that is too large for the partition is not refused.
PartitionWriteRanges_AnySize ==
  {Span(IF Len(file) < SizeOf(p) THEN "prompt" ELSE "write", p.first, Len(file)) :
     p \in Found(store)}

\* A file smaller than the partition is written only if the user confirms.
PartitionWriteRanges ==
  {Span(IF Len(file) < SizeOf(p) THEN "prompt" ELSE "write", p.first, Len(file)) :
     p \in {f \in Found(store) : Len(file) <= SizeOf(f)}}

Ranges == CASE op.kind = "read" -> ReadRanges
            [] op.kind = "write" -> WriteRanges
            [] op.kind = "roundtrip" -> TestRanges
            [] op.kind = "readPartition" -> PartitionReadRanges
            [] op.kind = "writePartition" -> PartitionWriteRanges

Start == pc = "start" /\ \E r \in Ranges : Stage(r.stage, r.start, r.num)

\* A check failed, or the next sector number is none of the card's.
Refuse ==
  /\ \/ pc = "start" /\ Ranges = {}
     \/ pc \in Stages /\ ~OnCard(Region, start + i)
  /\ Raise

Confirm == pc = "prompt" /\ Stage("write", start, num)
Decline == pc = "prompt" /\ End("cancelled") /\ UNCHANGED <<file, store, before, upset, runs>>

-----------------------------------------------------------------------------

\* read_sector: the contents of the sector, or a misread.
ReadSector(d) ==
  /\ OnCard(Region, start + i)
  /\ \/ d = store[Region][start + i + 1] /\ UNCHANGED upset
     \/ d \in Misreads \ {store[Region][start + i + 1]} /\ upset' = upset \cup {<<"misread", pc>>}
  /\ i' = i + 1
  /\ UNCHANGED <<pc, op, start, num, result, file, store, before, runs>>

\* write_sector returns True; or it raises, the sector having been written.
WriteSector(d) ==
  /\ OnCard(Region, start + i)
  /\ store' = [store EXCEPT ![Region][start + i + 1] = d]
  /\ \/ i' = i + 1 /\ UNCHANGED <<pc, op, start, num, saved, errors, result>>
     \/ End("raised")
  /\ UNCHANGED <<file, before, upset, runs>>

Finish(how) == End(how) /\ UNCHANGED <<file, store, before, upset, runs>>

\* Mutant: one sector is left out of the loop.
Read_OneShort ==
  /\ pc = "read"
  /\ \/ i < num - 1 /\ \E d \in Data : /\ ReadSector(d) /\ saved' = Append(saved, d)
                                      /\ UNCHANGED errors
     \/ i >= num - 1 /\ Finish("done")

\* Mutant: a sector is kept after the last one of the range.
Read_OneMore ==
  /\ pc = "read"
  /\ \/ i <= num /\ \E d \in Data : /\ ReadSector(d) /\ saved' = Append(saved, d)
                                   /\ UNCHANGED errors
     \/ i > num /\ Finish("done")

\* read_flash and read_partition.
Read ==
  /\ pc = "read"
  /\ \/ i < num /\ \E d \in Data : /\ ReadSector(d) /\ saved' = Append(saved, d)
                                  /\ UNCHANGED errors
     \/ i >= num /\ Finish("done")

\* Mutant: the loop goes on after a write that failed.
Write_GoesOn ==
  /\ pc = "write"
  /\ \/ i < Len(file) /\ WriteSector(Padded[file[i + 1]])
     \/ /\ i < Len(file) /\ i' = i + 1
        /\ UNCHANGED <<pc, op, start, num, saved, errors, result>>
        /\ UNCHANGED <<file, store, before, upset, runs>>
     \/ i = Len(file) /\ Finish("done")

\* Mutant: the end of the file is not noticed.
Write_NoEnd ==
  /\ pc = "write"
  /\ \/ i < Len(file) /\ WriteSector(Padded[file[i + 1]])
     \/ i = Len(file) /\ UNCHANGED vars

\* write_flash and write_partition: the file is read until its end, whatever
\* its size was when it was checked.
Write ==
  /\ pc = "write"
  /\ \/ i < Len(file) /\ WriteSector(Padded[file[i + 1]])
     \/ i = Len(file) /\ Finish("done")

-----------------------------------------------------------------------------
(* roundtrip_test                                                          *)

TestRead ==
  /\ pc = "testRead"
  /\ \/ i < num /\ \E d \in Data : /\ ReadSector(d) /\ saved' = Append(saved, d)
                                  /\ UNCHANGED errors
     \/ i >= num /\ Stage("testWrite", start, num)

TestWrite ==
  /\ pc = "testWrite"
  /\ \/ i < num /\ WriteSector(Pattern(i))
     \/ i >= num /\ Stage("testVerify", start, num)

\* Mutant: a verification error ends the test.
TestVerify_EndsAtError ==
  /\ pc = "testVerify"
  /\ \/ i < num /\ \E d \in Data : /\ ReadSector(d) /\ d = Pattern(i)
                                  /\ UNCHANGED <<saved, errors>>
     \/ i < num /\ Finish("failed")
     \/ i >= num /\ Stage("testRestore", start, num)

TestVerify ==
  /\ pc = "testVerify"
  /\ \/ /\ i < num /\ UNCHANGED saved
        /\ \E d \in Data :
             /\ ReadSector(d)
             /\ errors' = IF d = Pattern(i) THEN errors ELSE errors \cup {start + i}
     \/ i >= num /\ Stage("testRestore", start, num)

TestRestore ==
  /\ pc = "testRestore"
  /\ \/ i < num /\ WriteSector(saved[i + 1])
     \/ i >= num /\ Finish(IF errors = {} THEN "passed" ELSE "failed")

-----------------------------------------------------------------------------

\* The input file is appended to while the tool runs (external).
Grow(c) ==
  /\ op.kind \in {"write", "writePartition"} /\ pc \in {"prompt", "write"}
  /\ Grown \notin upset
  /\ file' = Append(file, c) /\ upset' = upset \cup {Grown}
  /\ UNCHANGED <<host, store, before, runs>>

Init ==
  /\ pc = "off" /\ op \in Operations /\ start = 0 /\ num = 0 /\ i = 0
  /\ file = <<>> /\ saved = <<>> /\ errors = {} /\ result = "none"
  /\ store \in Stores /\ before = store /\ upset = {} /\ runs = 0

Work ==
  \/ Start \/ Refuse
  \/ Read \/ Write \/ TestRead \/ TestWrite \/ TestVerify \/ TestRestore

Next ==
  \/ \E o \in Operations, f \in Files : Launch(o, f)
  \/ Work \/ Raise
  \/ Confirm \/ Decline \/ \E c \in Chunks : Grow(c)

Spec == Init /\ [][Next]_vars

\* The tool runs; nothing obliges the user to answer the prompt, or to start it.
FairSpec == Spec /\ WF_vars(Work)

-----------------------------------------------------------------------------
(* Correctness                                                             *)

Writes == op.kind \in {"write", "writePartition"}
Reads == op.kind \in {"read", "readPartition"}

Changed(r, s) == store[r][s + 1] # before[r][s + 1]

\* Whatever is interrupted or goes wrong, only sectors of the range that was
\* checked are written: inside the region, and inside the partition named.
StaysInside ==
  Grown \notin upset =>
    \A r \in Regions : \A s \in 0..(Size[r] - 1) :
      Changed(r, s) =>
        /\ ~Reads /\ r = Region /\ s \in start..(start + num - 1)
        /\ op.kind = "writePartition" =>
             \E p \in Found(before) : s \in p.first..p.last

\* At every moment, and so also when the tool ends early, a write has done
\* exactly the beginning of its work: the first i sectors hold the file, and
\* what comes after the sector it was at is untouched.
WrittenPrefix ==
  Writes =>
    /\ result = "done" => i = Len(file)
    /\ \A k \in 0..(Len(file) - 1) : OnCard(Region, start + k) =>
         /\ k < i => store[Region][start + k + 1] = Padded[file[k + 1]]
         /\ k > i \/ (k = i /\ pc = "write") => ~Changed(Region, start + k)

\* When a read is complete its output file is a copy of what the command line
\* names: the sectors given, to the end of the region for length 0, or the
\* partition from its first sector to its last.
ReadIsCopy ==
  Reads /\ result = "done" /\ <<"misread", "read">> \notin upset =>
    /\ op.kind = "read" =>
         saved = SubSeq(store[op.region], op.start + 1,
                        IF op.num = 0 THEN Size[op.region] ELSE op.start + op.num)
    /\ op.kind = "readPartition" =>
         \E p \in Found(before) :
           saved = SubSeq(store[Userdata], p.first + 1, p.last + 1)

\* When roundtrip_test returns, passed or failed, the card is as it was
\* before, unless it misread the original data.
TestRestores ==
  result \in {"passed", "failed"} /\ <<"misread", "testRead">> \notin upset
    => store = before

\* The partition found is the first with the label in the table that the header
\* on the card describes, the entries lying one after the other from its lba.
FindsTheFirst ==
  LET h == HeaderOf(store)
      match(k) == Entry(store, k) # Unused /\ SameLabel(Entry(store, k))
  IN pc = "start" /\ Readable(h) =>
       Found(store) = {Entry(store, k) : k \in {j \in 0..(h.num - 1) :
                                           match(j) /\ \A e \in 0..(j - 1) : ~match(e)}}

\* The tool comes to an end, or to its prompt.
ToolEnds == (pc \notin {"off", "prompt"}) ~> (pc \in {"off", "prompt"})
=============================================================================
