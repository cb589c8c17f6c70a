-------------------------- MODULE ReflashHostProofs --------------------------
(***************************************************************************)
(* The flash operations for any regions, sizes, files, partition tables    *)
(* and command lines.                                                      *)
(***************************************************************************)
EXTENDS ReflashHost, SequenceTheorems, TLAPS

-----------------------------------------------------------------------------
(* The partition table                                                     *)

\* The integer quotient of positive numbers.
LEMMA Quotient ==
  ASSUME NEW a \in Nat, NEW b \in Nat \ {0}
  PROVE  a \div b \in Nat /\ b * (a \div b) <= a /\ a < b * (a \div b) + b
         /\ a % b \in 0..(b - 1)
OBVIOUS

\* Products grow with their factors.
LEMMA Monotone ==
  ASSUME NEW a \in Nat, NEW b \in Nat, NEW c \in Nat, a <= b
  PROVE  a * c \in Nat /\ a * c <= b * c
<1>1. PICK d \in Nat : b = a + d
  <2>1. b - a \in Nat /\ b = a + (b - a)
    OBVIOUS
  <2> QED BY <2>1
<1>2. b * c = a * c + d * c /\ a * c \in Nat /\ d * c \in Nat
  BY <1>1
<1> QED BY <1>2

\* A product and the next.
LEMMA OneMore ==
  ASSUME NEW a \in Nat, NEW c \in Nat
  PROVE  a * c \in Nat /\ (a + 1) * c = a * c + c
OBVIOUS

\* The sectors read hold all entries the header counts: parse_gpt never cuts the table.
LEMMA TableFits ==
  ASSUME NEW num_ \in Nat, NEW size \in 1..SectorUnits,
         NEW n, n = (num_ + (SectorUnits \div size) - 1) \div (SectorUnits \div size)
  PROVE  n \in Nat /\ num_ * size <= n * SectorUnits
<1> DEFINE per == SectorUnits \div size
<1>1. SectorUnits \in Nat \ {0} /\ size \in Nat \ {0}
  BY ReflashHostAssumption
<1>2. per \in Nat \ {0} /\ size * per <= SectorUnits
  <2>1. per \in Nat /\ size * per <= SectorUnits /\ SectorUnits < size * per + size
    BY <1>1, Quotient
  <2>2. per # 0
    <3> SUFFICES ASSUME per = 0 PROVE FALSE
      OBVIOUS
    <3>1. size * per = 0
      BY <1>1
    <3> QED BY <1>1, <2>1, <3>1
  <2> QED BY <2>1, <2>2
<1> HIDE DEF per
<1>3. n \in Nat /\ num_ + per - 1 < per * n + per
  <2>1. num_ + per - 1 \in Nat /\ n = (num_ + per - 1) \div per
    BY <1>2 DEF per
  <2> QED BY <1>2, <2>1, Quotient
<1>4. per * n \in Nat /\ num_ <= per * n
  <2>1. per * n \in Nat
    BY <1>2, <1>3
  <2> QED BY <1>2, <1>3, <2>1
<1>5. num_ * size <= (per * n) * size
  BY <1>1, <1>4, Monotone
<1>6. (size * per) * n <= SectorUnits * n
  <2>1. size * per \in Nat
    BY <1>1, <1>2
  <2> QED BY <1>1, <1>2, <1>3, <2>1, Monotone
<1>7. (per * n) * size = (size * per) * n /\ SectorUnits * n = n * SectorUnits
  BY <1>1, <1>2, <1>3
<1>8. num_ * size \in Nat /\ (per * n) * size \in Nat /\ n * SectorUnits \in Nat
  BY <1>1, <1>3, <1>4
<1> QED BY <1>3, <1>5, <1>6, <1>7, <1>8

\* The contents of a card.
Card(st) == st \in [Regions -> Seq(Data)] /\ \A r \in Regions : Len(st[r]) = Size[r]

\* A sector of a card has contents.
LEMMA SectorOfCard ==
  ASSUME NEW st, Card(st), NEW r \in Regions, NEW s \in 0..(Size[r] - 1)
  PROVE  st[r][s + 1] \in Data
<1>1. st[r] \in Seq(Data) /\ Len(st[r]) = Size[r] /\ Size[r] \in Nat
  BY ReflashHostAssumption DEF Card
<1>2. s + 1 \in 1..Len(st[r])
  BY <1>1
<1> QED BY <1>1, <1>2, ElementOfSeq

\* What the checks of read_gpt leave of a header.
LEMMA HeaderShape ==
  ASSUME NEW st, Card(st), Readable(HeaderOf(st)), NEW h, h = HeaderOf(st)
  PROVE  /\ h.lba \in Nat /\ h.num \in Nat /\ h.size \in 1..SectorUnits
         /\ SectorsNeeded(h) \in Nat /\ h.num * h.size <= SectorsNeeded(h) * SectorUnits
<1>1. st[Userdata][1 + 1] \in Data
  <2>1. 1 \in 0..(Size[Userdata] - 1) /\ Userdata \in Regions
    BY ReflashHostAssumption
  <2> QED BY <2>1, SectorOfCard
<1>2. h # NoGpt /\ h.size \in 1..SectorUnits
  BY DEF Readable
<1>3. {h.lba, h.num, h.size} \subseteq Nat
  BY <1>1, <1>2, ReflashHostAssumption DEF HeaderOf
<1>4. SectorsNeeded(h) = (h.num + (SectorUnits \div h.size) - 1) \div (SectorUnits \div h.size)
  BY DEF SectorsNeeded
<1> QED BY <1>2, <1>3, <1>4, TableFits

\* parse_gpt has every entry of the table.
LEMMA WholeTable ==
  ASSUME NEW st, Card(st), Readable(HeaderOf(st))
  PROVE  ParseGpt(st) = {k \in 0..(HeaderOf(st).num - 1) : Entry(st, k) # Unused}
<1> DEFINE h == HeaderOf(st)
<1>1. h.num \in Nat /\ h.size \in 1..SectorUnits /\ SectorsNeeded(h) \in Nat
        /\ h.num * h.size <= SectorsNeeded(h) * SectorUnits
  BY HeaderShape
<1>2. h.num * h.size \in Nat /\ SectorsNeeded(h) * SectorUnits \in Nat
  BY <1>1, ReflashHostAssumption
<1>3. ~(h.num * h.size > SectorsNeeded(h) * SectorUnits)
  BY <1>1, <1>2
<1> QED BY <1>3 DEF ParseGpt

\* An entry of the table lies in sectors that have been read, on the card.
LEMMA EntryIsRead ==
  ASSUME NEW st, Card(st), Readable(HeaderOf(st)), NEW k \in 0..(HeaderOf(st).num - 1),
         Entry(st, k) # Unused
  PROVE  Entry(st, k).first \in Nat /\ Entry(st, k).last \in Nat
<1> DEFINE h == HeaderOf(st)
           unit == k * h.size
           sector == unit \div SectorUnits
<1>1. h.lba \in Nat /\ h.num \in Nat /\ h.size \in Nat \ {0} /\ SectorsNeeded(h) \in Nat
        /\ h.num * h.size <= SectorsNeeded(h) * SectorUnits
  BY HeaderShape
<1>2. SectorUnits \in Nat \ {0}
  BY ReflashHostAssumption
<1>3. k \in Nat /\ k + 1 \in Nat /\ k + 1 <= h.num
  BY <1>1
<1>4. unit \in Nat /\ unit < SectorsNeeded(h) * SectorUnits
  <2>1. (k + 1) * h.size <= h.num * h.size
    BY <1>1, <1>3, Monotone
  <2>2. (k + 1) * h.size = unit + h.size /\ unit \in Nat
    <3>1. h.size \in Nat
      BY <1>1
    <3> QED BY <1>3, <3>1, OneMore
  <2>3. h.num * h.size \in Nat /\ SectorsNeeded(h) * SectorUnits \in Nat
    BY <1>1, <1>2
  <2> HIDE DEF unit
  <2> QED BY <1>1, <2>1, <2>2, <2>3
<1> HIDE DEF unit
<1>5. sector \in Nat /\ SectorUnits * sector <= unit /\ unit % SectorUnits \in 0..(SectorUnits - 1)
  BY <1>2, <1>4, Quotient
<1> HIDE DEF sector
<1>6. sector < SectorsNeeded(h)
  <2> SUFFICES ASSUME SectorsNeeded(h) <= sector PROVE FALSE
    BY <1>1, <1>5
  <2>1. SectorsNeeded(h) * SectorUnits <= sector * SectorUnits
    BY <1>1, <1>2, <1>5, Monotone
  <2>2. sector * SectorUnits = SectorUnits * sector /\ sector * SectorUnits \in Nat
          /\ SectorsNeeded(h) * SectorUnits \in Nat
    BY <1>1, <1>2, <1>5
  <2> QED BY <1>4, <1>5, <2>1, <2>2
<1>7. OnCard(Userdata, h.lba + sector)
  BY <1>1, <1>5, <1>6 DEF Readable
<1>8. st[Userdata][h.lba + sector + 1] \in Data
  BY <1>7, SectorOfCard, ReflashHostAssumption DEF OnCard
<1>9. (unit % SectorUnits) + 1 \in 1..SectorUnits
  BY <1>2, <1>5
<1>10. Entry(st, k) = Entries[st[Userdata][h.lba + sector + 1]][(unit % SectorUnits) + 1]
  BY DEF Entry, sector, unit
<1> QED BY <1>8, <1>9, <1>10, ReflashHostAssumption

\* A partition that is found has sector numbers.
LEMMA FoundHasNumbers ==
  ASSUME NEW st, Card(st), NEW p \in Found(st)
  PROVE  p.first \in Nat /\ p.last \in Nat /\ SizeOf(p) \in Int
<1>1. PICK k \in ParseGpt(st) : p = Entry(st, k)
  BY DEF Found
<1>2. Readable(HeaderOf(st))
  BY <1>1 DEF ParseGpt
<1>3. p.first \in Nat /\ p.last \in Nat
  BY <1>1, <1>2, WholeTable, EntryIsRead
<1> QED BY <1>3 DEF SizeOf

\* find_partition_by_label finds the first match of the table on the card.
LEMMA FirstMatch ==
  ASSUME NEW st, Card(st), Readable(HeaderOf(st))
  PROVE  LET match(k) == Entry(st, k) # Unused /\ SameLabel(Entry(st, k))
         IN Found(st) = {Entry(st, k) : k \in {j \in 0..(HeaderOf(st).num - 1) :
                           match(j) /\ \A e \in 0..(j - 1) : ~match(e)}}
<1> DEFINE match(k) == Entry(st, k) # Unused /\ SameLabel(Entry(st, k))
           n == HeaderOf(st).num
<1>1. n \in Nat
  BY HeaderShape
<1>2. ParseGpt(st) = {k \in 0..(n - 1) : Entry(st, k) # Unused}
  BY WholeTable
<1> HIDE DEF n
<1>3. ASSUME NEW j
      PROVE  (j \in ParseGpt(st) /\ SameLabel(Entry(st, j))
                /\ \A e \in ParseGpt(st) : e < j => ~SameLabel(Entry(st, e)))
             <=> (j \in 0..(n - 1) /\ match(j) /\ \A e \in 0..(j - 1) : ~match(e))
  BY <1>1, <1>2
<1>4. Found(st) = {Entry(st, k) : k \in {j \in 0..(n - 1) :
                                          match(j) /\ \A e \in 0..(j - 1) : ~match(e)}}
  BY <1>3 DEF Found
<1> QED BY <1>4 DEF n

-----------------------------------------------------------------------------
(* The card                                                                *)

\* A write changes its sector and nothing else.
LEMMA OneSector ==
  ASSUME Card(store), NEW r \in Regions, NEW s \in 0..(Size[r] - 1), NEW d \in Data,
         store' = [store EXCEPT ![r][s + 1] = d]
  PROVE  /\ Card(store')
         /\ \A q \in Regions : \A k \in 0..(Size[q] - 1) :
              store'[q][k + 1] = IF q = r /\ k = s THEN d ELSE store[q][k + 1]
<1>1. store[r] \in Seq(Data) /\ Len(store[r]) = Size[r] /\ Size[r] \in Nat
  BY ReflashHostAssumption DEF Card
<1>2. s + 1 \in 1..Len(store[r])
  BY <1>1
<1> DEFINE t == [store[r] EXCEPT ![s + 1] = d]
<1>3. t \in Seq(Data) /\ Len(t) = Size[r]
         /\ \A k \in 1..Len(store[r]) : t[k] = IF k = s + 1 THEN d ELSE store[r][k]
  BY <1>1, <1>2, ExceptSeq
<1>4. store' = [store EXCEPT ![r] = t]
  OBVIOUS
<1> HIDE DEF t
<1>5. Card(store')
  BY <1>3, <1>4 DEF Card
<1>6. ASSUME NEW q \in Regions, NEW k \in 0..(Size[q] - 1)
      PROVE  store'[q][k + 1] = IF q = r /\ k = s THEN d ELSE store[q][k + 1]
  <2>1. CASE q = r
    <3>1. store'[q] = t
      BY <1>4, <2>1 DEF Card
    <3>2. k \in Int /\ s \in Int /\ k + 1 \in 1..Len(store[r])
      BY <1>1, <2>1
    <3>3. t[k + 1] = IF k + 1 = s + 1 THEN d ELSE store[r][k + 1]
      BY <1>3, <3>2
    <3> QED BY <2>1, <3>1, <3>2, <3>3
  <2>2. CASE q # r
    BY <1>4, <2>2 DEF Card
  <2> QED BY <2>1, <2>2
<1> QED BY <1>5, <1>6

\* Two cards with the same sectors are the same.
LEMMA SameCard ==
  ASSUME NEW a, NEW b, Card(a), Card(b),
         \A r \in Regions : \A s \in 0..(Size[r] - 1) : a[r][s + 1] = b[r][s + 1]
  PROVE  a = b
<1>1. ASSUME NEW r \in Regions PROVE a[r] = b[r]
  <2>1. a[r] \in Seq(Data) /\ b[r] \in Seq(Data) /\ Len(a[r]) = Size[r] /\ Len(b[r]) = Size[r]
          /\ Size[r] \in Nat
    BY ReflashHostAssumption DEF Card
  <2>2. ASSUME NEW k \in 1..Size[r] PROVE a[r][k] = b[r][k]
    <3>1. k - 1 \in 0..(Size[r] - 1) /\ (k - 1) + 1 = k
      BY <2>1
    <3>2. a[r][(k - 1) + 1] = b[r][(k - 1) + 1]
      BY <3>1
    <3> QED BY <3>1, <3>2
  <2> QED BY <2>1, <2>2, SeqEqual
<1> QED BY <1>1 DEF Card

-----------------------------------------------------------------------------
(* The invariant                                                           *)

Tests == {"testRead", "testWrite", "testVerify", "testRestore"}

\* What kind of operation a stage and a result belong to.
KindInv ==
  /\ pc = "read" => Reads
  /\ pc \in {"prompt", "write"} => Writes
  /\ pc \in Tests => op.kind = "roundtrip"
  /\ pc # "off" => result = "none"
  /\ result = "done" => Reads \/ Writes
  /\ result \in {"passed", "failed"} => op.kind = "roundtrip"
  /\ Grown \in upset => Writes

\* Nothing has been written when the range is checked and when sectors are read.
FreshInv ==
  /\ pc \in {"start", "prompt"} => i = 0 /\ saved = <<>>
  /\ pc \in {"start", "prompt", "read", "testRead"} => store = before

\* The range of a stage is the one that was checked.
RangeInv ==
  /\ pc \in {"prompt", "write"} =>
       /\ Grown \notin upset => num = Len(file)
       /\ op.kind = "writePartition" =>
            \E p \in Found(before) : start = p.first /\ num <= SizeOf(p)
  /\ pc = "read" =>
       /\ op.kind = "read" =>
            start = op.start /\ num = IF op.num = 0 THEN Size[op.region] - op.start ELSE op.num
       /\ op.kind = "readPartition" =>
            \E p \in Found(before) : start = p.first /\ num = SizeOf(p)
  /\ pc \in Tests => num = op.num

\* The sectors that a write has still to reach are as they were.
AheadInv ==
  pc \in {"prompt", "write"} =>
    /\ i <= Len(file)
    /\ \A k \in Nat : k >= i /\ OnCard(Region, start + k) => ~Changed(Region, start + k)

\* What has been read is what was there, and what has been restored is so again.
SavedInv ==
  /\ pc \in {"read", "testRead"} => Len(saved) = i /\ (i > 0 => i <= num)
  /\ pc \in Tests \ {"testRead"} => num <= Len(saved)
  /\ (pc = "read" /\ <<"misread", "read">> \notin upset)
       \/ (pc \in Tests /\ <<"misread", "testRead">> \notin upset) =>
       \A k \in 0..(Len(saved) - 1) :
         OnCard(Region, start + k) /\ saved[k + 1] = before[Region][start + k + 1]
  /\ pc = "testRestore" /\ <<"misread", "testRead">> \notin upset =>
       \A k \in 0..(i - 1) : ~Changed(Region, start + k)

IInv ==
  /\ TypeOK /\ Card(store) /\ Card(before)
  /\ KindInv /\ FreshInv /\ RangeInv /\ AheadInv /\ SavedInv
  /\ StaysInside /\ WrittenPrefix /\ ReadIsCopy /\ TestRestores

\* The first states satisfy the invariant.
LEMMA InitInvariant == Init => IInv
<1> SUFFICES ASSUME Init PROVE IInv
  OBVIOUS
<1> USE DEF Init
<1>1. Card(store) /\ store = before
  BY ReflashHostAssumption DEF Card
<1>2. TypeOK
  BY <1>1, ReflashHostAssumption DEF TypeOK, Card
<1>3. KindInv /\ FreshInv /\ RangeInv /\ AheadInv /\ SavedInv
  BY <1>1 DEF KindInv, FreshInv, RangeInv, AheadInv, SavedInv, Tests, Grown
<1>4. StaysInside /\ WrittenPrefix
  BY <1>1 DEF StaysInside, WrittenPrefix, Changed
<1>5. ReadIsCopy /\ TestRestores
  BY DEF ReadIsCopy, TestRestores
<1> QED BY <1>1, <1>2, <1>3, <1>4, <1>5 DEF IInv

-----------------------------------------------------------------------------
(* The steps                                                               *)

\* The partitions found are those of the label and of the card.
LEMMA FoundSame == ASSUME UNCHANGED <<op, before>> PROVE Found(before)' = Found(before)
BY DEF Found, SameLabel

\* A complete read is a copy.
LEMMA ReadComplete ==
  ASSUME IInv, pc = "read", i >= num, <<"misread", "read">> \notin upset
  PROVE  LET last == IF op.num = 0 THEN Size[op.region] ELSE op.start + op.num
         IN /\ op.kind = "read" => saved = SubSeq(store[op.region], op.start + 1, last)
            /\ op.kind = "readPartition" =>
                 \E p \in Found(before) : saved = SubSeq(store[Userdata], p.first + 1, p.last + 1)
<1>1. Region \in Regions /\ op \in Operations /\ Size[Region] \in Nat /\ op.region \in Regions
        /\ Size[op.region] \in Nat /\ op.start \in Int /\ op.num \in Int
  BY ReflashHostAssumption DEF IInv, TypeOK, Region
<1>2. start \in Int /\ num \in Int /\ i \in Nat /\ saved \in Seq(Data)
  BY DEF IInv, TypeOK
<1>3. Len(saved) = i /\ (i > 0 => i = num) /\ store = before
  BY <1>2 DEF IInv, SavedInv, FreshInv
<1>4. \A k \in 0..(i - 1) :
        OnCard(Region, start + k) /\ saved[k + 1] = store[Region][start + k + 1]
  BY <1>3 DEF IInv, SavedInv
<1>5. saved = SubSeq(store[Region], start + 1, start + num)
  <2>1. \A j \in 1..i : saved[j] = store[Region][start + j]
    <3> SUFFICES ASSUME NEW j \in 1..i PROVE saved[j] = store[Region][start + j]
      OBVIOUS
    <3>1. j - 1 \in 0..(i - 1) /\ (j - 1) + 1 = j /\ start + (j - 1) + 1 = start + j
      BY <1>2
    <3> QED BY <1>4, <3>1
  <2>2. CASE i = 0
    <3>1. start + num < start + 1
      BY <1>2, <2>2
    <3>2. saved = <<>>
      BY <1>2, <1>3, <2>2, EmptySeq
    <3> QED BY <1>2, <3>1, <3>2, SubSeqEmpty
  <2>3. CASE i > 0
    <3>1. \A j \in (start + 1)..(start + num) : store[Region][j] \in Data
      <4> SUFFICES ASSUME NEW j \in (start + 1)..(start + num)
                   PROVE  store[Region][j] \in Data
        OBVIOUS
      <4>1. j - start \in 1..i /\ start + (j - start) = j
        BY <1>2, <1>3, <2>3
      <4>2. saved[j - start] \in Data
        BY <1>2, <1>3, <4>1, ElementOfSeq
      <4> QED BY <2>1, <4>1, <4>2
    <3> DEFINE t == SubSeq(store[Region], start + 1, start + num)
    <3>2. /\ t \in Seq(Data)
          /\ Len(t) = IF start + 1 <= start + num THEN (start + num) - (start + 1) + 1 ELSE 0
          /\ \A j \in 1..((start + num) - (start + 1) + 1) :
               t[j] = store[Region][(start + 1) + j - 1]
      <4>1. start + 1 \in Int /\ start + num \in Int
        BY <1>2
      <4> QED BY <3>1, <4>1, SubSeqProperties
    <3> HIDE DEF t
    <3>3. Len(t) = i
      BY <1>2, <1>3, <2>3, <3>2
    <3>4. ASSUME NEW j \in 1..i PROVE saved[j] = t[j]
      <4>1. j \in 1..((start + num) - (start + 1) + 1) /\ (start + 1) + j - 1 = start + j
        BY <1>2, <1>3, <2>3
      <4> QED BY <2>1, <3>2, <4>1
    <3>5. saved = t
      BY <1>2, <1>3, <3>2, <3>3, <3>4, SeqEqual
    <3> QED BY <3>5 DEF t
  <2> QED BY <1>2, <2>2, <2>3
<1>6. CASE op.kind = "read"
  <2>1. Region = op.region
    BY <1>6 DEF Region
  <2>2. start = op.start /\ num = IF op.num = 0 THEN Size[op.region] - op.start ELSE op.num
    BY <1>6 DEF IInv, RangeInv
  <2>3. start + num = IF op.num = 0 THEN Size[op.region] ELSE op.start + op.num
    BY <1>1, <2>2
  <2> QED BY <1>5, <1>6, <2>1, <2>2, <2>3
<1>7. CASE op.kind = "readPartition"
  <2>1. Region = Userdata
    BY <1>7 DEF Region
  <2>2. PICK p \in Found(before) : start = p.first /\ num = SizeOf(p)
    BY <1>7 DEF IInv, RangeInv
  <2>3. p.first \in Nat /\ p.last \in Nat
    BY FoundHasNumbers DEF IInv
  <2>4. start + num = p.last + 1
    BY <2>2, <2>3 DEF SizeOf
  <2> QED BY <1>5, <1>7, <2>1, <2>2, <2>4
<1> QED BY <1>6, <1>7

\* A complete restoration leaves the card as it was.
LEMMA RestoreComplete ==
  ASSUME IInv, pc = "testRestore", i >= num, <<"misread", "testRead">> \notin upset
  PROVE  store = before
<1>1. start \in Int /\ num \in Int /\ i \in Nat /\ Card(store) /\ Card(before)
  BY DEF IInv, TypeOK
<1>2. Grown \notin upset
  BY DEF IInv, KindInv, Tests, Writes
<1>3. ASSUME NEW r \in Regions, NEW s \in 0..(Size[r] - 1)
      PROVE  store[r][s + 1] = before[r][s + 1]
  <2> SUFFICES ASSUME Changed(r, s) PROVE FALSE
    BY DEF Changed
  <2>1. r = Region /\ s \in start..(start + num - 1)
    BY <1>2 DEF IInv, StaysInside
  <2>2. s - start \in 0..(i - 1) /\ start + (s - start) = s
    BY <1>1, <2>1
  <2>3. ~Changed(Region, start + (s - start))
    BY <2>2 DEF IInv, SavedInv
  <2> QED BY <2>1, <2>2, <2>3
<1> QED BY <1>1, <1>3, SameCard

\* The tool ends: where it was, and what it had done, stays.
LEMMA Ending ==
  ASSUME IInv, pc # "off", NEW how \in {"done", "raised", "cancelled", "passed", "failed"},
         End(how), UNCHANGED <<file, store, before, upset, runs>>,
         how = "done" => (pc = "read" /\ i >= num) \/ (pc = "write" /\ i = Len(file)),
         how \in {"passed", "failed"} => pc = "testRestore" /\ i >= num
  PROVE  IInv'
<1>1. UNCHANGED <<op, start, num, i, saved, errors, file, store, before, upset, runs>>
        /\ pc' = "off" /\ result' = how
  BY DEF End
<1>2. TypeOK' /\ Card(store)' /\ Card(before)'
  BY <1>1 DEF IInv, TypeOK, Card
<1>3. KindInv' /\ FreshInv' /\ RangeInv' /\ AheadInv' /\ SavedInv'
  BY <1>1 DEF IInv, KindInv, FreshInv, RangeInv, AheadInv, SavedInv, Tests, Reads, Writes
<1>4. StaysInside'
  BY <1>1, FoundSame DEF IInv, StaysInside, Changed, Reads, Region
<1>5. WrittenPrefix'
  BY <1>1 DEF IInv, WrittenPrefix, Changed, Writes, Region, OnCard, KindInv, Reads
<1>6. ReadIsCopy'
  <2> SUFFICES ASSUME Reads, how = "done", <<"misread", "read">> \notin upset
               PROVE  ReadIsCopy'
    BY <1>1 DEF ReadIsCopy, Reads
  <2>1. pc = "read" /\ i >= num
    BY DEF IInv, KindInv, Reads, Writes
  <2> QED BY <1>1, <2>1, ReadComplete, FoundSame DEF ReadIsCopy
<1>7. TestRestores'
  BY <1>1, RestoreComplete DEF TestRestores
<1> QED BY <1>2, <1>3, <1>4, <1>5, <1>6, <1>7 DEF IInv

\* main, with its first look at nothing.
LEMMA Launching ==
  ASSUME IInv, NEW o \in Operations, NEW f \in Files, Launch(o, f) PROVE IInv'
<1> USE DEF Launch
<1>1. TypeOK'
  <2>1. runs' \in 0..MaxRuns
    BY ReflashHostAssumption DEF IInv, TypeOK
  <2>2. file' \in Seq(Chunks)
    BY ReflashHostAssumption
  <2>3. saved' \in Seq(Data) /\ saved' = <<>>
    BY EmptySeq
  <2> QED BY <2>1, <2>2, <2>3 DEF IInv, TypeOK
<1>2. Card(store)' /\ Card(before)'
  BY DEF IInv, Card
<1>3. KindInv' /\ FreshInv' /\ RangeInv' /\ AheadInv' /\ SavedInv'
  BY DEF KindInv, FreshInv, RangeInv, AheadInv, SavedInv, Tests
<1>4. StaysInside' /\ WrittenPrefix' /\ ReadIsCopy' /\ TestRestores'
  <2>1. \A r, s : ~Changed(r, s)'
    BY DEF Changed
  <2>2. i' = 0 /\ result' = "none"
    OBVIOUS
  <2>3. StaysInside'
    BY <2>1 DEF StaysInside
  <2>4. WrittenPrefix'
    <3>1. \A k \in 0..(Len(file) - 1)' : ~(k < i')
      BY <2>2
    <3> QED BY <2>1, <2>2, <3>1 DEF WrittenPrefix
  <2> QED BY <2>2, <2>3, <2>4 DEF ReadIsCopy, TestRestores
<1> QED BY <1>1, <1>2, <1>3, <1>4 DEF IInv

\* What the checks of an operation let through.
LEMMA Checked ==
  ASSUME IInv, pc = "start", NEW r \in Ranges
  PROVE  /\ r.start \in Int /\ r.num \in Int
         /\ op.kind = "read" =>
              r.stage = "read" /\ r.start = op.start
                /\ r.num = IF op.num = 0 THEN Size[op.region] - op.start ELSE op.num
         /\ op.kind = "roundtrip" => r.stage = "testRead" /\ r.num = op.num
         /\ op.kind = "write" => r.stage = "write" /\ r.num = Len(file)
         /\ op.kind = "readPartition" =>
              r.stage = "read" /\ \E p \in Found(before) : r.start = p.first /\ r.num = SizeOf(p)
         /\ op.kind = "writePartition" =>
              r.stage \in {"prompt", "write"} /\ r.num = Len(file)
                /\ \E p \in Found(before) : r.start = p.first /\ r.num <= SizeOf(p)
<1>1. op.start \in Int /\ op.num \in Int /\ Size[op.region] \in Nat /\ Len(file) \in Nat
        /\ op.kind \in {"read", "write", "roundtrip", "readPartition", "writePartition"}
  BY ReflashHostAssumption DEF IInv, TypeOK
<1>2. store = before
  BY DEF IInv, FreshInv
<1>3. \A p \in Found(before) : p.first \in Int /\ SizeOf(p) \in Int
  BY FoundHasNumbers DEF IInv
<1>4. CASE op.kind = "read"
  <2>1. r = Span("read", op.start, IF op.num = 0 THEN Size[op.region] - op.start ELSE op.num)
    BY <1>4 DEF Ranges, ReadRanges
  <2> QED BY <1>1, <1>4, <2>1 DEF Span
<1>5. CASE op.kind = "write"
  <2>1. r = Span("write", op.start, Len(file))
    BY <1>5 DEF Ranges, WriteRanges
  <2> QED BY <1>1, <1>5, <2>1 DEF Span
<1>6. CASE op.kind = "roundtrip"
  <2>1. r = Span("testRead", op.start, op.num)
    BY <1>6 DEF Ranges, TestRanges
  <2> QED BY <1>1, <1>6, <2>1 DEF Span
<1>7. CASE op.kind = "readPartition"
  <2>1. PICK p \in Found(before) : r = Span("read", p.first, SizeOf(p))
    BY <1>2, <1>7 DEF Ranges, PartitionReadRanges
  <2> QED BY <1>3, <1>7, <2>1 DEF Span
<1>8. CASE op.kind = "writePartition"
  <2>1. PICK p \in Found(before) :
          /\ Len(file) <= SizeOf(p)
          /\ r = Span(IF Len(file) < SizeOf(p) THEN "prompt" ELSE "write", p.first, Len(file))
    BY <1>2, <1>8 DEF Ranges, PartitionWriteRanges
  <2> QED BY <1>1, <1>3, <1>8, <2>1 DEF Span
<1> QED BY <1>1, <1>4, <1>5, <1>6, <1>7, <1>8

\* The checks are passed and the first stage begins.
LEMMA Starting == ASSUME IInv, Start PROVE IInv'
<1>1. PICK r \in Ranges : Stage(r.stage, r.start, r.num)
  BY DEF Start
<1>2. pc = "start" /\ pc' = r.stage /\ start' = r.start /\ num' = r.num /\ i' = 0
        /\ UNCHANGED <<op, saved, errors, result, file, store, before, upset, runs>>
  BY <1>1 DEF Start, Stage
<1>3. store = before /\ saved = <<>> /\ Len(saved) = 0
  BY <1>2, EmptySeq DEF IInv, FreshInv
<1>4. op.kind \in {"read", "write", "roundtrip", "readPartition", "writePartition"}
        /\ result = "none" /\ Len(file) \in Nat
  BY <1>2, ReflashHostAssumption DEF IInv, TypeOK, KindInv
<1>5. /\ r.start \in Int /\ r.num \in Int
      /\ Reads => r.stage = "read"
      /\ Writes => r.stage \in {"prompt", "write"} /\ r.num = Len(file)
      /\ op.kind = "roundtrip" => r.stage = "testRead" /\ r.num = op.num
  BY <1>2, Checked DEF Reads, Writes
<1>6. TypeOK' /\ Card(store)' /\ Card(before)'
  <2>1. r.stage \in {"prompt"} \cup Stages
    BY <1>4, <1>5 DEF Reads, Writes, Stages
  <2> QED BY <1>2, <1>3, <1>5, <2>1 DEF IInv, TypeOK, Card
<1>7. KindInv' /\ FreshInv'
  BY <1>2, <1>3, <1>4, <1>5 DEF IInv, KindInv, FreshInv, Reads, Writes, Tests
<1>8. RangeInv'
  <2>1. UNCHANGED <<op, before>>
    BY <1>2
  <2>2. Found(before)' = Found(before)
    BY <2>1, FoundSame
  <2>3. pc' \in {"prompt", "write"} => num' = Len(file)'
    BY <1>2, <1>4, <1>5 DEF Reads, Writes
  <2>4. pc' \in Tests => num' = op.num'
    BY <1>2, <1>4, <1>5 DEF Reads, Writes, Tests
  <2>5. op.kind = "read" => start' = op.start
          /\ num' = IF op.num = 0 THEN Size[op.region] - op.start ELSE op.num
    BY <1>2, Checked
  <2>6. op.kind = "readPartition" => \E p \in Found(before) : start' = p.first /\ num' = SizeOf(p)
    BY <1>2, Checked
  <2>7. op.kind = "writePartition" =>
          \E p \in Found(before) : start' = p.first /\ num' <= SizeOf(p)
    BY <1>2, Checked
  <2> QED BY <2>1, <2>2, <2>3, <2>4, <2>5, <2>6, <2>7 DEF RangeInv
<1>9. AheadInv' /\ SavedInv'
  BY <1>2, <1>3, <1>4, <1>5 DEF AheadInv, SavedInv, Changed, Tests, Reads, Writes
<1>10. StaysInside' /\ WrittenPrefix'
  BY <1>2, <1>3, <1>4 DEF StaysInside, WrittenPrefix, Changed
<1>11. ReadIsCopy' /\ TestRestores'
  BY <1>2, <1>4 DEF ReadIsCopy, TestRestores
<1> QED BY <1>6, <1>7, <1>8, <1>9, <1>10, <1>11 DEF IInv

\* The next stage of an operation, over the same range.
LEMMA GoingOn ==
  ASSUME IInv, NEW label, Stage(label, start, num),
         \/ pc = "testRead" /\ label = "testWrite" /\ i >= num
         \/ pc = "testWrite" /\ label = "testVerify"
         \/ pc = "testVerify" /\ label = "testRestore"
         \/ pc = "prompt" /\ label = "write"
  PROVE  IInv'
<1>1. UNCHANGED <<op, start, num, saved, errors, result, file, store, before, upset, runs>>
        /\ pc' = label /\ i' = 0
  BY DEF Stage
<1>2. TypeOK' /\ Card(store)' /\ Card(before)'
  BY <1>1 DEF IInv, TypeOK, Card, Stages
<1>3. KindInv' /\ FreshInv' /\ AheadInv'
  BY <1>1 DEF IInv, KindInv, FreshInv, AheadInv, Tests, Reads, Writes, Changed, Region, OnCard
<1>4. RangeInv'
  <2>1. Found(before)' = Found(before)
    BY <1>1, FoundSame
  <2> QED BY <1>1, <2>1 DEF IInv, RangeInv, Tests
<1>5. SavedInv'
  BY <1>1 DEF IInv, TypeOK, SavedInv, Tests, Changed, Region, OnCard
<1>6. StaysInside'
  BY <1>1, FoundSame DEF IInv, StaysInside, Changed, Reads, Region
<1>7. WrittenPrefix'
  BY <1>1 DEF IInv, WrittenPrefix, FreshInv, KindInv, Changed, Writes, Region, OnCard, Tests
<1>8. ReadIsCopy' /\ TestRestores'
  BY <1>1 DEF IInv, KindInv, ReadIsCopy, TestRestores, Tests
<1> QED BY <1>2, <1>3, <1>4, <1>5, <1>6, <1>7, <1>8 DEF IInv

\* A sector is read and kept.
LEMMA Reading ==
  ASSUME IInv, pc \in {"read", "testRead"}, i < num, NEW d \in Data, ReadSector(d),
         saved' = Append(saved, d), UNCHANGED errors
  PROVE  IInv'
<1>1. i' = i + 1 /\ UNCHANGED <<pc, op, start, num, errors, result, file, store, before, runs>>
        /\ OnCard(Region, start + i)
  BY DEF ReadSector
<1>2. i \in Nat /\ start \in Int /\ num \in Int /\ saved \in Seq(Data) /\ Len(saved) = i
        /\ store = before
  BY DEF IInv, TypeOK, SavedInv, FreshInv
<1>3. saved' \in Seq(Data) /\ Len(saved') = i + 1 /\ saved'[i + 1] = d
        /\ \A k \in 1..i : saved'[k] = saved[k]
  BY <1>2, AppendProperties
<1>4. \/ UNCHANGED upset /\ d = store[Region][start + i + 1]
      \/ upset' = upset \cup {<<"misread", pc>>}
  BY DEF ReadSector
<1>5. TypeOK' /\ Card(store)' /\ Card(before)'
  <2>1. upset' \subseteq {Grown} \cup {<<"misread", stage>> : stage \in Stages}
    BY <1>4 DEF IInv, TypeOK, Stages
  <2>2. Len(saved') <= num'
    BY <1>1, <1>2, <1>3
  <2> QED BY <1>1, <1>2, <1>3, <2>1, <2>2 DEF IInv, TypeOK, Card
<1>6. Grown \in upset' => Grown \in upset
  BY <1>4 DEF Grown
<1>7. KindInv' /\ FreshInv' /\ AheadInv'
  BY <1>1, <1>6 DEF IInv, KindInv, FreshInv, AheadInv, Reads, Writes
<1>8. RangeInv'
  <2>1. Found(before)' = Found(before)
    BY <1>1, FoundSame
  <2> QED BY <1>1, <2>1 DEF IInv, RangeInv, Tests
<1>9. SavedInv'
  <2>1. ASSUME (pc = "read" /\ <<"misread", "read">> \notin upset')
                 \/ (pc \in Tests /\ <<"misread", "testRead">> \notin upset'),
               NEW k \in 0..i
        PROVE  OnCard(Region, start + k) /\ saved'[k + 1] = before[Region][start + k + 1]
    <3>1. d = store[Region][start + i + 1] /\ upset' = upset
      <4>1. <<"misread", pc>> \notin upset'
        BY <2>1 DEF Tests
      <4> QED BY <1>4, <4>1
    <3>2. CASE k = i
      BY <1>1, <1>2, <1>3, <3>1, <3>2
    <3>3. CASE k # i
      <4>1. k \in 0..(Len(saved) - 1) /\ k + 1 \in 1..i
        BY <1>2, <3>3
      <4> QED BY <1>3, <2>1, <3>1, <4>1 DEF IInv, SavedInv
    <3> QED BY <3>2, <3>3
  <2>2. pc' = pc /\ op' = op /\ start' = start /\ num' = num /\ before' = before
          /\ Region' = Region /\ 0..(Len(saved') - 1) = 0..i
    BY <1>1, <1>2, <1>3 DEF Region
  <2>3. i' > 0 => i' <= num'
    BY <1>1, <1>2
  <2>4. pc \notin Tests \ {"testRead"} /\ pc # "testRestore"
    BY DEF Tests
  <2> QED BY <1>1, <1>3, <2>1, <2>2, <2>3, <2>4 DEF SavedInv, OnCard
<1>10. StaysInside'
  BY <1>1, <1>2 DEF StaysInside, Changed
<1>11. WrittenPrefix' /\ ReadIsCopy' /\ TestRestores'
  BY <1>1 DEF IInv, KindInv, WrittenPrefix, ReadIsCopy, TestRestores, Reads, Writes, Tests
<1> QED BY <1>5, <1>7, <1>8, <1>9, <1>10, <1>11 DEF IInv

\* A sector is read and compared.
LEMMA Verifying ==
  ASSUME IInv, pc = "testVerify", NEW d \in Data, ReadSector(d), UNCHANGED saved,
         errors' \in {errors, errors \cup {start + i}}
  PROVE  IInv'
<1>1. i' = i + 1 /\ UNCHANGED <<pc, op, start, num, saved, result, file, store, before, runs>>
        /\ OnCard(Region, start + i)
  BY DEF ReadSector
<1>2. upset' \in {upset, upset \cup {<<"misread", pc>>}}
  BY DEF ReadSector
<1>3. Grown \in upset' <=> Grown \in upset
  BY <1>2 DEF Grown
<1>4. <<"misread", "testRead">> \in upset' <=> <<"misread", "testRead">> \in upset
  BY <1>2
<1>5. TypeOK' /\ Card(store)' /\ Card(before)'
  <2>1. upset' \subseteq {Grown} \cup {<<"misread", stage>> : stage \in Stages}
    BY <1>2 DEF IInv, TypeOK, Stages
  <2>2. errors' \subseteq Nat
    <3>1. start + i \in Nat
      BY <1>1 DEF OnCard
    <3> QED BY <3>1 DEF IInv, TypeOK
  <2> QED BY <1>1, <2>1, <2>2 DEF IInv, TypeOK, Card
<1>6. KindInv' /\ FreshInv' /\ AheadInv'
  BY <1>1, <1>3 DEF IInv, KindInv, FreshInv, AheadInv, Reads, Writes
<1>7. RangeInv' /\ SavedInv'
  BY <1>1, <1>4 DEF IInv, RangeInv, SavedInv, Tests, Region, OnCard
<1>8. StaysInside'
  BY <1>1, <1>3, FoundSame DEF IInv, StaysInside, Changed, Reads, Region
<1>9. WrittenPrefix' /\ ReadIsCopy' /\ TestRestores'
  BY <1>1 DEF IInv, KindInv, WrittenPrefix, ReadIsCopy, TestRestores, Reads, Writes, Tests
<1> QED BY <1>5, <1>6, <1>7, <1>8, <1>9 DEF IInv

\* A sector is written, whether or not the call returns.
LEMMA Writing ==
  ASSUME IInv, NEW d \in Data, WriteSector(d),
         \/ pc = "write" /\ i < Len(file) /\ d = Padded[file[i + 1]]
         \/ pc = "testWrite" /\ i < num
         \/ pc = "testRestore" /\ i < num /\ d = saved[i + 1]
  PROVE  IInv'
<1>1. /\ OnCard(Region, start + i) /\ store' = [store EXCEPT ![Region][start + i + 1] = d]
      /\ UNCHANGED <<op, start, num, saved, errors, file, before, upset, runs>>
      /\ \/ i' = i + 1 /\ pc' = pc /\ result' = result
         \/ i' = i /\ pc' = "off" /\ result' = "raised"
  BY DEF WriteSector, End
<1>2. Region \in Regions /\ start \in Int /\ num \in Int /\ i \in Nat /\ Len(file) \in Nat
        /\ Len(saved) \in Nat /\ start + i \in 0..(Size[Region] - 1)
  BY <1>1, ReflashHostAssumption DEF IInv, TypeOK, Region, OnCard
<1>3. Card(store') /\ \A q \in Regions : \A k \in 0..(Size[q] - 1) :
        store'[q][k + 1] = IF q = Region /\ k = start + i THEN d ELSE store[q][k + 1]
  <2>1. Card(store)
    BY DEF IInv
  <2> DEFINE s == start + i
             r == Region
  <2>2. store' = [store EXCEPT ![r][s + 1] = d]
    BY <1>1
  <2>3. r \in Regions /\ s \in 0..(Size[r] - 1)
    BY <1>2
  <2> HIDE DEF r, s
  <2>4. Card(store') /\ \A q \in Regions : \A k \in 0..(Size[q] - 1) :
          store'[q][k + 1] = IF q = r /\ k = s THEN d ELSE store[q][k + 1]
    BY <2>1, <2>2, <2>3, OneSector
  <2> QED BY <2>4 DEF r, s
<1>4. ASSUME NEW q \in Regions, NEW k \in 0..(Size[q] - 1), ~(q = Region /\ k = start + i)
      PROVE  Changed(q, k)' <=> Changed(q, k)
  BY <1>1, <1>3, <1>4 DEF Changed
<1>5. Region' = Region
  BY <1>1 DEF Region
<1>6. TypeOK' /\ Card(store)' /\ Card(before)'
  <2>1. TypeOK /\ Card(before)
    BY DEF IInv
  <2>2. Card(store)' /\ Card(before)'
    BY <1>1, <1>3, <2>1 DEF Card
  <2>3. store' \in [Regions -> Seq(Data)] /\ before' \in [Regions -> Seq(Data)]
    BY <2>2 DEF Card
  <2>4. i' \in Nat
    BY <1>1, <1>2
  <2> QED BY <1>1, <2>1, <2>2, <2>3, <2>4 DEF TypeOK
<1>7. KindInv' /\ FreshInv'
  BY <1>1 DEF IInv, KindInv, FreshInv, Reads, Writes, Tests
<1>8. RangeInv'
  <2>1. Found(before)' = Found(before)
    BY <1>1, FoundSame
  <2> QED BY <1>1, <2>1 DEF IInv, RangeInv, Tests
<1>9. AheadInv'
  <2> SUFFICES ASSUME pc = "write", i' = i + 1, pc' = pc PROVE AheadInv'
    BY <1>1 DEF AheadInv, Tests
  <2>1. i' <= Len(file)
    BY <1>2
  <2>2. ASSUME NEW k \in Nat, k >= i + 1, OnCard(Region, start + k)
        PROVE  ~Changed(Region, start + k)'
    <3>1. k >= i /\ start + k # start + i
      BY <1>2, <2>2
    <3>2. ~Changed(Region, start + k)
      BY <2>2, <3>1 DEF IInv, AheadInv
    <3>3. start + k \in 0..(Size[Region] - 1)
      BY <2>2 DEF OnCard
    <3>4. store'[Region][(start + k) + 1] = store[Region][(start + k) + 1]
      BY <1>2, <1>3, <3>1, <3>3
    <3> QED BY <1>1, <1>5, <3>2, <3>4 DEF Changed
  <2>3. \A k \in Nat : k >= i' /\ OnCard(Region, start + k)' => ~Changed(Region, start + k)'
    BY <1>1, <1>5, <2>2 DEF OnCard
  <2>4. (\A k \in Nat : k >= i /\ OnCard(Region, start + k) => ~Changed(Region, start + k))'
    BY <1>5, <2>3
  <2> QED BY <1>1, <2>1, <2>4 DEF AheadInv
<1>10. SavedInv'
  <2>1. pc \in {"write", "testWrite", "testRestore"} /\ pc' \in {pc, "off"}
    BY <1>1
  <2>2. ASSUME pc = "testRestore", pc' = pc, <<"misread", "testRead">> \notin upset,
               NEW k \in 0..(i' - 1)
        PROVE  ~Changed(Region, start + k)'
    <3>1. i' = i + 1 /\ d = saved[i + 1] /\ i < num /\ num <= Len(saved)
      BY <1>1, <2>2 DEF IInv, SavedInv, Tests
    <3>2. k \in 0..i /\ k \in 0..(Len(saved) - 1)
      BY <1>2, <2>2, <3>1
    <3>3. OnCard(Region, start + k) /\ saved[k + 1] = before[Region][start + k + 1]
      BY <2>2, <3>2 DEF IInv, SavedInv, Tests
    <3>4. start + k \in 0..(Size[Region] - 1) /\ start + k + 1 = (start + k) + 1
      BY <1>2, <3>2, <3>3 DEF OnCard
    <3>5. CASE k = i
      <4>1. store'[Region][(start + k) + 1] = d
        BY <1>2, <1>3, <3>4, <3>5
      <4> QED BY <1>1, <1>5, <3>1, <3>3, <3>4, <3>5, <4>1 DEF Changed
    <3>6. CASE k # i
      <4>1. k \in 0..(i - 1) /\ start + k # start + i
        BY <1>2, <3>2, <3>6
      <4>2. ~Changed(Region, start + k)
        BY <2>2, <4>1 DEF IInv, SavedInv
      <4>3. store'[Region][(start + k) + 1] = store[Region][(start + k) + 1]
        BY <1>2, <1>3, <3>4, <4>1
      <4> QED BY <1>1, <1>5, <4>2, <4>3 DEF Changed
    <3> QED BY <3>5, <3>6
  <2>3. pc' # "read" /\ pc' # "testRead"
    BY <2>1
  <2>4. pc' \in Tests => pc \in Tests \ {"testRead"} /\ pc' = pc
    BY <2>1 DEF Tests
  <2>5. (pc = "testRestore" /\ pc' = pc) /\ <<"misread", "testRead">> \notin upset =>
          \A k \in 0..(i' - 1) : ~Changed(Region, start + k)'
    BY <2>2
  <2> QED BY <1>1, <1>5, <2>1, <2>3, <2>4, <2>5 DEF IInv, SavedInv, OnCard
<1>11. StaysInside'
  <2> SUFFICES ASSUME Grown \notin upset, NEW r \in Regions, NEW s \in 0..(Size[r] - 1),
                      Changed(r, s)'
               PROVE  /\ ~Reads /\ r = Region /\ s \in start..(start + num - 1)
                      /\ op.kind = "writePartition" =>
                           \E p \in Found(before) : s \in p.first..p.last
    <3>1. (Reads' <=> Reads) /\ Found(before)' = Found(before)
      BY <1>1, FoundSame DEF Reads
    <3> QED BY <1>1, <1>5, <3>1 DEF StaysInside
  <2>1. CASE ~(r = Region /\ s = start + i)
    BY <1>4, <2>1 DEF IInv, StaysInside
  <2>2. CASE r = Region /\ s = start + i
    <3>1. i < num /\ ~Reads
      BY DEF IInv, RangeInv, KindInv, Reads, Writes, Tests
    <3>2. s \in start..(start + num - 1)
      BY <1>2, <2>2, <3>1
    <3>3. ASSUME op.kind = "writePartition"
          PROVE  \E p \in Found(before) : s \in p.first..p.last
      <4>1. pc = "write"
        BY <3>3 DEF IInv, KindInv, Tests
      <4>2. PICK p \in Found(before) : start = p.first /\ num <= SizeOf(p)
        BY <3>3, <4>1 DEF IInv, RangeInv
      <4>3. p.first \in Nat /\ p.last \in Nat
        BY FoundHasNumbers DEF IInv
      <4>4. s \in p.first..p.last
        BY <1>2, <2>2, <3>1, <4>2, <4>3 DEF SizeOf
      <4> QED BY <4>4
    <3> QED BY <2>2, <3>1, <3>2, <3>3
  <2> QED BY <2>1, <2>2
<1>12. WrittenPrefix'
  <2> SUFFICES ASSUME Writes PROVE WrittenPrefix'
    BY <1>1 DEF WrittenPrefix, Writes
  <2>1. pc = "write" /\ i < Len(file) /\ d = Padded[file[i + 1]] /\ result' # "done"
    BY <1>1 DEF IInv, KindInv, Tests, Writes
  <2>2. ASSUME NEW k \in 0..(Len(file) - 1), OnCard(Region, start + k)
        PROVE  /\ k < i' => store'[Region][start + k + 1] = Padded[file[k + 1]]
               /\ k > i' \/ (k = i' /\ pc' = "write") => ~Changed(Region, start + k)'
    <3>1. start + k \in 0..(Size[Region] - 1) /\ start + k + 1 = (start + k) + 1 /\ k \in Nat
      BY <1>2, <2>2 DEF OnCard
    <3>2. CASE k = i
      <4>1. store'[Region][(start + k) + 1] = d
        BY <1>2, <1>3, <3>1, <3>2
      <4>2. ~(k > i' \/ (k = i' /\ pc' = "write"))
        BY <1>1, <1>2, <3>2
      <4> QED BY <2>1, <3>1, <3>2, <4>1, <4>2
    <3>3. CASE k < i
      <4>1. store[Region][start + k + 1] = Padded[file[k + 1]]
        BY <2>2, <3>3 DEF IInv, WrittenPrefix
      <4>2. start + k # start + i
        BY <1>2, <3>1, <3>3
      <4>3. store'[Region][(start + k) + 1] = store[Region][(start + k) + 1]
        BY <1>2, <1>3, <3>1, <4>2
      <4>4. ~(k > i' \/ k = i')
        BY <1>1, <1>2, <3>3
      <4> QED BY <3>1, <4>1, <4>3, <4>4
    <3>4. CASE k > i
      <4>1. k >= i /\ start + k # start + i
        BY <1>2, <3>1, <3>4
      <4>2. ~Changed(Region, start + k)
        BY <2>1, <2>2, <3>1, <4>1 DEF IInv, AheadInv
      <4>3. store'[Region][(start + k) + 1] = store[Region][(start + k) + 1]
        BY <1>2, <1>3, <3>1, <4>1
      <4>5. ~Changed(Region, start + k)'
        BY <1>1, <1>5, <4>2, <4>3 DEF Changed
      <4>4. ~(k < i')
        BY <1>1, <1>2, <3>1, <3>4
      <4> QED BY <4>4, <4>5
    <3> QED BY <1>2, <3>1, <3>2, <3>3, <3>4
  <2> QED BY <1>1, <1>5, <2>1, <2>2 DEF WrittenPrefix, OnCard
<1>13. ReadIsCopy' /\ TestRestores'
  <2>1. result' \in {"none", "raised"}
    BY <1>1 DEF IInv, KindInv
  <2> QED BY <2>1 DEF ReadIsCopy, TestRestores
<1> QED BY <1>6, <1>7, <1>8, <1>9, <1>10, <1>11, <1>12, <1>13 DEF IInv

\* The input file grows.
LEMMA Growing == ASSUME IInv, NEW c \in Chunks, Grow(c) PROVE IInv'
<1>1. /\ pc \in {"prompt", "write"} /\ file' = Append(file, c) /\ upset' = upset \cup {Grown}
      /\ UNCHANGED <<pc, op, start, num, i, saved, errors, result, store, before, runs>>
  BY DEF Grow, host
<1>2. file \in Seq(Chunks) /\ Len(file) \in Nat /\ i \in Nat /\ i <= Len(file) /\ start \in Int
  BY <1>1 DEF IInv, TypeOK, AheadInv
<1>3. file' \in Seq(Chunks) /\ Len(file') = Len(file) + 1
        /\ \A k \in 1..Len(file) : file'[k] = file[k]
  BY <1>1, <1>2, AppendProperties
<1>4. Writes /\ ~Reads /\ result = "none"
  BY <1>1 DEF IInv, KindInv, Writes, Reads
<1>5. TypeOK' /\ Card(store)' /\ Card(before)'
  BY <1>1, <1>3 DEF IInv, TypeOK, Card
<1>6. KindInv' /\ FreshInv' /\ SavedInv'
  BY <1>1, <1>4 DEF IInv, KindInv, FreshInv, SavedInv, Tests, Reads, Writes
<1>7. RangeInv'
  <2>1. Found(before)' = Found(before)
    BY <1>1, FoundSame
  <2> QED BY <1>1, <2>1 DEF IInv, RangeInv, Tests
<1>8. AheadInv'
  BY <1>1, <1>2, <1>3 DEF IInv, AheadInv, Changed, Region, OnCard
<1>9. StaysInside'
  BY <1>1 DEF StaysInside
<1>10. WrittenPrefix'
  <2>1. ASSUME NEW k \in 0..Len(file), OnCard(Region, start + k)
        PROVE  /\ k < i => store[Region][start + k + 1] = Padded[file'[k + 1]]
               /\ k > i \/ (k = i /\ pc = "write") => ~Changed(Region, start + k)
    <3>1. CASE k < i
      <4>1. k \in 0..(Len(file) - 1) /\ k + 1 \in 1..Len(file) /\ ~(k > i \/ k = i)
        BY <1>2, <3>1
      <4> QED BY <1>3, <1>4, <2>1, <4>1 DEF IInv, WrittenPrefix
    <3>2. CASE ~(k < i)
      <4>1. k \in Nat /\ k >= i
        BY <1>2, <3>2
      <4> QED BY <1>1, <2>1, <3>2, <4>1 DEF IInv, AheadInv
    <3> QED BY <3>1, <3>2
  <2>2. 0..(Len(file') - 1) = 0..Len(file)
    BY <1>2, <1>3
  <2> QED BY <1>1, <1>4, <2>1, <2>2 DEF WrittenPrefix, Changed, Region, OnCard
<1>11. ReadIsCopy' /\ TestRestores'
  BY <1>1, <1>4 DEF ReadIsCopy, TestRestores
<1> QED BY <1>5, <1>6, <1>7, <1>8, <1>9, <1>10, <1>11 DEF IInv

\* The invariant is inductive.
LEMMA StepInvariant == ASSUME IInv, [Next]_vars PROVE IInv'
<1> USE DEF Finish
<1>1. CASE UNCHANGED vars
  <2>1. UNCHANGED <<pc, op, start, num, i, saved, errors, result, file, store, before, upset, runs>>
    BY <1>1 DEF vars, host
  <2>2. Found(before)' = Found(before)
    BY <2>1, FoundSame
  <2>3. TypeOK' /\ Card(store)' /\ Card(before)' /\ KindInv' /\ FreshInv'
    BY <2>1 DEF IInv, TypeOK, Card, KindInv, FreshInv, Reads, Writes
  <2>4. RangeInv' /\ AheadInv' /\ SavedInv'
    BY <2>1, <2>2 DEF IInv, RangeInv, AheadInv, SavedInv, Changed, Region, OnCard
  <2>5. StaysInside' /\ WrittenPrefix' /\ TestRestores'
    BY <2>1, <2>2 DEF IInv, StaysInside, WrittenPrefix, TestRestores, Changed, Reads, Writes,
                      Region, OnCard
  <2>6. ReadIsCopy'
    BY <2>1, <2>2 DEF IInv, ReadIsCopy, Reads
  <2> QED BY <2>3, <2>4, <2>5, <2>6 DEF IInv
<1>2. CASE \E o \in Operations, f \in Files : Launch(o, f)
  BY <1>2, Launching
<1>3. CASE Raise \/ Refuse
  BY <1>3, Ending DEF Raise, Refuse
<1>4. CASE Decline
  BY <1>4, Ending DEF Decline
<1>5. CASE Start
  BY <1>5, Starting
<1>6. CASE Confirm
  BY <1>6, GoingOn DEF Confirm
<1>7. CASE Read
  BY <1>7, Reading, Ending DEF Read
<1>8. CASE Write
  <2>1. ASSUME i < Len(file) PROVE Padded[file[i + 1]] \in Data
    <3>1. i + 1 \in 1..Len(file) /\ file \in Seq(Chunks)
      BY <2>1 DEF IInv, TypeOK
    <3>2. file[i + 1] \in Chunks
      BY <3>1, ElementOfSeq
    <3> QED BY <3>2, ReflashHostAssumption
  <2> QED BY <1>8, <2>1, Writing, Ending DEF Write
<1>9. CASE TestRead
  BY <1>9, Reading, GoingOn DEF TestRead
<1>10. CASE TestWrite
  <2>1. ASSUME pc = "testWrite", i < num PROVE Pattern(i) \in Data
    <3>1. num = op.num /\ op \in Operations /\ i \in Nat /\ op.num \in Int
      BY <2>1, ReflashHostAssumption DEF IInv, TypeOK, RangeInv, Tests
    <3>2. i \in 0..(op.num - 1)
      BY <2>1, <3>1
    <3> QED BY <3>1, <3>2, ReflashHostAssumption
  <2> QED BY <1>10, <2>1, Writing, GoingOn DEF TestWrite
<1>11. CASE TestVerify
  BY <1>11, Verifying, GoingOn DEF TestVerify
<1>12. CASE TestRestore
  <2>1. ASSUME pc = "testRestore", i < num PROVE saved[i + 1] \in Data
    <3>1. i + 1 \in 1..Len(saved) /\ saved \in Seq(Data)
      BY <2>1 DEF IInv, TypeOK, SavedInv, Tests
    <3> QED BY <3>1, ElementOfSeq
  <2> QED BY <1>12, <2>1, Writing, Ending DEF TestRestore
<1>13. CASE \E c \in Chunks : Grow(c)
  BY <1>13, Growing
<1> QED
  BY <1>1, <1>2, <1>3, <1>4, <1>5, <1>6, <1>7, <1>8, <1>9, <1>10, <1>11, <1>12, <1>13
     DEF Next, Work

\* The invariant holds for ever.
LEMMA Invariant == Spec => []IInv
<1>1. Init => IInv
  BY InitInvariant
<1>2. IInv /\ [Next]_vars => IInv'
  BY StepInvariant
<1> QED BY <1>1, <1>2, PTL DEF Spec

-----------------------------------------------------------------------------
(* The theorems                                                            *)

\* Every reachable state of the tool is well-typed; what is kept of the sectors read
\* never exceeds the range.
THEOREM TypeCorrect == Spec => []TypeOK
<1>1. IInv => TypeOK BY DEF IInv
<1> QED BY <1>1, Invariant, PTL

\* However a run ends, only sectors of the range that was checked are changed, inside the
\* partition that was named, unless the input file grew.
THEOREM WritesStayInside == Spec => []StaysInside
<1>1. IInv => StaysInside BY DEF IInv
<1> QED BY <1>1, Invariant, PTL

\* However a write ends, it has done exactly the beginning of its work.
THEOREM WritesArePrefixes == Spec => []WrittenPrefix
<1>1. IInv => WrittenPrefix BY DEF IInv
<1> QED BY <1>1, Invariant, PTL

\* A complete read is a copy of the sectors or of the partition asked for.
THEOREM ReadsAreCopies == Spec => []ReadIsCopy
<1>1. IInv => ReadIsCopy BY DEF IInv
<1> QED BY <1>1, Invariant, PTL

\* A roundtrip test that returns has restored the card, unless it misread what was there.
THEOREM TestLeavesCard == Spec => []TestRestores
<1>1. IInv => TestRestores BY DEF IInv
<1> QED BY <1>1, Invariant, PTL

\* The entries read cover the table of any header, so that the partition found is the
\* first match in it.
THEOREM FirstIsFound == Spec => []FindsTheFirst
<1>1. IInv => FindsTheFirst
  BY FirstMatch DEF IInv, FindsTheFirst
<1> QED BY <1>1, Invariant, PTL
=============================================================================
