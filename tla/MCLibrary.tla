----------------------------- MODULE MCLibrary -----------------------------
(***************************************************************************)
(* The algorithms of both payloads, each over its own inputs: the division *)
(* and the hash turn by turn, the roundtrip test call by call, the rest as *)
(* calls whose results are compared with what they promise.  A behaviour   *)
(* is one division, one hash, one test or one call; the others do not move.*)
(***************************************************************************)
EXTENDS Uidiv, RoundtripTest, Sha256, Sequences

VARIABLES which, input

P == INSTANCE UartOutput WITH BufferSize <- 32
C == INSTANCE CString
S == INSTANCE ClockDivider WITH f_max <- 200000000, f_min <- 260000
D == INSTANCE SdcCommand WITH blksz <- 512
Q == INSTANCE SearchParams
F == INSTANCE RpmbFrame
M == INSTANCE MemoryCommands

mcvars == <<which, input, vars, hashvars, testvars>>

-----------------------------------------------------------------------------
(* Inputs                                                                  *)

Message(n) == [i \in 1..n |-> Bits((7 * i) % 256)]
Abc == <<Bits(97), Bits(98), Bits(99)>>

\* Around the ends of blocks and of the room for the length.
Lengths == {0, 1, 55, 56, 63, 64, 119, 128}

FlagSeqs == {<<>>, <<"-">>, <<"0">>, <<"+">>, <<"#">>, <<"0", "#">>, <<"0", "+">>, <<"-", "#">>,
             <<" ">>}

Decimal(n) ==
  LET digit(d) == P!Digits[d + 1]
  IN IF n < 10 THEN <<digit(n)>> ELSE <<digit(n \div 10), digit(n % 10)>>

Numbers ==
  {n \in [kind : {"number"}, flags : FlagSeqs, width : {0, 2, 4, 8, 40}, prec : {-1, 0, 3},
          ch : {"d", "u", "x", "X", "o"}, value : {0, 1, 7, 255, 4660, 2147483647, -1, -123}] :
     n.value < 0 => n.ch = "d"}

Bases == [kind : {"stars"}, width : -5..5, value : {0, 12, -123}]
Dumps == [kind : {"dump"}, size : 0..33]

Fragments == {
  Q!Uartb, Q!Wdts, Q!Sur1a \o <<"0000">> \o Q!Sur1b, Q!Sur1a, Q!Sur2, Q!Sur3, Q!Sdd,
  Q!Rcd2 \o <<"0000", "46xx", "xx92">>, Q!Rcd2}

\* The UART's code behind the vectors, and up to three parts after it.
ImageOf(f, g, h) == <<"0000", "0000">> \o Q!Uartb \o f \o g \o h
Images ==
  LET parts == Fragments \cup {<<>>}
  IN {ImageOf(f, g, h) : f, g, h \in parts}

Roms == {r \in [kind : {"rom"}, at : 1..3, image : Images] : r.at > 1 => Len(r.image) < 11}

Strings == {Append(s, 0) : s \in UNION {[1..n -> {1, 255}] : n \in 0..3}}

Counters == {F!Bytes(n, 4) : n \in {0, 1, 255, 256, 66051}} \cup {<<255, 255, 255, 255>>}

Comparisons == [kind : {"strings"}, a : Strings, b : Strings, n : 0..4]
Copies == [kind : {"memory"}, to : 1..5, from : 1..5, n : 0..4]
Pokes == [kind : {"poke"}, address : 1..4, size : 0..9]

SourceClocks ==
  {0, 26000000, 100000000, 156000000, 200000000, 208000000, 400000000, 624000000}
Frequencies ==
  {0, 260000, 400000, 12999999, 13000000, 25000000, 50000001, 52000000, 104000000, 199999999,
   200000000, 400000000}

Clocks == [kind : {"clock"}, src : SourceClocks, hz : Frequencies]
Voltages == [kind : {"voltage"}, avail : {16..20, 15..23}, ocr : SUBSET {7, 15, 16, 18, 20, 21}]
Fields == [kind : {"field"}, reg : SUBSET {0, 15, 16, 17, 18}, width : {1, 4, 8, 16}]
Commands == [kind : {"command"}, cmd : D!SentCommands]
SetUps == Clocks \cup Voltages \cup Fields \cup Commands

Addresses == {0, 1, 256, 4660, 65535}
FrameReads == [kind : {"rpmb read"}, addr : Addresses]
FrameWrites ==
  [kind : {"rpmb write"}, first : {0, 7, 255}, wc : Counters, key : {"zeros", "card"},
   result : {0, 7, 128}]

Calls ==
  Numbers \cup Bases \cup Dumps \cup Roms \cup Comparisons \cup Copies \cup Pokes
    \cup SetUps \cup FrameReads \cup FrameWrites

-----------------------------------------------------------------------------

NoDivision == Init /\ arg = 0 /\ dem = 0
NoHash == InitHash(<<>>)
NoCall == input = [kind |-> "none"]
NoTest == TestInit /\ sector = "a" /\ original = "a" /\ readback = "a"

MCInit ==
  \/ which = "divide" /\ Init /\ NoHash /\ NoTest /\ NoCall
  \/ /\ which = "hash" /\ NoDivision /\ NoTest /\ NoCall
     /\ \/ \E n \in Lengths : InitHash(Message(n))
        \/ InitHash(Abc)
        \/ \E n \in {0, 284}, k \in {32, 64, 65} : InitMac(Message(n), Message(k))
  \/ which = "test" /\ NoDivision /\ NoHash /\ TestInit /\ NoCall
  \/ which = "call" /\ NoDivision /\ NoHash /\ NoTest /\ input \in Calls

Divide == which = "divide" /\ Next /\ UNCHANGED <<which, input, hashvars, testvars>>
Hash == which = "hash" /\ HashNext /\ UNCHANGED <<which, input, vars, testvars>>
Test == which = "test" /\ TestNext /\ UNCHANGED <<which, input, vars, hashvars>>

MCNext == Divide \/ Hash \/ Test
MCSpec == MCInit /\ [][MCNext]_mcvars /\ WF_mcvars(Divide)

-----------------------------------------------------------------------------
(* Correctness, with DivisionIsRight of Uidiv and RoundtripRestores        *)

\* The division ends, for the divisor 0 and for the largest numerators, too.
Ends == which = "divide" ~> pc = "return"

\* sha256_hash and hmac_sha256 compute the standard's digests of messages and keys that
\* end anywhere in a block.
DigestIsOfMessage == which = "hash" => DigestIsStandard

\* The digest of "abc" is the one the standard prints.
ASSUME AbcAssumption ==
  SubSeq(StandardHash(Abc), 1, 4) = <<Bits(186), Bits(120), Bits(22), Bits(191)>>

FlagsOf(flags) == {flags[i] : i \in DOMAIN flags}

Format(n) ==
  <<"%">> \o n.flags \o (IF n.width = 0 THEN <<>> ELSE Decimal(n.width))
    \o (IF n.prec = -1 THEN <<>> ELSE <<".">> \o Decimal(n.prec)) \o <<n.ch>>

\* _vsnprintf prints numbers as the C standard says wherever it is exact; pdword,
\* u32_to_str and print_hex_byte print what %08X and %02X print; the rows of a dump
\* are equally long.
OutputConforms ==
  CASE input.kind = "number" ->
         /\ P!Exact(FlagsOf(input.flags), input.width, input.prec, input.ch, input.value) =>
              P!vsnprintf(Format(input), <<input.value>>)
                = P!Standard(FlagsOf(input.flags), input.width, input.prec, input.ch, input.value)
         /\ input.value >= 0 =>
              /\ P!pdword(input.value)
                   = P!vsnprintf(<<"0", "x", "%", "0", "8", "X">>, <<input.value>>)
              /\ P!pdword(input.value) = <<"0", "x">> \o P!u32_to_str(input.value)
              /\ P!print_hex_byte(input.value % 256)
                   = P!vsnprintf(<<"%", "0", "2", "X", " ">>, <<input.value % 256>>)
    [] input.kind = "stars" ->
         LET f == IF input.width < 0 THEN {"-"} ELSE {}
             w == IF input.width < 0 THEN -input.width ELSE input.width
         IN P!Exact(f, w, -1, "d", input.value) =>
              P!vsnprintf(<<"%", "*", "d">>, <<input.width, input.value>>)
                = P!Standard(f, w, -1, "d", input.value)
    [] input.kind = "dump" -> P!RowsAlign(P!hex_dump([i \in 1..input.size |-> 7 * i]))
    [] OTHER -> TRUE

\* searchparams finds what it looks for in the first boot ROM with the UART's code.
FindsRoutines ==
  input.kind = "rom" =>
    LET other == <<"0000", "0000", "5F31", "4E45">>
        roms == [i \in 1..3 |-> IF i = input.at THEN input.image ELSE other]
    IN Q!searchparams(roms).base = input.at /\ Q!Found(roms, Q!searchparams(roms))

\* The functions of libc.c compare, find and copy, and none reads behind the end of
\* a string; 0x4000 writes what was sent, nothing else, and 0x4002 reads it.
MemoryIsRight ==
  LET mem == <<1, 2, 3, 0, 4, 5, 6, 0, 7, 8, 0, 0>>
  IN /\ input.kind = "strings" => C!ComparesRight(input.a, input.b, input.n)
     /\ input.kind = "memory" =>
          C!CopiesRight(mem, input.to, input.from, input.n)
            /\ C!StringCopiedRight(mem, input.to, input.from)
     /\ input.kind = "poke" =>
          M!WritesRight(mem, input.address, input.size, [i \in 1..12 |-> 100 + i])

\* RPMB requests and responses have their fields where the standard has them, and
\* the block, counter and result of one exchange are those of the other side.
FramesAreRight ==
  /\ input.kind = "rpmb read" => F!RequestFits(F!ReadAt(input.addr)) /\ F!RequestFits(F!Count)
  /\ input.kind = "rpmb write" =>
       F!WriteFits([i \in 1..256 |-> (input.first + i) % 256], input.wc, input.key,
                   F!Bytes(input.result, 2))

\* The controller is set up as asked: the clock is the fastest that is allowed, the
\* voltage one of both sides, a register field changes alone, and a command's
\* response and data phase are those of the card.
SetUpFits ==
  CASE input.kind = "clock" -> S!ClockFits(input.src, input.hz)
    [] input.kind = "voltage" -> S!VoltageFits(input.avail, input.ocr)
    [] input.kind = "field" -> S!FieldFits(input.reg, input.width)
    [] input.kind = "command" -> D!WordFits(input.cmd)
    [] OTHER -> TRUE
=============================================================================
