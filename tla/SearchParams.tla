---------------------------- MODULE SearchParams ----------------------------
(***************************************************************************)
(* searchparams of stage2_static/tools.c: the payload finds the boot ROM's *)
(* USB routines, the watchdog and the UART by the instructions around      *)
(* them.  Everything after it calls through the pointers it leaves.        *)
(*                                                                         *)
(* A ROM is the sequence of its halfwords, searched behind its vectors;    *)
(* offsets count halfwords from 1, and 0 is what searchfunc returns when   *)
(* it finds nothing.  A pattern may end behind the last offset.            *)
(***************************************************************************)
EXTENDS Integers, Sequences

\* Offset 0x100: before it, as there, are at least the two halfwords that a routine can
\* begin before its pattern.
Start == 3

Uartb == <<"5F31", "4E45", "0F93">>
Wdts == <<"F641", "1071", "6088">>
Sur1a == <<"B530", "2300">>
Sur1b == <<"2808", "D00F", "2807">>
Sur2 == <<"2400", "F04F", "5389">>
Sur3 == <<"2400", "2803", "D006">>
Sdd == <<"B510", "4A06", "68D4">>
Rcd2 == <<"E92D", "47F0">>

Halfword(rom, o) == IF o \in DOMAIN rom THEN rom[o] ELSE "beyond"

\* Mutant: what has matched so far is kept after a mismatch.
Compare_KeepsMatched(rom, pattern, offset, s, i) ==
  IF s.broke THEN s
  ELSE IF Halfword(rom, offset + i - 1) # pattern[i] THEN [s EXCEPT !.broke = TRUE]
  ELSE IF s.matched + 1 = Len(pattern) THEN [s EXCEPT !.broke = TRUE, !.found = offset]
  ELSE [s EXCEPT !.matched = @ + 1]

\* The body of the inner loop of searchfunc.
Compare(rom, pattern, offset, s, i) ==
  IF s.broke THEN s
  ELSE IF Halfword(rom, offset + i - 1) # pattern[i]
       THEN [s EXCEPT !.matched = 0, !.broke = TRUE]
  ELSE IF s.matched + 1 = Len(pattern) THEN [s EXCEPT !.broke = TRUE, !.found = offset]
  ELSE [s EXCEPT !.matched = @ + 1]

\* The inner loop: the state after each of its turns.
Compared(rom, pattern, offset, s) ==
  LET after[i \in Nat] ==
        IF i = 0 THEN [s EXCEPT !.broke = FALSE]
        ELSE Compare(rom, pattern, offset, after[i - 1], i)
  IN after

\* The outer loop, of which a turn after the pattern has been found does nothing.
Searched(rom, startoffset, pattern) ==
  LET after[k \in Nat] ==
        IF k = 0 THEN [matched |-> 0, broke |-> FALSE, found |-> 0]
        ELSE LET s == after[k - 1]
             IN IF s.found # 0 THEN s
                ELSE Compared(rom, pattern, startoffset + k - 1, s)[Len(pattern)]
  IN after

searchfunc(rom, startoffset, endoffset, pattern) ==
  Searched(rom, startoffset, pattern)[endoffset - startoffset].found

Search(rom, pattern) == searchfunc(rom, Start, Len(rom) + 1, pattern)

\* The index the loop over brom_bases ends with.  It is that of no base when
\* none has the UART's pattern, and the base is then read behind the array.
BaseIndex(roms) ==
  IF \E i \in 1..3 : Search(roms[i], Uartb) # 0
  THEN CHOOSE i \in 1..3 : /\ Search(roms[i], Uartb) # 0
                           /\ \A j \in 1..(i - 1) : Search(roms[j], Uartb) = 0
  ELSE 4

\* Three attempts: the first offset of sur1a, if sur1b follows; sur2; sur3.
SendUsbResponse(rom) ==
  LET first == Search(rom, Sur1a)
      second == Search(rom, Sur2)
      third == Search(rom, Sur3)
  IN IF first # 0 /\ searchfunc(rom, first + 3, first + 6, Sur1b) = first + 3 THEN first
     ELSE IF second # 0 THEN second - 1
     ELSE IF third # 0 THEN third - 2
     ELSE 0

\* usbdl_get_data: every offset of rcd2 in turn, until the bytes at 7 and 8 are
\* 0x46 and 0x92.
GetData(rom) ==
  LET from[start \in Start..(Len(rom) + 1)] ==
        LET o == searchfunc(rom, start, Len(rom) + 1, Rcd2)
        IN IF o = 0 THEN 0
           ELSE IF Halfword(rom, o + 3) = "46xx" /\ Halfword(rom, o + 4) = "xx92" THEN o
           ELSE from[o + 1]
  IN from[Start]

searchparams(roms) ==
  LET i == BaseIndex(roms)
  IN [base |-> i,
      uart |-> IF i = 4 THEN 0 ELSE Search(roms[i], Uartb),
      wdt |-> Search(roms[i], Wdts),
      send_usb_response |-> SendUsbResponse(roms[i]),
      usbdl_put_data |-> Search(roms[i], Sdd),
      usbdl_get_data |-> GetData(roms[i])]

-----------------------------------------------------------------------------
(* What it is meant to find                                                *)

At(rom, o, pattern) == \A i \in 1..Len(pattern) : Halfword(rom, o + i - 1) = pattern[i]

\* r is the first of the offsets that are searched to be in places, or 0 if none is.
IsFirst(rom, r, places) ==
  IF r = 0 THEN \A o \in Start..Len(rom) : o \notin places
  ELSE r \in places /\ \A o \in Start..(r - 1) : o \notin places

IsGetData(rom, o) ==
  At(rom, o, Rcd2) /\ Halfword(rom, o + 3) = "46xx" /\ Halfword(rom, o + 4) = "xx92"

\* The routine in one of its three forms, which begin before their patterns.
IsResponse(rom, o) ==
  \/ At(rom, o, Sur1a) /\ At(rom, o + 3, Sur1b)
  \/ At(rom, o + 1, Sur2) \/ At(rom, o + 2, Sur3)

Places(rom, pattern) == {o \in Start..Len(rom) : At(rom, o, pattern)}

\* Each routine is the first with its pattern in the first ROM with the UART's, and
\* what is taken for send_usb_response is one of its forms.
Found(roms, r) ==
  /\ \A j \in 1..(r.base - 1) : Places(roms[j], Uartb) = {}
  /\ LET rom == roms[r.base]
     IN /\ IsFirst(rom, r.uart, Places(rom, Uartb))
        /\ IsFirst(rom, r.wdt, Places(rom, Wdts))
        /\ IsFirst(rom, r.usbdl_put_data, Places(rom, Sdd))
        /\ IsFirst(rom, r.usbdl_get_data, {o \in Start..Len(rom) : IsGetData(rom, o)})
        /\ r.send_usb_response # 0 => IsResponse(rom, r.send_usb_response)
        /\ r.send_usb_response = 0 =>
             \A o \in Start..Len(rom) : At(rom, o, Sur1a) \/ ~IsResponse(rom, o)
=============================================================================
