--------------------------- MODULE MemoryCommands ---------------------------
(***************************************************************************)
(* The commands of the two payloads that write and read memory, 0x4000 and *)
(* 0x4002, which address nothing but what the host names.  Memory is a     *)
(* sequence of bytes; an integer is its bytes in memory.  The buffer of    *)
(* main has 512 bytes and the size is not compared with it, so that a      *)
(* write of more is outside of what is modelled.                           *)
(***************************************************************************)
EXTENDS Integers, SequencesExt

\* usbdl_get_dword and the two __builtin_bswap32.
get_dword(sent, i) == SubSeq(sent, 4 * i + 1, 4 * i + 4)
bswap32(dword) == Reverse(dword)
recv_dword(sent, i) == bswap32(get_dword(sent, i))

Dwords(sz) == (sz + 3) \div 4

\* Mutant: the received value is stored as it is.
recv_data_OneSwap(sent, sz) ==
  FlattenSeq([i \in 1..Dwords(sz) |-> recv_dword(sent, i - 1)])

recv_data(sent, sz) ==
  FlattenSeq([i \in 1..Dwords(sz) |-> bswap32(recv_dword(sent, i - 1))])

Rounded(size) == IF size % 4 # 0 THEN ((size \div 4) + 1) * 4 ELSE size

\* Registers of one, two and four bytes are stored at once, the rest by memcpy.
Stored(buffer, size) == SubSeq(buffer, 1, size)

\* 0x4000: the memory after it, and how many bytes it has taken.
Write(mem, address, size, sent) ==
  LET bytes == Stored(recv_data(sent, Rounded(size)), size)
  IN [taken |-> 4 * Dwords(Rounded(size)),
      mem |-> [k \in DOMAIN mem |->
                 IF k \in address..(address + size - 1) THEN bytes[k - address + 1] ELSE mem[k]]]

\* 0x4002: usbdl_put_data from the memory itself.
Read(mem, address, size) == SubSeq(mem, address, address + size - 1)

\* 0x4000 writes the bytes in the order they were sent in and no other, 0x4002
\* sends them back, and the next command starts at a dword.
WritesRight(mem, address, size, sent) ==
  LET after == Write(mem, address, size, sent)
  IN /\ after.mem = SubSeq(mem, 1, address - 1) \o SubSeq(sent, 1, size)
                      \o SubSeq(mem, address + size, Len(mem))
     /\ Read(after.mem, address, size) = SubSeq(sent, 1, size)
     /\ after.taken % 4 = 0 /\ after.taken - size \in 0..3
=============================================================================
