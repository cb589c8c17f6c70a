---------------------------- MODULE MemoryProofs ----------------------------
(***************************************************************************)
(* Proofs about the bytes of memory: the frames of the RPMB, what 0x4000   *)
(* writes, the copies and the strings of libc.c, and the search through    *)
(* the halfwords of the boot ROM.                                          *)
(***************************************************************************)
EXTENDS LibraryProofs

-----------------------------------------------------------------------------
(* Sequences and the frames of the RPMB                                    *)

\* A sequence of n elements.
Long(s, n) == s = [i \in 1..n |-> s[i]]

\* The i-th byte of a frame of the standard.
LaidByte(f, i) ==
  IF i <= 196 THEN 0
  ELSE IF i <= 228 THEN f.mac[i - 196]
  ELSE IF i <= 484 THEN f.data[i - 228]
  ELSE IF i <= 500 THEN f.nonce[i - 484]
  ELSE IF i <= 504 THEN f.wc[505 - i]
  ELSE IF i <= 506 THEN F!Bytes(f.addr, 2)[507 - i]
  ELSE IF i <= 508 THEN F!Bytes(f.blk_cnt, 2)[509 - i]
  ELSE IF i <= 510 THEN f.result[511 - i]
  ELSE F!Bytes(f.type, 2)[513 - i]

\* A frame of the standard, byte by byte.
Layout(f) == [i \in 1..512 |-> LaidByte(f, i)]

\* The fields of a frame are as long as they should be.
Fields512(f) ==
  Long(f.mac, 32) /\ Long(f.data, 256) /\ Long(f.nonce, 16) /\ Long(f.wc, 4) /\ Long(f.result, 2)

\* s is the beginning of L, n elements of it.
Begins(s, n, L) == s = [i \in 1..n |-> L[i]]

\* t is what follows in L behind the n-th element, m elements of it.
Follows(t, m, L, n) == \A i \in 1..m : t[i] = L[n + i]

\* u is s with t behind it.
Joins(u, s, t) == u = s \o t

\* A frame has 512 bytes, and each is the one laid down.
LEMMA LayoutIsLong ==
  ASSUME NEW f
  PROVE  Long(Layout(f), 512) /\ \A i \in 1..512 : Layout(f)[i] = LaidByte(f, i)
BY DEF Long, Layout

\* The elements of a concatenation.
LEMMA Concatenated ==
  ASSUME NEW n \in Nat, NEW m \in Nat, NEW s, NEW t, Long(s, n), Long(t, m), NEW u, Joins(u, s, t)
  PROVE  /\ Long(u, n + m)
         /\ \A i \in 1..n : u[i] = s[i]
         /\ \A i \in 1..m : u[n + i] = t[i]
<1> DEFINE V == {s[i] : i \in 1..n} \cup {t[i] : i \in 1..m}
<1>1. s \in [1..n -> V] /\ t \in [1..m -> V]
  BY DEF Long
<1> HIDE DEF V
<1>2. s \in Seq(V) /\ t \in Seq(V) /\ Len(s) = n /\ Len(t) = m
  BY <1>1
<1>3. s \o t \in Seq(V) /\ Len(s \o t) = n + m
  BY <1>2
<1>4. \A i \in 1..n : (s \o t)[i] = s[i]
  BY <1>2
<1>5. \A i \in 1..m : (s \o t)[n + i] = t[i]
  BY <1>2
<1>6. Long(s \o t, n + m)
  BY <1>3 DEF Long
<1> QED BY <1>4, <1>5, <1>6 DEF Joins

\* A beginning of L with what follows in L behind it is a longer beginning.
LEMMA Extended ==
  ASSUME NEW L, NEW n \in Nat, NEW m \in Nat, NEW s, Begins(s, n, L),
         NEW t, Long(t, m), Follows(t, m, L, n), NEW u, Joins(u, s, t)
  PROVE  Begins(u, n + m, L)
<1>1. Long(s, n) /\ \A i \in 1..n : s[i] = L[i]
  BY DEF Long, Begins
<1>2. Long(u, n + m) /\ (\A i \in 1..n : u[i] = s[i]) /\ (\A i \in 1..m : u[n + i] = t[i])
  <2>1. Long(s, n)
    BY <1>1
  <2> QED BY <2>1, Concatenated
<1>3. ASSUME NEW i \in 1..(n + m)
      PROVE  u[i] = L[i]
  <2>1. CASE i <= n
    BY <1>1, <1>2, <2>1
  <2>2. CASE i > n
    <3>1. i - n \in 1..m /\ i = n + (i - n)
      BY <2>2
    <3>2. u[i] = t[i - n]
      BY <1>2, <3>1
    <3> QED BY <3>1, <3>2 DEF Follows
  <2> QED BY <2>1, <2>2
<1>4. u = [i \in 1..(n + m) |-> L[i]]
  BY <1>2, <1>3 DEF Long
<1> QED BY <1>4 DEF Begins

\* The elements of a reversed sequence.
LEMMA ReversedAt ==
  ASSUME NEW n \in Nat, NEW s, Long(s, n)
  PROVE  Long(F!Reverse(s), n) /\ \A i \in 1..n : F!Reverse(s)[i] = s[n + 1 - i]
<1>1. Len(s) = n
  <2> DEFINE V == {s[i] : i \in 1..n}
  <2>1. s \in [1..n -> V]
    BY DEF Long
  <2> HIDE DEF V
  <2> QED BY <2>1
<1>2. \A i \in 1..n : n - i + 1 = n + 1 - i
  OBVIOUS
<1> QED BY <1>1, <1>2 DEF Long, F!Reverse

\* An integer in memory and cleared memory have the length asked for.
LEMMA BytesAre ==
  ASSUME NEW v, NEW n \in Nat
  PROVE  Long(F!Bytes(v, n), n) /\ Long(F!Zeros(n), n) /\ \A i \in 1..n : F!Zeros(n)[i] = 0
BY DEF Long, F!Bytes, F!Zeros

\* The concatenation that defines a frame of the standard, byte by byte.
LEMMA StandardIs ==
  ASSUME NEW f, Fields512(f)
  PROVE  F!Standard(f) = Layout(f)
<1>1. /\ Long(f.mac, 32) /\ Long(f.data, 256) /\ Long(f.nonce, 16)
      /\ Long(f.wc, 4) /\ Long(f.result, 2)
  BY DEF Fields512
<1>2. Long(F!Reverse(f.wc), 4) /\ Long(F!Reverse(f.result), 2)
  BY <1>1, ReversedAt
<1>3. \A x : Long(F!Reverse(F!Bytes(x, 2)), 2)
  BY BytesAre, ReversedAt
<1> DEFINE L == Layout(f)
<1>4. \A i \in 1..196 : L[i] = 0
  BY DEF Layout, LaidByte
<1>5. Follows(f.mac, 32, L, 196)
  <2>1. \A i \in 1..32 : L[196 + i] = f.mac[i]
    BY DEF Layout, LaidByte
  <2> QED BY <2>1 DEF Follows
<1>6. Follows(f.data, 256, L, 228)
  <2>1. \A i \in 1..256 : L[228 + i] = f.data[i]
    BY DEF Layout, LaidByte
  <2> QED BY <2>1 DEF Follows
<1>7. Follows(f.nonce, 16, L, 484)
  <2>1. \A i \in 1..16 : L[484 + i] = f.nonce[i]
    BY DEF Layout, LaidByte
  <2> QED BY <2>1 DEF Follows
<1>8. Follows(F!Reverse(f.wc), 4, L, 500)
  <2>1. \A i \in 1..4 : L[500 + i] = f.wc[4 + 1 - i]
    BY DEF Layout, LaidByte
  <2> QED BY BytesAre, ReversedAt, <1>1, <2>1 DEF Follows
<1>9. Follows(F!Reverse(F!Bytes(f.addr, 2)), 2, L, 504)
  <2>1. \A i \in 1..2 : L[504 + i] = F!Bytes(f.addr, 2)[2 + 1 - i]
    BY DEF Layout, LaidByte
  <2> QED BY BytesAre, ReversedAt, <1>1, <2>1 DEF Follows
<1>10. Follows(F!Reverse(F!Bytes(f.blk_cnt, 2)), 2, L, 506)
  <2>1. \A i \in 1..2 : L[506 + i] = F!Bytes(f.blk_cnt, 2)[2 + 1 - i]
    BY DEF Layout, LaidByte
  <2> QED BY BytesAre, ReversedAt, <1>1, <2>1 DEF Follows
<1>11. Follows(F!Reverse(f.result), 2, L, 508)
  <2>1. \A i \in 1..2 : L[508 + i] = f.result[2 + 1 - i]
    BY DEF Layout, LaidByte
  <2> QED BY BytesAre, ReversedAt, <1>1, <2>1 DEF Follows
<1>12. Follows(F!Reverse(F!Bytes(f.type, 2)), 2, L, 510)
  <2>1. \A i \in 1..2 : L[510 + i] = F!Bytes(f.type, 2)[2 + 1 - i]
    BY DEF Layout, LaidByte
  <2> QED BY BytesAre, ReversedAt, <1>1, <2>1 DEF Follows
<1>13. L = [i \in 1..512 |-> L[i]]
  BY DEF Layout, LaidByte
<1> HIDE DEF L
<1> DEFINE a1 == F!Zeros(196)
           a2 == a1 \o f.mac
           a3 == a2 \o f.data
           a4 == a3 \o f.nonce
           a5 == a4 \o F!Reverse(f.wc)
           a6 == a5 \o F!Reverse(F!Bytes(f.addr, 2))
           a7 == a6 \o F!Reverse(F!Bytes(f.blk_cnt, 2))
           a8 == a7 \o F!Reverse(f.result)
           a9 == a8 \o F!Reverse(F!Bytes(f.type, 2))
<1>14. F!Standard(f) = a9
  BY DEF F!Standard
<1>15. Begins(a1, 196, L)
  BY <1>4 DEF F!Zeros, Begins
<1> HIDE DEF a1
<1>16. Begins(a2, 228, L)
  <2>1. Joins(a2, a1, f.mac)
    BY DEF Joins
  <2>2. Begins(a2, 196 + 32, L)
    <3> HIDE DEF a2
    <3> QED BY <1>5, <1>15, <1>1, <2>1, Extended
  <2> QED BY <2>2
<1> HIDE DEF a2
<1>17. Begins(a3, 484, L)
  <2>1. Joins(a3, a2, f.data)
    BY DEF Joins
  <2>2. Begins(a3, 228 + 256, L)
    <3> HIDE DEF a3
    <3> QED BY <1>6, <1>16, <1>1, <2>1, Extended
  <2> QED BY <2>2
<1> HIDE DEF a3
<1>18. Begins(a4, 500, L)
  <2>1. Joins(a4, a3, f.nonce)
    BY DEF Joins
  <2>2. Begins(a4, 484 + 16, L)
    <3> HIDE DEF a4
    <3> QED BY <1>7, <1>17, <1>1, <2>1, Extended
  <2> QED BY <2>2
<1> HIDE DEF a4
<1>19. Begins(a5, 504, L)
  <2>1. Joins(a5, a4, F!Reverse(f.wc))
    BY DEF Joins
  <2>2. Begins(a5, 500 + 4, L)
    <3> HIDE DEF a5
    <3> QED BY <1>8, <1>18, <1>2, <2>1, Extended
  <2> QED BY <2>2
<1> HIDE DEF a5
<1>20. Begins(a6, 506, L)
  <2>1. Joins(a6, a5, F!Reverse(F!Bytes(f.addr, 2)))
    BY DEF Joins
  <2>2. Begins(a6, 504 + 2, L)
    <3> HIDE DEF a6
    <3> QED BY <1>9, <1>19, <1>3, <2>1, Extended
  <2> QED BY <2>2
<1> HIDE DEF a6
<1>21. Begins(a7, 508, L)
  <2>1. Joins(a7, a6, F!Reverse(F!Bytes(f.blk_cnt, 2)))
    BY DEF Joins
  <2>2. Begins(a7, 506 + 2, L)
    <3> HIDE DEF a7
    <3> QED BY <1>10, <1>20, <1>3, <2>1, Extended
  <2> QED BY <2>2
<1> HIDE DEF a7
<1>22. Begins(a8, 510, L)
  <2>1. Joins(a8, a7, F!Reverse(f.result))
    BY DEF Joins
  <2>2. Begins(a8, 508 + 2, L)
    <3> HIDE DEF a8
    <3> QED BY <1>11, <1>21, <1>2, <2>1, Extended
  <2> QED BY <2>2
<1> HIDE DEF a8
<1>23. Begins(a9, 512, L)
  <2>1. Joins(a9, a8, F!Reverse(F!Bytes(f.type, 2)))
    BY DEF Joins
  <2>2. Begins(a9, 510 + 2, L)
    <3> HIDE DEF a9
    <3> QED BY <1>12, <1>22, <1>3, <2>1, Extended
  <2> QED BY <2>2
<1> QED BY <1>13, <1>14, <1>23 DEF L, Begins

\* The frame g is f with b, n bytes, behind at.
WrittenByte(g, f, at, n, b, i) ==
  /\ at < i /\ i <= at + n => g[i] = b[i - at]
  /\ ~(at < i /\ i <= at + n) => g[i] = f[i]
Overwritten(g, f, at, n, b) ==
  Long(g, 512) /\ \A i \in 1..512 : WrittenByte(g, f, at, n, b, i)

\* memcpy into a frame.
LEMMA CopiedAt ==
  ASSUME NEW f, Long(f, 512), NEW at \in Nat, NEW n \in Nat, NEW b, Long(b, n)
  PROVE  Overwritten(F!memcpy(f, at, b), f, at, n, b)
<1>1. Len(b) = n
  <2> DEFINE V == {b[i] : i \in 1..n}
  <2>1. b \in [1..n -> V]
    BY DEF Long
  <2> HIDE DEF V
  <2> QED BY <2>1
<1>2. DOMAIN f = 1..512
  BY DEF Long
<1>3. \A i \in 1..512 : i \in (at + 1)..(at + n) <=> at < i /\ i <= at + n
  OBVIOUS
<1> DEFINE g == F!memcpy(f, at, b)
           In(i) == at < i /\ i <= at + n
<1>4. g = [i \in 1..512 |-> IF i \in (at + 1)..(at + n) THEN b[i - at] ELSE f[i]]
  BY <1>1, <1>2, Zenon DEF F!memcpy
<1> HIDE DEF g
<1>5. \A i \in 1..512 : g[i] = IF In(i) THEN b[i - at] ELSE f[i]
  <2> HIDE DEF In
  <2>1. \A i \in 1..512 : i \in (at + 1)..(at + n) <=> In(i)
    BY <1>3 DEF In
  <2> QED BY <1>4, <2>1, Zenon
<1>6. Long(g, 512)
  BY ZenonT(30), <1>4 DEF Long
<1>7. Overwritten(g, f, at, n, b)
  BY <1>5, <1>6 DEF Overwritten, WrittenByte
<1> QED BY <1>7 DEF g

\* Frames with the type, the address and the counter of a request.
Typed(req) == F!memcpy(F!Zeros(512), 510, F!Swapped(F!Bytes(req.type, 2)))
Addressed(req) == F!memcpy(Typed(req), 504, F!Swapped(F!Bytes(req.addr, 2)))
Sized(req) == F!memcpy(Addressed(req), 506, F!Swapped(F!Bytes(req.blk_cnt, 2)))
Counted(req) == F!memcpy(Sized(req), 500, F!Swapped(req.wc))

\* A half word as it is in a frame: the high byte first.
LEMMA SwappedAt ==
  ASSUME NEW v
  PROVE  LET s == F!Swapped(F!Bytes(v, 2))
         IN Long(s, 2) /\ \A i \in 1..2 : s[i] = F!Bytes(v, 2)[3 - i]
<1>1. Long(F!Bytes(v, 2), 2)
  BY BytesAre
<1> DEFINE b == F!Bytes(v, 2)
<1>2. Long(b, 2)
  BY <1>1
<1> HIDE DEF b
<1>3. Long(F!Reverse(b), 2) /\ \A i \in 1..2 : F!Reverse(b)[i] = b[2 + 1 - i]
  BY <1>2, ReversedAt
<1>4. \A i \in 1..2 : 2 + 1 - i = 3 - i
  OBVIOUS
<1> QED BY <1>3, <1>4 DEF F!Swapped, b

\* A frame that is clear but for its type.
LEMMA TypedAt ==
  ASSUME NEW req
  PROVE  /\ Long(Typed(req), 512)
         /\ \A i \in 1..512 :
              Typed(req)[i] = IF 510 < i THEN F!Bytes(req.type, 2)[513 - i] ELSE 0
<1> DEFINE s == F!Swapped(F!Bytes(req.type, 2))
           b == F!Bytes(req.type, 2)
           z == F!Zeros(512)
<1>1. Long(s, 2) /\ \A i \in 1..2 : s[i] = b[3 - i]
  BY SwappedAt
<1>2. Long(z, 512) /\ \A i \in 1..512 : z[i] = 0
  BY BytesAre
<1>3. Typed(req) = F!memcpy(z, 510, s)
  BY DEF Typed
<1> HIDE DEF s, b, z
<1>4. Overwritten(F!memcpy(z, 510, s), z, 510, 2, s)
  BY <1>1, <1>2, CopiedAt
<1> DEFINE t == Typed(req)
<1>5. Overwritten(t, z, 510, 2, s)
  BY <1>3, <1>4
<1> HIDE DEF t
<1>6. ASSUME NEW i \in 1..512
      PROVE  t[i] = IF 510 < i THEN b[513 - i] ELSE 0
  <2>1. CASE 510 < i
    <3>1. i - 510 \in 1..2 /\ 3 - (i - 510) = 513 - i /\ i <= 510 + 2
      BY <2>1
    <3>2. t[i] = s[i - 510]
      BY <1>5, <2>1, <3>1 DEF Overwritten, WrittenByte
    <3> QED BY <1>1, <2>1, <3>1, <3>2
  <2>2. CASE ~(510 < i)
    <3>1. WrittenByte(t, z, 510, 2, s, i) /\ z[i] = 0
      BY <1>2, <1>5 DEF Overwritten
    <3> QED BY <2>2, <3>1 DEF WrittenByte
  <2> QED BY <2>1, <2>2
<1> QED BY <1>5, <1>6 DEF t, b, Overwritten, WrittenByte

\* g has v behind at, the high byte first.
Shows(g, at, v) == \A i \in 1..512 : at < i /\ i <= at + 2 => g[i] = F!Bytes(v, 2)[at + 3 - i]

\* A half word that is swapped and copied into a frame is shown there.
LEMMA SwappedIs ==
  ASSUME NEW v, NEW at \in Nat, NEW f, NEW g, Overwritten(g, f, at, 2, F!Swapped(F!Bytes(v, 2))),
         at + 2 <= 512
  PROVE  Shows(g, at, v)
<1> DEFINE s == F!Swapped(F!Bytes(v, 2))
           b == F!Bytes(v, 2)
<1>1. Long(s, 2) /\ \A i \in 1..2 : s[i] = b[3 - i]
  BY SwappedAt
<1>2. Overwritten(g, f, at, 2, s)
  OBVIOUS
<1> HIDE DEF s, b
<1>3. ASSUME NEW i \in 1..512, at < i, i <= at + 2
      PROVE  g[i] = b[at + 3 - i]
  <2>1. i - at \in 1..2 /\ 3 - (i - at) = at + 3 - i
    BY <1>3
  <2>2. g[i] = s[i - at]
    BY <1>2, <1>3 DEF Overwritten, WrittenByte
  <2> QED BY <1>1, <2>1, <2>2
<1> QED BY <1>3 DEF b, Shows

\* The copies of mmc_rpmb_pre_frame up to the write counter, one after the other.
LEMMA ChainIs ==
  ASSUME NEW req
  PROVE  /\ Long(Typed(req), 512) /\ Long(Addressed(req), 512) /\ Long(Sized(req), 512)
         /\ Overwritten(Addressed(req), Typed(req), 504, 2, F!Swapped(F!Bytes(req.addr, 2)))
         /\ Overwritten(Sized(req), Addressed(req), 506, 2, F!Swapped(F!Bytes(req.blk_cnt, 2)))
<1>1. \A v : Long(F!Swapped(F!Bytes(v, 2)), 2)
  BY SwappedAt
<1>2. Long(Typed(req), 512)
  BY TypedAt
<1>3. Overwritten(Addressed(req), Typed(req), 504, 2, F!Swapped(F!Bytes(req.addr, 2)))
  BY <1>1, <1>2, CopiedAt DEF Addressed
<1>4. Long(Addressed(req), 512)
  BY <1>3 DEF Overwritten, WrittenByte
<1>5. Overwritten(Sized(req), Addressed(req), 506, 2, F!Swapped(F!Bytes(req.blk_cnt, 2)))
  BY <1>1, <1>4, CopiedAt DEF Sized
<1>6. Long(Sized(req), 512)
  BY <1>5 DEF Overwritten, WrittenByte
<1> QED BY <1>2, <1>3, <1>4, <1>5, <1>6

\* A field that is 0 is clear.
LEMMA ClearBytes == F!Bytes(0, 2) = F!Zeros(2) /\ F!Bytes(0, 4) = F!Zeros(4)
<1>1. F!Bytes(0, 2) = <<0, 0>> /\ F!Zeros(2) = <<0, 0>>
  BY DEF F!Bytes, F!Zeros
<1>2. F!Bytes(0, 4) = <<0, 0, 0, 0>> /\ F!Zeros(4) = <<0, 0, 0, 0>>
  BY DEF F!Bytes, F!Zeros
<1> QED BY <1>1, <1>2

\* mmc_rpmb_pre_frame, for each of the three requests.
LEMMA PreFrameIs ==
  ASSUME NEW req
  PROVE  /\ req.type = 2 => F!mmc_rpmb_pre_frame(req) = F!memcpy(Typed(req), 484, req.nonce)
         /\ req.type = 4 => F!mmc_rpmb_pre_frame(req) = F!memcpy(Addressed(req), 484, req.nonce)
         /\ req.type = 3 =>
              F!mmc_rpmb_pre_frame(req)
                = F!memcpy(F!memcpy(Counted(req), 228, req.data), 196, req.mac)
BY DEF F!mmc_rpmb_pre_frame, Counted, Sized, Addressed, Typed, F!GET_WRITE_COUNTER, F!READ_DATA,
       F!WRITE_DATA, F!TYPE_BEG, F!ADDR_BEG, F!NONCE_BEG, F!DATA_BEG, F!MAC_BEG, F!BLKS_BEG,
       F!WCOUNTER_BEG

\* The same byte everywhere.
Agree(g, h) == \A i \in 1..512 : g[i] = h[i]

\* Frames with the same bytes are the same.
LEMMA SameFrame ==
  ASSUME NEW g, NEW h, Long(g, 512), Long(h, 512), Agree(g, h)
  PROVE  g = h
<1>1. \A i \in 1..512 : g[i] = h[i]
  BY DEF Agree
<1>2. [i \in 1..512 |-> g[i]] = [i \in 1..512 |-> h[i]]
  BY <1>1
<1> QED BY <1>2, Zenon DEF Long

\* A frame with a type and an address and nothing else.
PlainByte(a, type, i) ==
  /\ i <= 504 \/ (506 < i /\ i <= 510) => a[i] = 0
  /\ 510 < i => a[i] = F!Bytes(type, 2)[513 - i]
Plain(a, type, addr) ==
  Long(a, 512) /\ Shows(a, 504, addr) /\ \A i \in 1..512 : PlainByte(a, type, i)

\* The bytes of the fields of a clear frame.
LEMMA ClearFields ==
  /\ \A i \in 1..2 : F!Bytes(0, 2)[i] = 0
  /\ \A i \in 1..4 : F!Bytes(0, 4)[i] = 0
  /\ \A i \in 1..16 : F!Zeros(16)[i] = 0
  /\ \A i \in 1..32 : F!Zeros(32)[i] = 0
  /\ \A i \in 1..256 : F!Zeros(256)[i] = 0
<1>1. \A n \in Nat : \A i \in 1..n : F!Zeros(n)[i] = 0
  BY BytesAre
<1>2. F!Bytes(0, 2) = F!Zeros(2) /\ F!Bytes(0, 4) = F!Zeros(4)
  BY ClearBytes
<1>3. \A i \in 1..16 : F!Zeros(16)[i] = 0
  BY <1>1
<1>4. \A i \in 1..32 : F!Zeros(32)[i] = 0
  BY <1>1
<1>5. \A i \in 1..256 : F!Zeros(256)[i] = 0
  BY <1>1
<1>6. (\A i \in 1..2 : F!Zeros(2)[i] = 0) /\ (\A i \in 1..4 : F!Zeros(4)[i] = 0)
  BY <1>1
<1> QED BY <1>2, <1>3, <1>4, <1>5, <1>6

\* The frame before the fields of a request for the write counter.
LEMMA TypedIsPlain ==
  ASSUME NEW req
  PROVE  Plain(Typed(req), req.type, 0)
<1> DEFINE t == Typed(req)
<1>1. Long(t, 512)
  BY TypedAt
<1>2. \A i \in 1..512 : t[i] = IF 510 < i THEN F!Bytes(req.type, 2)[513 - i] ELSE 0
  BY TypedAt
<1> HIDE DEF t
<1>3. ASSUME NEW i \in 1..512, 504 < i, i <= 504 + 2
      PROVE  t[i] = F!Bytes(0, 2)[504 + 3 - i]
  <2>1. 504 + 3 - i \in 1..2
    BY <1>3
  <2> QED BY <1>2, <1>3, <2>1, ClearFields
<1>4. Shows(t, 504, 0)
  BY <1>3 DEF Shows
<1> QED BY <1>1, <1>2, <1>4 DEF Plain, PlainByte, t

\* The frame before the fields of a read.
LEMMA AddressedIsPlain ==
  ASSUME NEW req
  PROVE  Plain(Addressed(req), req.type, req.addr)
<1> DEFINE t == Typed(req)
           a == Addressed(req)
<1>1. Long(a, 512) /\ Shows(a, 504, req.addr)
  BY ChainIs, SwappedIs
<1>2. Overwritten(a, t, 504, 2, F!Swapped(F!Bytes(req.addr, 2)))
  BY ChainIs
<1>3. \A i \in 1..512 : t[i] = IF 510 < i THEN F!Bytes(req.type, 2)[513 - i] ELSE 0
  BY TypedAt
<1> HIDE DEF t, a
<1>4. ASSUME NEW i \in 1..512, i <= 504 \/ 506 < i
      PROVE  a[i] = t[i]
  <2>1. WrittenByte(a, t, 504, 2, F!Swapped(F!Bytes(req.addr, 2)), i)
    BY <1>2 DEF Overwritten
  <2> QED BY <1>4, <2>1 DEF WrittenByte
<1>5. ASSUME NEW i \in 1..512
      PROVE  PlainByte(a, req.type, i)
  <2>1. t[i] = IF 510 < i THEN F!Bytes(req.type, 2)[513 - i] ELSE 0
    BY <1>3
  <2>2. i <= 504 \/ 506 < i => a[i] = t[i]
    BY <1>4
  <2> QED BY <2>1, <2>2 DEF PlainByte
<1>6. Long(a, 512) /\ Shows(a, 504, req.addr)
  BY <1>1 DEF a
<1> QED BY <1>5, <1>6 DEF Plain, a

\* Such a frame with a nonce is the one of the standard that has them.
LEMMA NonceFrame ==
  ASSUME NEW a, NEW g, NEW nonce, NEW type, NEW addr, Plain(a, type, addr),
         Overwritten(g, a, 484, 16, nonce),
         NEW f, f.type = type, f.addr = addr, f.nonce = nonce, f.mac = F!Zeros(32),
         f.data = F!Zeros(256), f.wc = F!Bytes(0, 4), f.blk_cnt = 0, f.result = F!Bytes(0, 2)
  PROVE  g = Layout(f)
<1> DEFINE L == Layout(f)
<1>1. Long(L, 512) /\ \A i \in 1..512 : L[i] = LaidByte(f, i)
  BY LayoutIsLong
<1> HIDE DEF L
<1>2. Long(g, 512) /\ Shows(a, 504, addr)
  BY DEF Overwritten, Plain
<1>3. ASSUME NEW i \in 1..512
      PROVE  g[i] = L[i]
  <2>1. /\ L[i] = LaidByte(f, i)
        /\ WrittenByte(g, a, 484, 16, nonce, i) /\ PlainByte(a, type, i)
    <3>1. L[i] = LaidByte(f, i)
      BY <1>1
    <3>2. WrittenByte(g, a, 484, 16, nonce, i)
      BY DEF Overwritten
    <3>3. PlainByte(a, type, i)
      BY DEF Plain
    <3> QED BY <3>1, <3>2, <3>3
  <2>2. CASE i <= 484
    <3>1. g[i] = 0
      BY <2>1, <2>2 DEF WrittenByte, PlainByte
    <3>2. L[i] = 0
      <4>1. CASE i <= 196
        BY <2>1, <4>1 DEF LaidByte
      <4>2. CASE 196 < i /\ i <= 228
        <5>1. L[i] = F!Zeros(32)[i - 196] /\ i - 196 \in 1..32
          BY <2>1, <4>2 DEF LaidByte
        <5> QED BY ClearFields, <5>1
      <4>3. CASE 228 < i
        <5>1. L[i] = F!Zeros(256)[i - 228] /\ i - 228 \in 1..256
          BY <2>1, <2>2, <4>3 DEF LaidByte
        <5> QED BY ClearFields, <5>1
      <4> QED BY <4>1, <4>2, <4>3
    <3> QED BY <3>1, <3>2
  <2>3. CASE 484 < i /\ i <= 500
    BY <2>1, <2>3 DEF WrittenByte, LaidByte
  <2>4. CASE 500 < i /\ i <= 504
    <3>1. g[i] = 0
      BY <2>1, <2>4 DEF WrittenByte, PlainByte
    <3>2. L[i] = F!Bytes(0, 4)[505 - i] /\ 505 - i \in 1..4
      BY <2>1, <2>4 DEF LaidByte
    <3> QED BY ClearFields, <3>1, <3>2
  <2>5. CASE 504 < i /\ i <= 506
    <3>1. g[i] = a[i]
      BY <2>1, <2>5 DEF WrittenByte
    <3>2. a[i] = F!Bytes(addr, 2)[504 + 3 - i] /\ 504 + 3 - i = 507 - i
      BY <1>2, <2>5 DEF Shows
    <3>3. L[i] = F!Bytes(addr, 2)[507 - i]
      BY <2>1, <2>5 DEF LaidByte
    <3> QED BY <3>1, <3>2, <3>3
  <2>6. CASE 506 < i /\ i <= 510
    <3>1. g[i] = 0
      BY <2>1, <2>6 DEF WrittenByte, PlainByte
    <3>2. CASE i <= 508
      <4>1. L[i] = F!Bytes(0, 2)[509 - i] /\ 509 - i \in 1..2
        BY <2>1, <2>6, <3>2 DEF LaidByte
      <4> QED BY ClearFields, <3>1, <4>1
    <3>3. CASE 508 < i
      <4>1. L[i] = F!Bytes(0, 2)[511 - i] /\ 511 - i \in 1..2
        BY <2>1, <2>6, <3>3 DEF LaidByte
      <4> QED BY ClearFields, <3>1, <4>1
    <3> QED BY <3>2, <3>3
  <2>7. CASE 510 < i
    BY <2>1, <2>7 DEF WrittenByte, PlainByte, LaidByte
  <2> QED BY <2>2, <2>3, <2>4, <2>5, <2>6, <2>7
<1>4. Agree(g, L)
  BY <1>3 DEF Agree
<1>5. Long(g, 512) /\ Long(L, 512)
  BY <1>1, <1>2
<1>6. g = L
  BY <1>4, <1>5, SameFrame
<1> QED BY <1>6 DEF L

\* The frame g of a write has the fields of f.
LEMMA WriteFrame ==
  ASSUME NEW req, Long(req.data, 256), Long(req.mac, 32), Long(req.wc, 4),
         NEW f, f.type = req.type, f.addr = req.addr, f.blk_cnt = req.blk_cnt, f.data = req.data,
         f.mac = req.mac, f.wc = req.wc, f.nonce = F!Zeros(16), f.result = F!Bytes(0, 2)
  PROVE  F!memcpy(F!memcpy(Counted(req), 228, req.data), 196, req.mac) = Layout(f)
<1> DEFINE a == Addressed(req)
           s == Sized(req)
           c == Counted(req)
           d == F!memcpy(c, 228, req.data)
           g == F!memcpy(d, 196, req.mac)
           L == Layout(f)
           r == F!Swapped(req.wc)
<1>1. Plain(a, req.type, req.addr)
  BY AddressedIsPlain
<1>2. Overwritten(s, a, 506, 2, F!Swapped(F!Bytes(req.blk_cnt, 2))) /\ Long(s, 512)
  BY ChainIs
<1>3. Shows(s, 506, req.blk_cnt)
  BY <1>2, SwappedIs
<1>4. Long(r, 4) /\ \A i \in 1..4 : r[i] = req.wc[4 + 1 - i]
  BY ReversedAt DEF F!Swapped
<1>5. Overwritten(c, s, 500, 4, r)
  <2>1. Long(r, 4)
    BY <1>4
  <2> HIDE DEF r, s
  <2>2. Overwritten(F!memcpy(s, 500, r), s, 500, 4, r)
    BY <1>2, <2>1, CopiedAt
  <2> QED BY <2>2 DEF Counted, r, s
<1>6. Overwritten(d, c, 228, 256, req.data)
  <2>1. Long(c, 512)
    BY <1>5 DEF Overwritten, WrittenByte
  <2> QED BY <2>1, CopiedAt
<1>7. Overwritten(g, d, 196, 32, req.mac)
  <2>1. Long(d, 512)
    BY <1>6 DEF Overwritten, WrittenByte
  <2> QED BY <2>1, CopiedAt
<1>8. Long(L, 512) /\ \A i \in 1..512 : L[i] = LaidByte(f, i)
  BY LayoutIsLong
<1> HIDE DEF a, s, c, d, g, r, L
<1>9. Long(g, 512) /\ \A i \in 1..512 : WrittenByte(g, d, 196, 32, req.mac, i)
  BY <1>7 DEF Overwritten
<1>10. \A i \in 1..512 : WrittenByte(d, c, 228, 256, req.data, i)
  BY <1>6 DEF Overwritten
<1>11. \A i \in 1..512 : WrittenByte(c, s, 500, 4, r, i)
  BY <1>5 DEF Overwritten
<1>12. \A i \in 1..512 : WrittenByte(s, a, 506, 2, F!Swapped(F!Bytes(req.blk_cnt, 2)), i)
  BY <1>2 DEF Overwritten
<1>13. Shows(a, 504, req.addr)
  BY <1>1 DEF Plain
<1>14. ASSUME NEW i \in 1..512
       PROVE  g[i] = L[i]
  <2>1. /\ L[i] = LaidByte(f, i) /\ PlainByte(a, req.type, i)
        /\ WrittenByte(g, d, 196, 32, req.mac, i)
        /\ WrittenByte(d, c, 228, 256, req.data, i)
        /\ WrittenByte(c, s, 500, 4, r, i)
    <3>1. L[i] = LaidByte(f, i)
      BY <1>8
    <3>2. PlainByte(a, req.type, i)
      BY <1>1 DEF Plain
    <3>3. WrittenByte(g, d, 196, 32, req.mac, i)
      BY <1>9
    <3>4. WrittenByte(d, c, 228, 256, req.data, i)
      BY <1>10
    <3>5. WrittenByte(c, s, 500, 4, r, i)
      BY <1>11
    <3> QED BY <3>1, <3>2, <3>3, <3>4, <3>5
  <2>2. i <= 506 \/ 508 < i => s[i] = a[i]
    <3>1. WrittenByte(s, a, 506, 2, F!Swapped(F!Bytes(req.blk_cnt, 2)), i)
      BY <1>12
    <3> QED BY <3>1 DEF WrittenByte
  <2>3. CASE i <= 196
    BY <2>1, <2>2, <2>3 DEF WrittenByte, PlainByte, LaidByte
  <2>4. CASE 196 < i /\ i <= 228
    BY <2>1, <2>4 DEF WrittenByte, LaidByte
  <2>5. CASE 228 < i /\ i <= 484
    BY <2>1, <2>5 DEF WrittenByte, LaidByte
  <2>6. CASE 484 < i /\ i <= 500
    <3>1. g[i] = 0
      BY <2>1, <2>2, <2>6 DEF WrittenByte, PlainByte
    <3>2. L[i] = F!Zeros(16)[i - 484] /\ i - 484 \in 1..16
      BY <2>1, <2>6 DEF LaidByte
    <3> QED BY <3>1, <3>2, ClearFields
  <2>7. CASE 500 < i /\ i <= 504
    <3>1. g[i] = r[i - 500]
      BY <2>1, <2>7 DEF WrittenByte
    <3>2. i - 500 \in 1..4 /\ 4 + 1 - (i - 500) = 505 - i
      BY <2>7
    <3>3. r[i - 500] = req.wc[505 - i]
      BY <1>4, <3>2
    <3>4. L[i] = req.wc[505 - i]
      BY <2>1, <2>7 DEF LaidByte
    <3> QED BY <3>1, <3>3, <3>4
  <2>8. CASE 504 < i /\ i <= 506
    <3>1. g[i] = a[i]
      BY <2>1, <2>2, <2>8 DEF WrittenByte
    <3>2. a[i] = F!Bytes(req.addr, 2)[504 + 3 - i] /\ 504 + 3 - i = 507 - i
      BY <1>13, <2>8 DEF Shows
    <3>3. L[i] = F!Bytes(req.addr, 2)[507 - i]
      BY <2>1, <2>8 DEF LaidByte
    <3> QED BY <3>1, <3>2, <3>3
  <2>9. CASE 506 < i /\ i <= 508
    <3>1. g[i] = s[i]
      BY <2>1, <2>9 DEF WrittenByte
    <3>2. s[i] = F!Bytes(req.blk_cnt, 2)[506 + 3 - i] /\ 506 + 3 - i = 509 - i
      BY <1>3, <2>9 DEF Shows
    <3>3. L[i] = F!Bytes(req.blk_cnt, 2)[509 - i]
      BY <2>1, <2>9 DEF LaidByte
    <3> QED BY <3>1, <3>2, <3>3
  <2>10. CASE 508 < i /\ i <= 510
    <3>1. g[i] = 0
      BY <2>1, <2>2, <2>10 DEF WrittenByte, PlainByte
    <3>2. L[i] = F!Bytes(0, 2)[511 - i] /\ 511 - i \in 1..2
      BY <2>1, <2>10 DEF LaidByte
    <3> QED BY <3>1, <3>2, ClearFields
  <2>11. CASE 510 < i
    BY <2>1, <2>2, <2>11 DEF WrittenByte, PlainByte, LaidByte
  <2> QED BY <2>3, <2>4, <2>5, <2>6, <2>7, <2>8, <2>9, <2>10, <2>11
<1>15. Agree(g, L)
  BY <1>14 DEF Agree
<1>16. Long(g, 512) /\ Long(L, 512)
  BY <1>8, <1>9
<1>17. g = L
  BY <1>15, <1>16, SameFrame
<1> QED BY <1>17 DEF L, g, d, c

\* What RequestFits compares the frame of a request with.
Asked(req) ==
  [f \in DOMAIN F!Clear |->
     IF f \in DOMAIN req /\ ~(f = "data" /\ req.type = F!READ_DATA)
          /\ ~(f = "blk_cnt" /\ req.type # F!WRITE_DATA)
     THEN req[f] ELSE F!Clear[f]]

\* The fields of a clear frame, one by one.
LEMMA ClearIs ==
  /\ DOMAIN F!Clear
       = {"mac", "data", "nonce", "wc", "addr", "blk_cnt", "result", "type"}
  /\ F!Clear.mac = F!Zeros(32) /\ F!Clear.data = F!Zeros(256) /\ F!Clear.nonce = F!Zeros(16)
  /\ F!Clear.wc = F!Bytes(0, 4) /\ F!Clear.addr = 0 /\ F!Clear.blk_cnt = 0
  /\ F!Clear.result = F!Bytes(0, 2) /\ F!Clear.type = 0
BY DEF F!Clear

\* They are as long as they should be.
LEMMA ZerosLong ==
  /\ Long(F!Zeros(16), 16) /\ Long(F!Zeros(32), 32) /\ Long(F!Zeros(256), 256)
  /\ Long(F!Bytes(0, 2), 2) /\ Long(F!Bytes(0, 4), 4)
BY BytesAre

\* The pointers each request has to have.
LEMMA MustIs ==
  /\ F!Must(2) = {"nonce", "wc"} /\ F!Must(4) = {"data", "nonce"}
  /\ F!Must(3) = {"data", "wc", "mac"}
BY DEF F!Must, F!READ_DATA, F!GET_WRITE_COUNTER, F!WRITE_DATA

\* The request of a read, of whatever address.
LEMMA ReadAtFits ==
  ASSUME NEW addr
  PROVE  F!RequestFits(F!ReadAt(addr))
<1> DEFINE req == F!ReadAt(addr)
           f == Asked(req)
<1>1. /\ req.type = 4 /\ req.addr = addr /\ req.nonce = F!Zeros(16) /\ req.blk_cnt = 1
      /\ req.result = F!Bytes(0, 2)
      /\ DOMAIN req = {"type", "blk_cnt", "result", "nonce", "addr", "data"}
  BY DEF F!ReadAt, F!READ_DATA
<1> HIDE DEF req
<1>2. /\ f.type = 4 /\ f.addr = addr /\ f.nonce = F!Zeros(16) /\ f.mac = F!Zeros(32)
      /\ f.data = F!Zeros(256) /\ f.wc = F!Bytes(0, 4) /\ f.blk_cnt = 0
      /\ f.result = F!Bytes(0, 2)
  BY <1>1, ClearIs DEF Asked, F!READ_DATA, F!WRITE_DATA
<1> HIDE DEF f
<1>3. Fields512(f)
  BY <1>2, ZerosLong DEF Fields512
<1>4. F!Standard(f) = Layout(f)
  BY <1>3, StandardIs
<1> DEFINE g == F!mmc_rpmb_pre_frame(req)
           a == Addressed(req)
<1>5. Plain(a, 4, addr)
  BY <1>1, AddressedIsPlain
<1>6. Overwritten(g, a, 484, 16, F!Zeros(16))
  <2>1. g = F!memcpy(a, 484, F!Zeros(16))
    BY <1>1, PreFrameIs
  <2>2. Long(a, 512)
    BY <1>5 DEF Plain, PlainByte
  <2> HIDE DEF g, a
  <2> QED BY <2>1, <2>2, ZerosLong, CopiedAt
<1>7. g = Layout(f)
  <2> HIDE DEF g, a
  <2> QED BY <1>2, <1>5, <1>6, NonceFrame
<1>8. F!mmc_rpmb_request_check(req)
  BY <1>1, MustIs DEF F!mmc_rpmb_request_check
<1> QED BY <1>4, <1>7, <1>8 DEF F!RequestFits, f, Asked, req

\* The request for the write counter.
LEMMA CountFits == F!RequestFits(F!Count)
<1> DEFINE req == F!Count
           f == Asked(req)
<1>1. /\ req.type = 2 /\ req.nonce = F!Zeros(16) /\ req.blk_cnt = 0 /\ req.wc = F!Bytes(0, 4)
      /\ req.result = F!Bytes(0, 2)
      /\ DOMAIN req = {"type", "blk_cnt", "result", "wc", "nonce"}
  BY DEF F!Count, F!GET_WRITE_COUNTER
<1> HIDE DEF req
<1>2. /\ f.type = 2 /\ f.addr = 0 /\ f.nonce = F!Zeros(16) /\ f.mac = F!Zeros(32)
      /\ f.data = F!Zeros(256) /\ f.wc = F!Bytes(0, 4) /\ f.blk_cnt = 0
      /\ f.result = F!Bytes(0, 2)
  BY <1>1, ClearIs DEF Asked, F!READ_DATA, F!WRITE_DATA
<1> HIDE DEF f
<1>3. Fields512(f)
  BY <1>2, ZerosLong DEF Fields512
<1>4. F!Standard(f) = Layout(f)
  BY <1>3, StandardIs
<1> DEFINE g == F!mmc_rpmb_pre_frame(req)
           a == Typed(req)
<1>5. Plain(a, 2, 0)
  BY <1>1, TypedIsPlain
<1>6. Overwritten(g, a, 484, 16, F!Zeros(16))
  <2>1. g = F!memcpy(a, 484, F!Zeros(16))
    BY <1>1, PreFrameIs
  <2>2. Long(a, 512)
    BY <1>5 DEF Plain, PlainByte
  <2> HIDE DEF g, a
  <2> QED BY <2>1, <2>2, ZerosLong, CopiedAt
<1>7. g = Layout(f)
  <2> HIDE DEF g, a
  <2> QED BY <1>2, <1>5, <1>6, NonceFrame
<1>8. F!mmc_rpmb_request_check(req)
  BY <1>1, MustIs DEF F!mmc_rpmb_request_check, F!GET_WRITE_COUNTER
<1> QED BY <1>4, <1>7, <1>8 DEF F!RequestFits, f, Asked, req

\* byteswap turns a block around.
LEMMA SwappedBlock ==
  ASSUME NEW buf, Long(buf, 256)
  PROVE  /\ Long(F!byteswap(buf), 256)
         /\ \A i \in 1..256 : F!byteswap(buf)[i] = buf[256 - i + 1]
<1>1. Len(buf) = 256
  <2> DEFINE V == {buf[i] : i \in 1..256}
  <2>1. buf \in [1..256 -> V]
    BY DEF Long
  <2> HIDE DEF V
  <2> QED BY <2>1
<1> QED BY <1>1 DEF Long, F!byteswap

\* The request of a write, of whatever block and counter: its frame is that of the
\* standard, with the counter the high byte first and the block backwards.
LEMMA WriteRequest ==
  ASSUME NEW buf, NEW wc, Long(buf, 256), Long(wc, 4)
  PROVE  LET req == F!WriteOf(buf, wc)
             g == F!mmc_rpmb_pre_frame(req)
         IN /\ F!RequestFits(req)
            /\ F!Standard([f \in DOMAIN F!Clear |->
                             IF f = "nonce" THEN F!Zeros(16) ELSE req[f]]) = g
            /\ Long(g, 512)
            /\ \A i \in 1..4 : g[500 + i] = wc[5 - i]
            /\ \A i \in 1..256 : g[228 + i] = F!byteswap(buf)[i]
<1> DEFINE req == F!WriteOf(buf, wc)
           g == F!mmc_rpmb_pre_frame(req)
           f == Asked(req)
           h == [x \in DOMAIN F!Clear |-> IF x = "nonce" THEN F!Zeros(16) ELSE req[x]]
<1>1. /\ req.type = 3 /\ req.nonce = F!Zeros(16) /\ req.blk_cnt = 1 /\ req.wc = wc
      /\ req.result = F!Bytes(0, 2) /\ req.addr = 0 /\ req.mac = F!Zeros(32)
      /\ req.data = F!byteswap(buf)
      /\ DOMAIN req = {"type", "blk_cnt", "result", "wc", "nonce", "addr", "data", "mac"}
  BY DEF F!WriteOf, F!WRITE_DATA
<1> HIDE DEF req
<1>2. /\ f.type = 3 /\ f.addr = 0 /\ f.nonce = F!Zeros(16) /\ f.mac = F!Zeros(32)
      /\ f.data = F!byteswap(buf) /\ f.wc = wc /\ f.blk_cnt = 1 /\ f.result = F!Bytes(0, 2)
  BY <1>1, ClearIs DEF Asked, F!READ_DATA, F!WRITE_DATA
<1>3. h = f
  <2>1. \A x \in DOMAIN F!Clear : h[x] = f[x]
    BY <1>1, ClearIs DEF Asked, F!READ_DATA, F!WRITE_DATA
  <2>2. h = [x \in DOMAIN F!Clear |-> h[x]] /\ f = [x \in DOMAIN F!Clear |-> f[x]]
    BY DEF Asked
  <2> HIDE DEF h, f
  <2> QED BY <2>1, <2>2
<1> HIDE DEF f, h
<1>4. Fields512(f)
  BY <1>2, ZerosLong, SwappedBlock DEF Fields512
<1>5. F!Standard(f) = Layout(f)
  BY <1>4, StandardIs
<1>6. g = Layout(f)
  <2>1. g = F!memcpy(F!memcpy(Counted(req), 228, req.data), 196, req.mac)
    BY <1>1, PreFrameIs
  <2>2. Long(req.data, 256) /\ Long(req.mac, 32) /\ Long(req.wc, 4)
    BY <1>1, ZerosLong, SwappedBlock
  <2> HIDE DEF g
  <2> QED BY <1>1, <1>2, <2>1, <2>2, WriteFrame
<1>7. F!mmc_rpmb_request_check(req)
  BY <1>1, MustIs DEF F!mmc_rpmb_request_check
<1>8. F!RequestFits(req)
  BY <1>5, <1>6, <1>7 DEF F!RequestFits, f, Asked
<1>9. Long(g, 512)
  BY <1>6 DEF Layout, Long
<1>10. ASSUME NEW i \in 1..4
       PROVE  g[500 + i] = wc[5 - i]
  <2>1. Layout(f)[500 + i] = LaidByte(f, 500 + i)
    BY LayoutIsLong
  <2>2. LaidByte(f, 500 + i) = f.wc[505 - (500 + i)] /\ 505 - (500 + i) = 5 - i
    BY DEF LaidByte
  <2> QED BY <1>2, <1>6, <2>1, <2>2
<1>11. ASSUME NEW i \in 1..256
       PROVE  g[228 + i] = F!byteswap(buf)[i]
  <2>1. Layout(f)[228 + i] = LaidByte(f, 228 + i)
    BY LayoutIsLong
  <2>2. LaidByte(f, 228 + i) = f.data[(228 + i) - 228] /\ (228 + i) - 228 = i
    BY DEF LaidByte
  <2> QED BY <1>2, <1>6, <2>1, <2>2
<1> QED BY <1>3, <1>5, <1>6, <1>8, <1>9, <1>10, <1>11 DEF h, req

\* The elements of a subsequence.
LEMMA PartAt ==
  ASSUME NEW m \in Nat, NEW g, Long(g, m), NEW b \in 1..m, NEW e \in 0..m, NEW n \in Nat \ {0},
         e - b + 1 = n
  PROVE  Long(SubSeq(g, b, e), n) /\ \A i \in 1..n : SubSeq(g, b, e)[i] = g[b + i - 1]
<1> DEFINE V == {g[i] : i \in 1..m}
<1>1. g \in [1..m -> V]
  BY DEF Long
<1> HIDE DEF V
<1>2. g \in Seq(V) /\ Len(g) = m
  BY <1>1
<1>3. SubSeq(g, b, e) \in Seq(V) /\ Len(SubSeq(g, b, e)) = n
  BY <1>2
<1>4. \A i \in 1..n : SubSeq(g, b, e)[i] = g[b + i - 1]
  BY <1>2
<1>5. Long(SubSeq(g, b, e), n)
  BY <1>3 DEF Long
<1> QED BY <1>4, <1>5

\* h is the n elements of g behind at.
Taken(h, g, at, n) == Long(h, n) /\ \A i \in 1..n : h[i] = g[at + i]

\* The bytes of a field of a frame.
LEMMA FieldAt ==
  ASSUME NEW g, Long(g, 512), NEW at \in Nat, NEW n \in Nat \ {0}, at + n <= 512
  PROVE  Taken(F!Field(g, at, n), g, at, n)
<1> DEFINE b == at + 1
           e == at + n
           h == SubSeq(g, b, e)
<1>1. b \in 1..512 /\ e \in 0..512 /\ e - b + 1 = n
  OBVIOUS
<1>2. \A i \in 1..n : b + i - 1 = at + i
  OBVIOUS
<1>3. F!Field(g, at, n) = h
  BY DEF F!Field
<1> HIDE DEF b, e
<1>4. Long(h, n) /\ \A i \in 1..n : h[i] = g[b + i - 1]
  BY <1>1, PartAt
<1> HIDE DEF h
<1> QED BY <1>2, <1>3, <1>4 DEF Taken

\* Sequences of one length with the same elements are the same.
LEMMA Same ==
  ASSUME NEW n, NEW s, NEW t, Long(s, n), Long(t, n), \A i \in 1..n : s[i] = t[i]
  PROVE  s = t
<1>1. [i \in 1..n |-> s[i]] = [i \in 1..n |-> t[i]]
  OBVIOUS
<1> QED BY <1>1, Zenon DEF Long

\* The frame that asks for the result of a write.
LEMMA ResultRequestIs == F!ResultRequest = F!Standard([F!Clear EXCEPT !.type = F!RESULT_READ])
<1> DEFINE f == [F!Clear EXCEPT !.type = F!RESULT_READ]
           L == Layout(f)
           g == F!ResultRequest
           z == F!Zeros(512)
<1>1. /\ f.type = 5 /\ f.addr = 0 /\ f.nonce = F!Zeros(16) /\ f.mac = F!Zeros(32)
      /\ f.data = F!Zeros(256) /\ f.wc = F!Bytes(0, 4) /\ f.blk_cnt = 0
      /\ f.result = F!Bytes(0, 2)
  BY DEF F!Clear, F!RESULT_READ
<1> HIDE DEF f
<1>2. Fields512(f)
  BY <1>1, ZerosLong DEF Fields512
<1>3. F!Standard(f) = L
  BY <1>2, StandardIs
<1>4. Long(z, 512) /\ \A i \in 1..512 : z[i] = 0
  BY BytesAre
<1> DEFINE b == <<5>>
<1>5. Long(b, 1) /\ b[1] = 5
  BY DEF Long
<1>6. g = F!memcpy(z, 511, b)
  BY DEF F!ResultRequest, F!TYPE_BEG, F!RESULT_READ
<1> HIDE DEF z, b, g
<1>7. Overwritten(g, z, 511, 1, b)
  BY <1>4, <1>5, <1>6, CopiedAt
<1>8. F!Bytes(5, 2) = <<5, 0>>
  BY DEF F!Bytes
<1> DEFINE t == Typed([type |-> 5])
<1>9. Plain(t, 5, 0)
  BY TypedIsPlain
<1>10. Overwritten(F!memcpy(t, 484, F!Zeros(16)), t, 484, 16, F!Zeros(16))
  <2>1. Long(t, 512)
    BY <1>9 DEF Plain, PlainByte
  <2> HIDE DEF t
  <2> QED BY <2>1, ZerosLong, CopiedAt
<1> DEFINE u == F!memcpy(t, 484, F!Zeros(16))
<1>11. u = L
  <2> HIDE DEF t
  <2>1. Overwritten(u, t, 484, 16, F!Zeros(16))
    BY <1>10
  <2> HIDE DEF u
  <2> QED BY <1>1, <1>9, <2>1, NonceFrame
<1>12. \A i \in 1..512 : t[i] = IF 510 < i THEN F!Bytes(5, 2)[513 - i] ELSE 0
  <2> DEFINE q == [type |-> 5]
  <2>1. q.type = 5
    OBVIOUS
  <2> HIDE DEF q
  <2>2. \A i \in 1..512 : Typed(q)[i] = IF 510 < i THEN F!Bytes(q.type, 2)[513 - i] ELSE 0
    BY TypedAt
  <2>3. \A i \in 1..512 : Typed(q)[i] = IF 510 < i THEN F!Bytes(5, 2)[513 - i] ELSE 0
    BY <2>1, <2>2
  <2> QED BY <2>3 DEF q
<1>13. Overwritten(u, t, 484, 16, F!Zeros(16))
  BY <1>10
<1> HIDE DEF t, u
<1>14. ASSUME NEW i \in 1..512
       PROVE  g[i] = u[i]
  <2>1. CASE 484 < i /\ i <= 500
    <3>1. u[i] = F!Zeros(16)[i - 484] /\ i - 484 \in 1..16
      BY <1>13, <2>1 DEF Overwritten, WrittenByte
    <3>2. g[i] = 0
      BY <1>4, <1>7, <2>1 DEF Overwritten, WrittenByte
    <3> QED BY <3>1, <3>2, ClearFields
  <2>2. CASE i <= 484 \/ (500 < i /\ i <= 510)
    <3>1. u[i] = t[i]
      BY <1>13, <2>2 DEF Overwritten, WrittenByte
    <3>2. g[i] = 0
      <4>1. WrittenByte(g, z, 511, 1, b, i) /\ z[i] = 0
        BY <1>4, <1>7 DEF Overwritten
      <4> QED BY <2>2, <4>1 DEF WrittenByte
    <3> QED BY <1>12, <2>2, <3>1, <3>2
  <2>3. CASE i = 511
    <3>1. u[i] = t[i]
      BY <1>13, <2>3 DEF Overwritten, WrittenByte
    <3>2. g[i] = 0
      BY <1>4, <1>7, <2>3 DEF Overwritten, WrittenByte
    <3> QED BY <1>8, <1>12, <2>3, <3>1, <3>2
  <2>4. CASE i = 512
    <3>1. u[i] = t[i]
      BY <1>13, <2>4 DEF Overwritten, WrittenByte
    <3>2. g[i] = b[1]
      BY <1>7, <2>4 DEF Overwritten, WrittenByte
    <3> QED BY <1>5, <1>8, <1>12, <2>4, <3>1, <3>2
  <2> QED BY <2>1, <2>2, <2>3, <2>4
<1>15. g = u
  <2>1. Agree(g, u)
    BY <1>14 DEF Agree
  <2>2. Long(g, 512) /\ Long(u, 512)
    BY <1>7, <1>13 DEF Overwritten, WrittenByte
  <2> QED BY <2>1, <2>2, SameFrame
<1> QED BY <1>3, <1>11, <1>15 DEF f, g

\* t is s backwards.
Mirrors(t, s, n) == Long(t, n) /\ \A i \in 1..n : t[i] = s[n + 1 - i]

\* Reverse turns a sequence around.
LEMMA Mirrored ==
  ASSUME NEW n \in Nat, NEW s, Long(s, n)
  PROVE  Mirrors(F!Reverse(s), s, n)
BY ReversedAt DEF Mirrors

\* The fields of a frame of the standard that the request of a call takes.
LEMMA FieldsAre ==
  ASSUME NEW f, Fields512(f)
  PROVE  LET g == F!Standard(f)
         IN /\ F!Swapped(F!Field(g, 500, 4)) = f.wc
            /\ F!Field(g, 228, 256) = f.data
            /\ F!Swapped(F!Field(g, 508, 2)) = f.result
<1> DEFINE g == Layout(f)
<1>1. F!Standard(f) = g
  BY StandardIs
<1>2. Long(g, 512)
  BY Zenon, LayoutIsLong
<1>3. Long(f.wc, 4) /\ Long(f.data, 256) /\ Long(f.result, 2)
  BY DEF Fields512
<1> DEFINE w == F!Field(g, 500, 4)
           d == F!Field(g, 228, 256)
           r == F!Field(g, 508, 2)
<1>4. ASSUME NEW i \in 1..4
      PROVE  g[500 + i] = f.wc[5 - i]
  <2>1. g[500 + i] = LaidByte(f, 500 + i)
    BY LayoutIsLong
  <2>2. LaidByte(f, 500 + i) = f.wc[5 - i]
    BY DEF LaidByte
  <2> QED BY <2>1, <2>2
<1>5. ASSUME NEW i \in 1..256
      PROVE  g[228 + i] = f.data[i]
  <2>1. g[228 + i] = LaidByte(f, 228 + i)
    BY LayoutIsLong
  <2>2. LaidByte(f, 228 + i) = f.data[i]
    BY DEF LaidByte
  <2> QED BY <2>1, <2>2
<1>6. ASSUME NEW i \in 1..2
      PROVE  g[508 + i] = f.result[3 - i]
  <2>1. g[508 + i] = LaidByte(f, 508 + i)
    BY LayoutIsLong
  <2>2. LaidByte(f, 508 + i) = f.result[3 - i]
    BY DEF LaidByte
  <2> QED BY <2>1, <2>2
<1> HIDE DEF g
<1>7. /\ Long(w, 4) /\ \A i \in 1..4 : w[i] = g[500 + i]
      /\ Long(d, 256) /\ \A i \in 1..256 : d[i] = g[228 + i]
      /\ Long(r, 2) /\ \A i \in 1..2 : r[i] = g[508 + i]
  <2>1. Taken(w, g, 500, 4)
    BY <1>2, FieldAt
  <2>2. Taken(d, g, 228, 256)
    BY <1>2, FieldAt
  <2>3. Taken(r, g, 508, 2)
    BY <1>2, FieldAt
  <2> QED BY <2>1, <2>2, <2>3 DEF Taken
<1> HIDE DEF w, d, r
<1>8. d = f.data
  <2>1. ASSUME NEW i \in 1..256
        PROVE  d[i] = f.data[i]
    BY <1>5, <1>7
  <2>2. Long(d, 256) /\ Long(f.data, 256)
    BY <1>3, <1>7
  <2> QED BY <2>1, <2>2, Same
<1>9. F!Swapped(w) = f.wc
  <2>1. Mirrors(F!Reverse(w), w, 4)
    BY <1>7, Mirrored
  <2> DEFINE s == F!Reverse(w)
  <2> HIDE DEF s
  <2>2. \A i \in 1..4 : 4 + 1 - i \in 1..4 /\ 5 - (4 + 1 - i) = i
    OBVIOUS
  <2>3. \A i \in 1..4 : s[i] = f.wc[i]
    BY <1>4, <1>7, <2>1, <2>2 DEF s, Mirrors
  <2>4. s = f.wc
    BY <1>3, <2>1, <2>3, Same DEF s, Mirrors
  <2> QED BY <2>4 DEF s, F!Swapped
<1>10. F!Swapped(r) = f.result
  <2>1. Mirrors(F!Reverse(r), r, 2)
    BY <1>7, Mirrored
  <2> DEFINE s == F!Reverse(r)
  <2> HIDE DEF s
  <2>2. \A i \in 1..2 : 2 + 1 - i \in 1..2 /\ 3 - (2 + 1 - i) = i
    OBVIOUS
  <2>3. \A i \in 1..2 : s[i] = f.result[i]
    BY <1>6, <1>7, <2>1, <2>2 DEF s, Mirrors
  <2>4. s = f.result
    BY <1>3, <2>1, <2>3, Same DEF s, Mirrors
  <2> QED BY <2>4 DEF s, F!Swapped
<1> QED BY <1>1, <1>8, <1>9, <1>10 DEF w, d, r

\* What a write request, its frame and the answers to it are made of in WriteFits.
Answer(wc) == [F!Clear EXCEPT !.type = 512, !.wc = wc]
CountOf(wc) == F!mmc_rpmb_post_frame(F!Count, F!Standard(Answer(wc))).wc
Framed(req, secret) == F!rpmb_calc_mac(F!mmc_rpmb_pre_frame(req), secret)
Back(frame) == [F!Clear EXCEPT !.type = 1024, !.data = F!Field(frame, 228, 256)]
Reported(result) == [F!Clear EXCEPT !.type = 768, !.result = result]
Whole(req) == [f \in DOMAIN F!Clear |-> IF f = "nonce" THEN F!Zeros(16) ELSE req[f]]

\* WriteFits once the counter has come back.
Fits(buf, wc, secret, result, req) ==
  /\ F!RequestFits(req)
  /\ F!Field(Framed(req, secret), 500, 4) = F!Reverse(wc)
  /\ F!Field(Framed(req, secret), 196, 32)
       = F!hmac_sha256(SubSeq(F!Standard(Whole(req)), 229, 512), secret)
  /\ F!ResultRequest = F!Standard([F!Clear EXCEPT !.type = F!RESULT_READ])
  /\ F!byteswap(F!mmc_rpmb_post_frame(F!ReadAt(0),
                                       F!Standard(Back(Framed(req, secret)))).data) = buf
  /\ F!mmc_rpmb_post_frame(req, F!Standard(Reported(result))).result = result

\* WriteFits in these names.
LEMMA WriteFitsIs ==
  ASSUME NEW buf, NEW wc, NEW secret, NEW result
  PROVE  F!WriteFits(buf, wc, secret, result) <=>
           CountOf(wc) = wc /\ Fits(buf, wc, secret, result, F!WriteOf(buf, CountOf(wc)))
BY DEF F!WriteFits, Fits, CountOf, Answer, Framed, Back, Reported, Whole, F!WCOUNTER_BEG,
             F!MAC_BEG, F!DATA_BEG

\* For every block, counter, secret and result one exchange with the card is right: the
\* counter comes back, the frame of the write is that of the standard and its MAC covers
\* what the standard says, the result is asked for and comes back, and what is read is
\* the block that was written.
THEOREM WritesFit ==
  ASSUME NEW buf, Long(buf, 256), NEW wc, Long(wc, 4), NEW secret, NEW result, Long(result, 2)
  PROVE  F!WriteFits(buf, wc, secret, result)
<1> DEFINE answer == Answer(wc)
           counted == F!mmc_rpmb_post_frame(F!Count, F!Standard(answer))
           req == F!WriteOf(buf, wc)
           g == F!mmc_rpmb_pre_frame(req)
           frame == Framed(req, secret)
           back == Back(frame)
           told == Reported(result)
           whole == Whole(req)
           mac == F!hmac_sha256(F!Field(g, 228, 284), secret)
<1>1. counted.wc = wc
  <2>1. answer.wc = wc /\ Fields512(answer)
    <3>1. /\ answer.wc = wc /\ answer.mac = F!Zeros(32) /\ answer.data = F!Zeros(256)
          /\ answer.nonce = F!Zeros(16) /\ answer.result = F!Bytes(0, 2)
      BY DEF F!Clear, Answer
    <3> HIDE DEF answer
    <3> QED BY <3>1, ZerosLong DEF Fields512
  <2> HIDE DEF answer
  <2> DEFINE s == F!Standard(answer)
  <2>2. F!Swapped(F!Field(s, 500, 4)) = wc
    BY <2>1, FieldsAre
  <2> HIDE DEF s
  <2>3. F!mmc_rpmb_post_frame(F!Count, s).wc = F!Swapped(F!Field(s, 500, 4))
    BY DEF F!mmc_rpmb_post_frame, F!Count, F!GET_WRITE_COUNTER, F!READ_DATA, F!WCOUNTER_BEG
  <2> QED BY <2>2, <2>3 DEF s
<1>2. /\ F!RequestFits(req) /\ F!Standard(whole) = g /\ Long(g, 512)
      /\ \A i \in 1..4 : g[500 + i] = wc[5 - i]
      /\ \A i \in 1..256 : g[228 + i] = F!byteswap(buf)[i]
  BY WriteRequest DEF Whole
<1> HIDE DEF counted, answer, whole, req, g, told
<1>3. Overwritten(frame, g, 196, 32, mac) /\ Long(mac, 32)
  <2>1. Long(mac, 32)
    BY DEF F!hmac_sha256, Long
  <2>2. frame = F!memcpy(g, 196, mac)
    BY DEF F!rpmb_calc_mac, F!MAC_BEG, F!DATA_BEG, Framed, g
  <2> HIDE DEF mac, frame
  <2>3. Long(g, 512)
    BY <1>2
  <2>4. Overwritten(F!memcpy(g, 196, mac), g, 196, 32, mac)
    BY <2>1, <2>3, CopiedAt
  <2> QED BY <2>1, <2>2, <2>4
<1> HIDE DEF frame
<1>4. Long(frame, 512) /\ \A i \in 1..512 : 228 < i => frame[i] = g[i]
  <2>1. Long(frame, 512) /\ \A i \in 1..512 : WrittenByte(frame, g, 196, 32, mac, i)
    BY <1>3 DEF Overwritten
  <2>2. ASSUME NEW i \in 1..512, 228 < i
        PROVE  frame[i] = g[i]
    <3>1. WrittenByte(frame, g, 196, 32, mac, i)
      BY <2>1
    <3> QED BY <2>2, <3>1 DEF WrittenByte
  <2> QED BY <2>1, <2>2
<1>5. F!Field(frame, 500, 4) = F!Reverse(wc)
  <2> DEFINE w == F!Field(frame, 500, 4)
             s == F!Reverse(wc)
  <2>1. Taken(w, frame, 500, 4)
    BY <1>4, FieldAt
  <2>2. Mirrors(s, wc, 4)
    BY Mirrored
  <2> HIDE DEF w, s
  <2>3. ASSUME NEW i \in 1..4
        PROVE  w[i] = s[i]
    <3>1. frame[500 + i] = g[500 + i]
      BY <1>4
    <3>2. 4 + 1 - i = 5 - i
      OBVIOUS
    <3> QED BY <1>2, <2>1, <2>2, <3>1, <3>2 DEF Taken, Mirrors
  <2>4. w = s
    BY <2>1, <2>2, <2>3, Same DEF Taken, Mirrors
  <2> QED BY <2>4 DEF w, s
<1>6. F!Field(frame, 196, 32) = F!hmac_sha256(SubSeq(F!Standard(whole), 229, 512), secret)
  <2> DEFINE w == F!Field(frame, 196, 32)
  <2>1. Taken(w, frame, 196, 32)
    BY <1>4, FieldAt
  <2> HIDE DEF w, mac
  <2>2. ASSUME NEW i \in 1..32
        PROVE  w[i] = mac[i]
    <3>1. frame[196 + i] = mac[196 + i - 196] /\ 196 + i - 196 = i
      BY <1>3 DEF Overwritten, WrittenByte
    <3> QED BY <2>1, <3>1 DEF Taken
  <2>3. w = mac
    BY <1>3, <2>1, <2>2, Same DEF Taken
  <2>4. F!Field(g, 228, 284) = SubSeq(g, 229, 512)
    BY DEF F!Field
  <2> QED BY <1>2, <2>3, <2>4 DEF w, mac
<1>7. F!Field(frame, 228, 256) = F!byteswap(buf)
  <2> DEFINE w == F!Field(frame, 228, 256)
             s == F!byteswap(buf)
  <2>1. Taken(w, frame, 228, 256)
    BY <1>4, FieldAt
  <2>2. Long(s, 256)
    BY SwappedBlock
  <2>3. \A i \in 1..256 : g[228 + i] = s[i]
    BY <1>2
  <2> HIDE DEF w, s
  <2>4. ASSUME NEW i \in 1..256
        PROVE  w[i] = s[i]
    <3>1. frame[228 + i] = g[228 + i]
      BY <1>4
    <3> QED BY <2>1, <2>3, <3>1 DEF Taken
  <2>5. w = s
    BY <2>1, <2>2, <2>4, Same DEF Taken
  <2> QED BY <2>5 DEF w, s
<1>8. F!byteswap(F!mmc_rpmb_post_frame(F!ReadAt(0), F!Standard(back)).data) = buf
  <2> DEFINE swapped == F!byteswap(buf)
  <2>1. Long(swapped, 256) /\ \A i \in 1..256 : swapped[i] = buf[256 - i + 1]
    BY SwappedBlock
  <2> HIDE DEF swapped
  <2>2. back.data = swapped /\ Fields512(back)
    <3>1. /\ back.data = swapped /\ back.mac = F!Zeros(32) /\ back.wc = F!Bytes(0, 4)
          /\ back.nonce = F!Zeros(16) /\ back.result = F!Bytes(0, 2)
      BY <1>7 DEF F!Clear, swapped, Back
    <3> HIDE DEF back
    <3> QED BY <2>1, <3>1, ZerosLong DEF Fields512
  <2> HIDE DEF back
  <2> DEFINE s == F!Standard(back)
  <2>3. F!Field(s, 228, 256) = swapped
    BY <2>2, FieldsAre
  <2> HIDE DEF s
  <2>4. F!mmc_rpmb_post_frame(F!ReadAt(0), s).data = F!Field(s, 228, 256)
    BY DEF F!mmc_rpmb_post_frame, F!ReadAt, F!GET_WRITE_COUNTER, F!READ_DATA, F!DATA_BEG
  <2>5. Long(F!byteswap(swapped), 256)
        /\ \A i \in 1..256 : F!byteswap(swapped)[i] = swapped[256 - i + 1]
    BY ZenonT(30), <2>1, SwappedBlock
  <2>6. F!byteswap(swapped) = buf
    <3> DEFINE t == F!byteswap(swapped)
    <3> HIDE DEF t
    <3>1. \A i \in 1..256 : 256 - i + 1 \in 1..256 /\ 256 - (256 - i + 1) + 1 = i
      OBVIOUS
    <3>2. \A i \in 1..256 : t[i] = buf[i]
      BY <2>1, <2>5, <3>1 DEF t
    <3>3. t = buf
      BY <2>5, <3>2, Same DEF t
    <3> QED BY <3>3 DEF t
  <2> QED BY <2>3, <2>4, <2>6 DEF s
<1>9. F!mmc_rpmb_post_frame(req, F!Standard(told)).result = result
  <2>1. told.result = result /\ Fields512(told)
    <3>1. /\ told.result = result /\ told.mac = F!Zeros(32) /\ told.data = F!Zeros(256)
          /\ told.nonce = F!Zeros(16) /\ told.wc = F!Bytes(0, 4)
      BY DEF F!Clear, told, Reported
    <3> QED BY <3>1, ZerosLong DEF Fields512
  <2> DEFINE s == F!Standard(told)
  <2>2. F!Swapped(F!Field(s, 508, 2)) = result
    BY <2>1, FieldsAre
  <2> HIDE DEF s
  <2>3. F!mmc_rpmb_post_frame(req, s).result = F!Swapped(F!Field(s, 508, 2))
    BY DEF F!mmc_rpmb_post_frame, F!WriteOf, req, F!RES_BEG
  <2> QED BY <2>2, <2>3 DEF s
<1>10. CountOf(wc) = wc
  BY <1>1 DEF CountOf, counted, answer
<1>11. Fits(buf, wc, secret, result, req)
  BY <1>2, <1>5, <1>6, <1>8, <1>9, ResultRequestIs DEF Fits, frame, back, told, whole
<1> QED BY <1>10, <1>11, WriteFitsIs DEF req

\* The counters of the behaviours have four bytes.
LEMMA FramesOf ==
  ASSUME NEW c \in FrameWrites
  PROVE  c.kind = "rpmb write" /\ Long(c.wc, 4)
<1>1. c.kind = "rpmb write" /\ c.wc \in Counters
  BY DEF FrameWrites
<1>2. \A n : Long(F!Bytes(n, 4), 4)
  BY BytesAre
<1>3. Long(<<255, 255, 255, 255>>, 4)
  BY DEF Long
<1>4. \A w \in Counters : Long(w, 4)
  BY <1>2, <1>3 DEF Counters
<1> QED BY <1>1, <1>4

\* So are the frames of every call of a behaviour of MCLibrary.
THEOREM FramesRight == MCSpec => []FramesAreRight
<1>1. input \in Calls \cup {[kind |-> "none"]} => FramesAreRight
  <2> SUFFICES ASSUME input \in Calls \cup {[kind |-> "none"]} PROVE FramesAreRight
    OBVIOUS
  <2>1. input.kind = "rpmb write" => Long(input.wc, 4)
    BY CallsAre, FramesOf
  <2> DEFINE buf == [i \in 1..256 |-> (input.first + i) % 256]
             result == F!Bytes(input.result, 2)
  <2>2. Long(buf, 256)
    BY DEF Long
  <2>3. Long(result, 2)
    BY BytesAre
  <2>4. F!RequestFits(F!ReadAt(input.addr)) /\ F!RequestFits(F!Count)
    BY ReadAtFits, CountFits
  <2>5. ASSUME input.kind = "rpmb write"
        PROVE  F!WriteFits(buf, input.wc, input.key, result)
    <3> HIDE DEF buf, result
    <3> QED BY <2>1, <2>2, <2>3, <2>5, WritesFit
  <2> QED BY <2>4, <2>5 DEF FramesAreRight
<1> QED BY <1>1, InputStays, PTL

-----------------------------------------------------------------------------
(* Loops and recursions: a function that is defined by a step exists       *)

\* f goes from x to Step[x] until it stops, where it is V.
Loops(f, X, Stop, V, Step) == f = [x \in X |-> IF x \in Stop THEN V[x] ELSE f[Step[x]]]

\* The n steps of w lead to the first stop.
Path(w, n, X, Stop, Step) ==
  /\ w \in [0..n -> X]
  /\ w[n] \in Stop
  /\ \A k \in 0..(n - 1) : w[k] \notin Stop /\ w[k + 1] = Step[w[k]]

\* Where the steps from x lead.
LoopEnds(x, X, Stop, Step) ==
  {e \in Stop : \E n \in Nat : \E w : Path(w, n, X, Stop, Step) /\ w[0] = x /\ w[n] = e}

\* A turn of a loop that does not stop leaves its ends as they are.
LEMMA SameEnds ==
  ASSUME NEW X, NEW Stop \in SUBSET X, NEW Step \in [X -> X], NEW x \in X, x \notin Stop
  PROVE  LoopEnds(x, X, Stop, Step) = LoopEnds(Step[x], X, Stop, Step)
<1> DEFINE y == Step[x]
<1>1. y \in X
  OBVIOUS
<1>2. ASSUME NEW e \in LoopEnds(x, X, Stop, Step)
      PROVE  e \in LoopEnds(y, X, Stop, Step)
  <2>1. PICK n \in Nat : \E w : Path(w, n, X, Stop, Step) /\ w[0] = x /\ w[n] = e
    BY <1>2 DEF LoopEnds
  <2>2. PICK w : Path(w, n, X, Stop, Step) /\ w[0] = x /\ w[n] = e
    BY <2>1
  <2>3. e \in Stop
    BY <1>2 DEF LoopEnds
  <2>4. n # 0
    BY <2>2, <2>3
  <2>5. n - 1 \in Nat /\ 0 \in 0..(n - 1)
    BY <2>4
  <2> DEFINE m == n - 1
             q == [k \in 0..m |-> w[k + 1]]
  <2>6. q \in [0..m -> X]
    BY <2>2, <2>5 DEF Path
  <2>7. q[0] = y
    BY <2>2, <2>5 DEF Path
  <2>8. q[m] = e
    BY <2>2, <2>5
  <2>9. ASSUME NEW k \in 0..(m - 1)
        PROVE  q[k] \notin Stop /\ q[k + 1] = Step[q[k]]
    <3>1. k + 1 \in 0..(n - 1) /\ k \in 0..m /\ k + 1 \in 0..m
      BY <2>5
    <3>2. w[k + 1] \notin Stop /\ w[(k + 1) + 1] = Step[w[k + 1]]
      BY <2>2, <3>1 DEF Path
    <3> QED BY <3>1, <3>2
  <2> HIDE DEF q
  <2>10. Path(q, m, X, Stop, Step)
    BY <2>3, <2>6, <2>8, <2>9 DEF Path
  <2> HIDE DEF m
  <2>11. m \in Nat
    BY <2>5 DEF m
  <2> QED BY <2>3, <2>7, <2>8, <2>10, <2>11 DEF LoopEnds
<1>3. ASSUME NEW e \in LoopEnds(y, X, Stop, Step)
      PROVE  e \in LoopEnds(x, X, Stop, Step)
  <2>1. PICK n \in Nat : \E w : Path(w, n, X, Stop, Step) /\ w[0] = y /\ w[n] = e
    BY <1>3 DEF LoopEnds
  <2>2. PICK w : Path(w, n, X, Stop, Step) /\ w[0] = y /\ w[n] = e
    BY <2>1
  <2>3. e \in Stop
    BY <1>3 DEF LoopEnds
  <2> DEFINE m == n + 1
             q == [k \in 0..m |-> IF k = 0 THEN x ELSE w[k - 1]]
  <2>4. m \in Nat
    OBVIOUS
  <2>5. q \in [0..m -> X]
    BY <2>2 DEF Path
  <2>6. q[0] = x /\ q[m] = e
    BY <2>2
  <2>7. ASSUME NEW k \in 0..(m - 1)
        PROVE  q[k] \notin Stop /\ q[k + 1] = Step[q[k]]
    <3>1. q[k + 1] = w[k]
      OBVIOUS
    <3>2. CASE k = 0
      BY <2>2, <3>1, <3>2
    <3>3. CASE k # 0
      <4>1. k - 1 \in 0..(n - 1) /\ (k - 1) + 1 = k
        BY <3>3
      <4>2. w[k - 1] \notin Stop /\ w[k] = Step[w[k - 1]]
        BY <2>2, <4>1 DEF Path
      <4>3. q[k] = w[k - 1]
        BY <3>3
      <4> QED BY <3>1, <4>2, <4>3
    <3> QED BY <3>2, <3>3
  <2> HIDE DEF q, m
  <2>8. Path(q, m, X, Stop, Step)
    BY <2>3, <2>5, <2>6, <2>7 DEF Path
  <2> QED BY <2>3, <2>4, <2>6, <2>8 DEF LoopEnds
<1> QED BY <1>2, <1>3 DEF LoopEnds

\* A loop that stops at once ends where it began.
LEMMA StopEnds ==
  ASSUME NEW X, NEW Stop \in SUBSET X, NEW Step \in [X -> X], NEW x \in Stop
  PROVE  LoopEnds(x, X, Stop, Step) = {x}
<1>1. x \in LoopEnds(x, X, Stop, Step)
  <2> DEFINE q == [k \in 0..0 |-> x]
  <2>1. Path(q, 0, X, Stop, Step) /\ q[0] = x
    BY DEF Path
  <2> HIDE DEF q
  <2> QED BY <2>1 DEF LoopEnds
<1>2. ASSUME NEW e \in LoopEnds(x, X, Stop, Step)
      PROVE  e = x
  <2>1. PICK n \in Nat : \E w : Path(w, n, X, Stop, Step) /\ w[0] = x /\ w[n] = e
    BY <1>2 DEF LoopEnds
  <2>2. PICK w : Path(w, n, X, Stop, Step) /\ w[0] = x /\ w[n] = e
    BY <2>1
  <2>3. CASE n = 0
    BY <2>2, <2>3
  <2>4. CASE n # 0
    <3>1. 0 \in 0..(n - 1)
      BY <2>4
    <3> QED BY <2>2, <3>1 DEF Path
  <2> QED BY <2>3, <2>4
<1> QED BY <1>1, <1>2

\* Every loop is a function.
LEMMA LoopExists ==
  ASSUME NEW X, NEW Stop \in SUBSET X, NEW V, NEW Step \in [X -> X]
  PROVE  \E f : Loops(f, X, Stop, V, Step)
<1> DEFINE ends(x) == LoopEnds(x, X, Stop, Step)
           g(E) == IF E = {} THEN 0 ELSE V[CHOOSE e \in E : TRUE]
           f == [x \in X |-> g(ends(x))]
<1>1. ASSUME NEW x \in X
      PROVE  f[x] = IF x \in Stop THEN V[x] ELSE f[Step[x]]
  <2>1. CASE x \in Stop
    <3>1. ends(x) = {x}
      BY <2>1, StopEnds
    <3>2. g({x}) = V[x]
      OBVIOUS
    <3> HIDE DEF g, ends
    <3>3. f[x] = V[x]
      BY <3>1, <3>2
    <3> QED BY <2>1, <3>3
  <2>2. CASE x \notin Stop
    <3>1. ends(x) = ends(Step[x])
      BY <2>2, SameEnds
    <3>2. Step[x] \in X
      OBVIOUS
    <3> HIDE DEF g, ends
    <3>3. f[x] = f[Step[x]]
      BY <3>1, <3>2
    <3> QED BY <2>2, <3>3
  <2> QED BY <2>1, <2>2
<1>2. f = [x \in X |-> f[x]]
  OBVIOUS
<1> HIDE DEF f
<1>3. f = [x \in X |-> IF x \in Stop THEN V[x] ELSE f[Step[x]]]
  BY <1>1, <1>2
<1> QED BY <1>3 DEF Loops

\* It is V of the end of the path from x.
LEMMA LoopIs ==
  ASSUME NEW X, NEW Stop, NEW V, NEW Step, NEW f, Loops(f, X, Stop, V, Step),
         NEW n \in Nat, NEW w, Path(w, n, X, Stop, Step)
  PROVE  f[w[0]] = V[w[n]]
<1>1. \A x \in X : f[x] = IF x \in Stop THEN V[x] ELSE f[Step[x]]
  BY DEF Loops
<1>2. \A k \in 0..n : w[k] \in X
  BY DEF Path
<1>3. \A k \in 0..(n - 1) : w[k] \notin Stop /\ w[k + 1] = Step[w[k]]
  BY DEF Path
<1>4. w[n] \in Stop
  BY DEF Path
<1>5. f[w[n]] = V[w[n]]
  BY <1>1, <1>2, <1>4
<1> DEFINE T == {k \in Nat : k <= n /\ f[w[k]] # f[w[0]]}
<1>6. ASSUME NEW t \in T
      PROVE  FALSE
  <2>1. PICK j \in T : \A i \in T : j <= i
    BY <1>6, LeastElement
  <2>2. j # 0 /\ j \in Nat /\ j <= n
    BY <2>1
  <2>3. j - 1 \in Nat /\ j - 1 \in 0..(n - 1) /\ j - 1 \notin T /\ (j - 1) + 1 = j
    BY <2>1, <2>2
  <2>4. f[w[j - 1]] = f[w[0]]
    BY <2>3
  <2>5. w[j] = Step[w[j - 1]] /\ w[j - 1] \notin Stop /\ w[j - 1] \in X
    BY <1>2, <1>3, <2>3
  <2>6. f[w[j - 1]] = f[w[j]]
    BY <1>1, <2>5
  <2> QED BY <2>1, <2>4, <2>6
<1>7. f[w[n]] = f[w[0]]
  BY <1>6
<1> QED BY <1>5, <1>7

-----------------------------------------------------------------------------
(* What 0x4000 writes                                                      *)

\* The sequence t of n sequences of four elements, one after the other, is the
\* beginning of s.
Fours(t, n, s) == \A i \in 1..n : Long(t[i], 4) /\ Follows(t[i], 4, s, 4 * (i - 1))

\* What FlattenSeq looks for: f[i] is the first i sequences of t.
Flattens(f, t) == f = [i \in 1..Len(t) |-> IF i = 1 THEN t[i] ELSE f[i - 1] \o t[i]]

\* s up to the i-th four.
Upto(s, i) == [j \in 1..(4 * i) |-> s[j]]

\* The bytes of the first dword are the first four.
LEMMA FirstFour ==
  ASSUME NEW n \in Nat, NEW t, NEW s, Fours(t, n, s), n >= 1
  PROVE  t[1] = Upto(s, 1)
<1>1. Long(t[1], 4) /\ Follows(t[1], 4, s, 0)
  BY DEF Fours
<1>2. \A j \in 1..4 : t[1][j] = s[j]
  BY <1>1 DEF Follows
<1>3. Long(Upto(s, 1), 4) /\ \A j \in 1..4 : Upto(s, 1)[j] = s[j]
  BY DEF Long, Upto
<1> QED BY <1>1, <1>2, <1>3, Same

\* Every further dword is joined to those before it.
LEMMA NextFour ==
  ASSUME NEW n \in Nat, NEW t, NEW s, Fours(t, n, s), NEW i \in 2..n
  PROVE  Joins(Upto(s, i), Upto(s, i - 1), t[i])
<1> DEFINE u == Upto(s, i - 1) \o t[i]
           m == 4 * (i - 1)
<1>1. Joins(u, Upto(s, i - 1), t[i])
  BY DEF Joins
<1>2. m \in Nat /\ m + 4 = 4 * i
  OBVIOUS
<1>3. Begins(Upto(s, i - 1), m, s)
  BY DEF Begins, Upto
<1>4. Long(t[i], 4) /\ Follows(t[i], 4, s, m)
  BY DEF Fours
<1> HIDE DEF u, m
<1>5. Begins(u, m + 4, s)
  BY <1>1, <1>2, <1>3, <1>4, Extended
<1>6. Begins(u, 4 * i, s)
  BY <1>2, <1>5
<1>7. u = Upto(s, i)
  BY <1>6 DEF Begins, Upto
<1> QED BY <1>1, <1>7

\* All the dwords joined are the first 4 * n bytes.
LEMMA FlattenIs ==
  ASSUME NEW n \in Nat, NEW t, NEW s, Long(t, n), Len(t) = n, Fours(t, n, s), n # 0
  PROVE  M!FlattenSeq(t) = Upto(s, n)
<1> DEFINE g == [i \in 1..n |-> Upto(s, i)]
           f == CHOOSE f : Flattens(f, t)
<1>1. \A i \in 1..n : g[i] = IF i = 1 THEN t[i] ELSE g[i - 1] \o t[i]
  <2>1. ASSUME NEW i \in 1..n, i # 1
        PROVE  g[i] = g[i - 1] \o t[i]
    <3>1. i \in 2..n /\ i - 1 \in 1..n
      BY <2>1
    <3>2. g[i] = Upto(s, i) /\ g[i - 1] = Upto(s, i - 1)
      BY <3>1
    <3>3. Joins(Upto(s, i), Upto(s, i - 1), t[i])
      BY <3>1, NextFour
    <3> QED BY <3>2, <3>3, Zenon DEF Joins
  <2>2. g[1] = t[1]
    BY FirstFour
  <2> QED BY <2>1, <2>2
<1>2. g = [i \in 1..n |-> g[i]]
  OBVIOUS
<1>3. g[n] = Upto(s, n)
  OBVIOUS
<1> HIDE DEF g
<1>4. Flattens(g, t)
  BY <1>1, <1>2 DEF Flattens
<1>5. Flattens(f, t)
  BY <1>4
<1>6. M!FlattenSeq(t) = f[Len(t)]
  BY DEF M!FlattenSeq, Flattens
<1> HIDE DEF f
<1>7. \A i \in 1..n : f[i] = IF i = 1 THEN t[i] ELSE f[i - 1] \o t[i]
  BY <1>5 DEF Flattens
<1>8. ASSUME NEW i \in 1..n, f[i] # Upto(s, i)
      PROVE  FALSE
  <2> DEFINE T == {j \in Nat : j \in 1..n /\ f[j] # Upto(s, j)}
  <2>1. i \in T
    BY <1>8
  <2>2. PICK j \in T : \A k \in T : j <= k
    BY <2>1, LeastElement
  <2>3. CASE j = 1
    BY <1>7, <2>2, <2>3, FirstFour
  <2>4. CASE j # 1
    <3>1. j \in 2..n /\ j - 1 \in 1..n /\ j - 1 \notin T
      BY <2>2, <2>4
    <3>2. f[j - 1] = Upto(s, j - 1)
      BY <3>1
    <3>3. f[j] = f[j - 1] \o t[j]
      BY <1>7, <2>4, <3>1
    <3>4. Joins(Upto(s, j), Upto(s, j - 1), t[j])
      BY <3>1, NextFour
    <3>5. f[j] = Upto(s, j)
      BY <3>2, <3>3, <3>4, Zenon DEF Joins
    <3> QED BY <2>2, <3>5
  <2> QED BY <2>3, <2>4
<1>9. f[n] = Upto(s, n)
  BY <1>8
<1> QED BY <1>6, <1>9

\* What is written, in whole dwords: the least multiple of four that is enough.
LEMMA DwordsAre ==
  ASSUME NEW size \in Nat
  PROVE  LET d == M!Dwords(M!Rounded(size))
         IN d \in Nat /\ 4 * d - size \in 0..3
<1> DEFINE q == size \div 4
           r == size - 4 * q
<1>1. q \in Nat /\ r \in 0..3 /\ size = 4 * q + r
  <2>1. q \in Nat /\ 4 * q <= size /\ size < 4 * q + 4
    OBVIOUS
  <2> HIDE DEF q
  <2> QED BY <2>1
<1>2. size % 4 = r
  <2> HIDE DEF q
  <2>1. size % 4 \in 0..3 /\ \A x \in Nat, y \in 0..3 : (4 * x + y) % 4 = y
    OBVIOUS
  <2> HIDE DEF r
  <2> QED BY <1>1, <2>1
<1>3. \A k \in Nat : (4 * k + 3) \div 4 = k
  OBVIOUS
<1>4. CASE r # 0
  <2>1. M!Rounded(size) = (q + 1) * 4
    BY <1>2, <1>4 DEF M!Rounded
  <2>2. q \in Nat /\ size = 4 * q + r /\ r \in 1..3
    BY <1>1, <1>4
  <2> HIDE DEF q, r
  <2>3. (q + 1) * 4 + 3 = 4 * (q + 1) + 3 /\ q + 1 \in Nat
    BY <2>2
  <2>4. M!Dwords(M!Rounded(size)) = q + 1
    BY <1>3, <2>1, <2>3 DEF M!Dwords
  <2> QED BY <2>2, <2>4
<1>5. CASE r = 0
  <2>1. M!Rounded(size) = size
    BY <1>2, <1>5 DEF M!Rounded
  <2>2. q \in Nat /\ size = 4 * q
    BY <1>1, <1>5
  <2> HIDE DEF q, r
  <2>3. M!Dwords(M!Rounded(size)) = q
    BY <1>3, <2>1, <2>2 DEF M!Dwords
  <2> QED BY <2>2, <2>3
<1> QED BY <1>4, <1>5

\* The part of a sequence behind at.
LEMMA AnyPart ==
  ASSUME NEW m \in Nat, NEW g, Long(g, m), NEW at \in Nat, NEW n \in Nat, at + n <= m
  PROVE  Taken(SubSeq(g, at + 1, at + n), g, at, n)
<1> DEFINE h == SubSeq(g, at + 1, at + n)
<1>1. CASE n = 0
  <2>1. h = <<>>
    BY <1>1
  <2> HIDE DEF h
  <2>2. Long(h, n)
    BY <1>1, <2>1 DEF Long
  <2> QED BY <1>1, <2>2 DEF Taken, h
<1>2. CASE n # 0
  <2>1. at + 1 \in 1..m /\ at + n \in 0..m /\ (at + n) - (at + 1) + 1 = n /\ n \in Nat \ {0}
    BY <1>2
  <2>2. \A i \in 1..n : (at + 1) + i - 1 = at + i
    OBVIOUS
  <2>3. Long(h, n) /\ \A i \in 1..n : h[i] = g[(at + 1) + i - 1]
    BY <2>1, PartAt
  <2> HIDE DEF h
  <2> QED BY <2>2, <2>3 DEF Taken, h
<1> QED BY <1>1, <1>2

\* A sequence of n elements has the length n.
LEMMA LongLen ==
  ASSUME NEW n \in Nat, NEW s, Long(s, n)
  PROVE  Len(s) = n /\ DOMAIN s = 1..n
<1> DEFINE V == {s[i] : i \in 1..n}
<1>1. s \in [1..n -> V]
  BY DEF Long
<1> HIDE DEF V
<1> QED BY <1>1

\* A dword that is swapped twice is the four bytes that were sent.
LEMMA TwoSwaps ==
  ASSUME NEW m \in Nat, NEW sent, Long(sent, m), NEW i \in Nat, 4 * i + 4 <= m
  PROVE  Taken(M!bswap32(M!recv_dword(sent, i)), sent, 4 * i, 4)
<1> DEFINE a == SubSeq(sent, 4 * i + 1, 4 * i + 4)
           b == M!Reverse(a)
           c == M!Reverse(b)
<1>1. 4 * i \in Nat
  OBVIOUS
<1>2. Taken(a, sent, 4 * i, 4)
  BY <1>1, AnyPart
<1>3. M!bswap32(M!recv_dword(sent, i)) = c
  BY DEF M!bswap32, M!recv_dword, M!get_dword
<1> HIDE DEF a
<1>4. Long(a, 4)
  BY <1>2 DEF Taken
<1>5. Len(a) = 4
  BY <1>4, LongLen
<1>6. Long(b, 4) /\ \A k \in 1..4 : b[k] = a[4 - k + 1]
  BY <1>5 DEF Long, M!Reverse
<1> HIDE DEF b
<1>7. Len(b) = 4
  BY <1>6, LongLen
<1>8. Long(c, 4) /\ \A k \in 1..4 : c[k] = b[4 - k + 1]
  BY <1>7 DEF Long, M!Reverse
<1> HIDE DEF c
<1>9. \A k \in 1..4 : 4 - k + 1 \in 1..4 /\ 4 - (4 - k + 1) + 1 = k
  OBVIOUS
<1>10. \A k \in 1..4 : c[k] = a[k]
  BY <1>6, <1>8, <1>9
<1> QED BY <1>2, <1>3, <1>8, <1>10 DEF Taken

\* What is received is what was sent.
LEMMA Received ==
  ASSUME NEW m \in Nat, NEW sent, Long(sent, m), NEW sz, NEW d \in Nat, d = M!Dwords(sz),
         d # 0, 4 * d <= m
  PROVE  M!recv_data(sent, sz) = Upto(sent, d)
<1> DEFINE t == [i \in 1..d |-> M!bswap32(M!recv_dword(sent, i - 1))]
<1>1. M!recv_data(sent, sz) = M!FlattenSeq(t)
  BY DEF M!recv_data
<1>2. \A i \in 1..d : t[i] = M!bswap32(M!recv_dword(sent, i - 1))
  OBVIOUS
<1>3. Long(t, d)
  BY DEF Long
<1> HIDE DEF t
<1>4. Len(t) = d
  BY <1>3, LongLen
<1>5. ASSUME NEW i \in 1..d
      PROVE  Long(t[i], 4) /\ Follows(t[i], 4, sent, 4 * (i - 1))
  <2>1. i - 1 \in Nat /\ 4 * (i - 1) + 4 <= m
    OBVIOUS
  <2>2. Taken(M!bswap32(M!recv_dword(sent, i - 1)), sent, 4 * (i - 1), 4)
    BY <2>1, TwoSwaps
  <2>3. Taken(t[i], sent, 4 * (i - 1), 4)
    BY <1>2, <2>2
  <2> QED BY <2>3 DEF Taken, Follows
<1>6. Fours(t, d, sent)
  BY <1>5 DEF Fours
<1> QED BY <1>1, <1>3, <1>4, <1>6, FlattenIs

\* The bytes that are stored.
LEMMA StoredAre ==
  ASSUME NEW m \in Nat, NEW sent, Long(sent, m), NEW size \in Nat, size # 0,
         4 * M!Dwords(M!Rounded(size)) <= m
  PROVE  Taken(M!Stored(M!recv_data(sent, M!Rounded(size)), size), sent, 0, size)
<1> DEFINE d == M!Dwords(M!Rounded(size))
           u == Upto(sent, d)
<1>1. d \in Nat /\ 4 * d - size \in 0..3
  BY DwordsAre
<1>2. d # 0 /\ 4 * d \in Nat /\ size <= 4 * d
  BY <1>1
<1>3. M!recv_data(sent, M!Rounded(size)) = u
  BY <1>1, <1>2, Received
<1>4. Long(u, 4 * d) /\ \A i \in 1..(4 * d) : u[i] = sent[i]
  BY DEF Long, Upto
<1> HIDE DEF d, u
<1>5. Taken(SubSeq(u, 0 + 1, 0 + size), u, 0, size)
  BY <1>2, <1>4, AnyPart
<1>6. M!Stored(u, size) = SubSeq(u, 0 + 1, 0 + size)
  BY DEF M!Stored
<1>7. \A i \in 1..size : u[0 + i] = sent[0 + i]
  BY <1>2, <1>4
<1> QED BY <1>3, <1>5, <1>6, <1>7 DEF Taken

\* What was taken out of g follows in w if it is there.
LEMMA FollowsOf ==
  ASSUME NEW h, NEW g, NEW at \in Nat, NEW n \in Nat, Taken(h, g, at, n), NEW w, NEW to \in Nat,
         \A i \in 1..n : w[to + i] = g[at + i]
  PROVE  Long(h, n) /\ Follows(h, n, w, to)
BY DEF Taken, Follows

\* 0x4000 writes what was sent and nothing else, and 0x4002 reads it.
THEOREM WriteIsRight ==
  ASSUME NEW N \in Nat, NEW mem, Long(mem, N), NEW address \in Nat \ {0}, NEW size \in Nat,
         address + size <= N + 1, NEW m \in Nat, NEW sent, Long(sent, m),
         4 * M!Dwords(M!Rounded(size)) <= m
  PROVE  M!WritesRight(mem, address, size, sent)
<1> DEFINE bytes == M!Stored(M!recv_data(sent, M!Rounded(size)), size)
           w == [k \in DOMAIN mem |->
                   IF k \in address..(address + size - 1) THEN bytes[k - address + 1] ELSE mem[k]]
           d == M!Dwords(M!Rounded(size))
           after == M!Write(mem, address, size, sent)
           at == address - 1
           end == at + size
           rest == N - end
           a == SubSeq(mem, 1, address - 1)
           b == SubSeq(sent, 1, size)
           c == SubSeq(mem, address + size, Len(mem))
<1>1. d \in Nat /\ 4 * d - size \in 0..3 /\ 4 * d <= m
  BY DwordsAre
<1>2. size <= m
  BY <1>1
<1>3. /\ at \in Nat /\ rest \in Nat /\ end \in Nat /\ end + rest = N /\ address = at + 1
      /\ end = at + size
  OBVIOUS
<1>4. Len(mem) = N /\ DOMAIN mem = 1..N
  BY LongLen
<1>5. after.mem = w /\ after.taken = 4 * d
  BY DEF M!Write
<1>6. a = SubSeq(mem, 0 + 1, 0 + at) /\ b = SubSeq(sent, 0 + 1, 0 + size)
        /\ c = SubSeq(mem, end + 1, end + rest)
  BY <1>3, <1>4
<1> HIDE DEF after, d, a, b, c
<1>7. \A i \in 1..size : w[at + i] = sent[0 + i]
  <2>1. ASSUME NEW i \in 1..size
        PROVE  w[at + i] = sent[0 + i]
    <3>1. size # 0 /\ 4 * M!Dwords(M!Rounded(size)) <= m
      OBVIOUS
    <3>2. Taken(bytes, sent, 0, size)
      BY <3>1, StoredAre
    <3>3. bytes[i] = sent[0 + i]
      BY <3>2 DEF Taken
    <3> HIDE DEF bytes
    <3>4. at + i \in DOMAIN mem /\ at + i \in address..(address + size - 1)
            /\ (at + i) - address + 1 = i
      BY <1>3, <1>4
    <3>5. w[at + i] = bytes[i]
      BY <3>4
    <3> QED BY <3>3, <3>5
  <2> QED BY <2>1
<1>8. \A i \in 1..at : w[0 + i] = mem[0 + i]
  BY <1>3, <1>4
<1>9. \A i \in 1..rest : w[end + i] = mem[end + i]
  BY <1>3, <1>4
<1>10. Long(w, N)
  BY <1>4 DEF Long
<1> HIDE DEF w, bytes, at, end, rest
<1>11. Taken(a, mem, 0, at) /\ Taken(b, sent, 0, size) /\ Taken(c, mem, end, rest)
  BY <1>2, <1>3, <1>6, AnyPart
<1>12. Long(a, at) /\ Follows(a, at, w, 0)
  BY <1>3, <1>8, <1>11, FollowsOf
<1>13. Long(b, size) /\ Follows(b, size, w, at)
  BY <1>3, <1>7, <1>11, FollowsOf
<1>14. Long(c, rest) /\ Follows(c, rest, w, end)
  BY <1>3, <1>9, <1>11, FollowsOf
<1> DEFINE u == a \o b
           v == u \o c
<1>15. Joins(u, a, b) /\ Joins(v, u, c)
  BY DEF Joins
<1> HIDE DEF u, v
<1>16. Begins(a, at, w)
  <2>1. \A i \in 1..at : a[i] = w[i]
    BY <1>3, <1>12 DEF Follows
  <2> QED BY <1>12, <2>1 DEF Long, Begins
<1>17. Begins(u, end, w)
  <2>1. Begins(u, at + size, w)
    BY <1>3, <1>13, <1>15, <1>16, Extended
  <2> QED BY <1>3, <2>1
<1>18. Begins(v, N, w)
  <2>1. Begins(v, end + rest, w)
    BY <1>3, <1>14, <1>15, <1>17, Extended
  <2> QED BY <1>3, <2>1
<1>19. v = w
  BY <1>10, <1>18, Zenon DEF Begins, Long
<1>20. SubSeq(w, at + 1, at + size) = b
  <2>1. Taken(SubSeq(w, at + 1, at + size), w, at, size)
    BY <1>3, <1>10, AnyPart
  <2>2. Long(SubSeq(w, at + 1, at + size), size)
         /\ \A i \in 1..size : SubSeq(w, at + 1, at + size)[i] = b[i]
    BY <1>13, <2>1 DEF Taken, Follows
  <2> QED BY <1>13, <2>2, Same
<1>21. M!Read(w, address, size) = b
  <2>1. address + size - 1 = at + size /\ address = at + 1
    BY <1>3
  <2> QED BY <1>20, <2>1 DEF M!Read
<1>22. (4 * d) % 4 = 0
  BY <1>1
<1>23. after.mem = (a \o b) \o c
  BY <1>5, <1>19, Zenon DEF v, u
<1>24. M!Read(after.mem, address, size) = b /\ after.taken % 4 = 0 /\ after.taken - size \in 0..3
  BY <1>1, <1>5, <1>21, <1>22
<1> QED BY <1>23, <1>24, Zenon DEF M!WritesRight, after, a, b, c

-----------------------------------------------------------------------------
(* memcpy, memset and strcpy                                               *)

\* A number less than d that differs from k by a multiple of d is the remainder.
LEMMA RemainderIs ==
  ASSUME NEW k \in Nat, NEW d \in Nat \ {0}, NEW q \in Nat, NEW r \in Nat, r < d, k = q * d + r
  PROVE  k % d = r
BY SMT

\* A period d more does not change a remainder.
LEMMA Periodic ==
  ASSUME NEW k \in Nat, NEW d \in Nat \ {0}
  PROVE  k % d \in Nat /\ (k + d) % d = k % d /\ (k < d => k % d = k)
<1> DEFINE q == k \div d
           m == q * d
           r == k - m
<1>1. q \in Nat /\ d * q <= k /\ k < d * q + d
  BY Quotients
<1> HIDE DEF q
<1>2. d * q = q * d
  BY <1>1
<1>3. m \in Nat /\ m <= k /\ k < m + d /\ (q + 1) * d = m + d /\ q + 1 \in Nat
  <2>1. m \in Nat /\ q + 1 \in Nat
    BY <1>1
  <2>2. (q + 1) * d = m + d
    BY <1>1
  <2> QED BY <1>1, <1>2, <2>1, <2>2
<1> HIDE DEF m
<1>4. r \in Nat /\ r < d /\ k = m + r /\ k + d = (m + d) + r
  BY <1>3
<1> HIDE DEF r
<1>5. k % d = r
  <2>1. k = q * d + r
    BY <1>4 DEF m
  <2> QED BY <1>1, <1>4, <2>1, RemainderIs
<1>6. (k + d) % d = r
  <2>1. k + d = (q + 1) * d + r /\ k + d \in Nat
    BY <1>3, <1>4
  <2> DEFINE j == k + d
             e == q + 1
  <2>2. j = e * d + r /\ j \in Nat /\ e \in Nat
    BY <1>3, <2>1
  <2> HIDE DEF j, e
  <2>3. j % d = r
    BY <1>4, <2>2, RemainderIs
  <2> QED BY <2>3 DEF j
<1>7. k < d => k % d = k
  OBVIOUS
<1> QED BY <1>4, <1>5, <1>6, <1>7

-----------------------------------------------------------------------------

\* The memory m after the k-th turn of a loop that copies.
Turn(m, to, from, k) == [m EXCEPT ![to + k - 1] = m[from + k - 1]]

\* f is the memory after each of the first n turns.
Turns(mem, to, from, n, f) ==
  f = [k \in 0..n |-> IF k = 0 THEN mem ELSE Turn(f[k - 1], to, from, k)]

\* The memory before the first turn and after each other.
LEMMA TurnsStep ==
  ASSUME NEW mem, NEW to, NEW from, NEW n \in Nat, NEW f, Turns(mem, to, from, n, f)
  PROVE  /\ DOMAIN f = 0..n /\ f[0] = mem
         /\ \A k \in 1..n : f[k] = Turn(f[k - 1], to, from, k)
BY DEF Turns

\* The memory after a turn does not depend on how many turns follow.
LEMMA TurnsAgree ==
  ASSUME NEW mem, NEW to, NEW from, NEW m \in Nat, NEW n \in Nat, NEW f, NEW g,
         Turns(mem, to, from, m, f), Turns(mem, to, from, n, g), NEW k \in 0..m, k <= n
  PROVE  f[k] = g[k]
<1>1. f[0] = g[0]
  <2>1. f[0] = mem
    BY TurnsStep
  <2>2. g[0] = mem
    BY TurnsStep
  <2> QED BY <2>1, <2>2
<1> DEFINE T == {j \in Nat : j <= m /\ j <= n /\ f[j] # g[j]}
<1>2. SUFFICES ASSUME NEW t \in T PROVE FALSE
  OBVIOUS
<1>3. PICK j \in T : \A i \in T : j <= i
  BY LeastElement
<1>4. CASE j = 0
  BY <1>3, <1>1, <1>4
<1>5. CASE j # 0
  <2>1. j - 1 \in Nat /\ j - 1 \notin T /\ j \in 1..m /\ j \in 1..n
    BY <1>3, <1>5
  <2>2. f[j - 1] = g[j - 1]
    BY <2>1
  <2>3. f[j] = Turn(f[j - 1], to, from, j) /\ g[j] = Turn(g[j - 1], to, from, j)
    BY <2>1, TurnsStep
  <2> QED BY <1>3, <2>2, <2>3
<1> QED BY <1>4, <1>5

\* There is a memory for each of n turns.
LEMMA TurnsExist ==
  ASSUME NEW mem, NEW to, NEW from, NEW n \in Nat
  PROVE  \E f : Turns(mem, to, from, n, f)
<1> DEFINE T == {j \in Nat : ~ \E f : Turns(mem, to, from, j, f)}
<1>1. SUFFICES ASSUME NEW t \in T PROVE FALSE
  OBVIOUS
<1>2. PICK j \in T : \A i \in T : j <= i
  BY LeastElement
<1>3. CASE j = 0
  <2> DEFINE f == [k \in 0..0 |-> mem]
  <2>1. f = [k \in 0..0 |-> IF k = 0 THEN mem ELSE Turn(f[k - 1], to, from, k)]
    OBVIOUS
  <2>2. Turns(mem, to, from, 0, f)
    BY <2>1 DEF Turns
  <2> QED BY <1>2, <1>3, <2>2
<1>4. CASE j # 0
  <2>1. j - 1 \in Nat /\ j - 1 \notin T
    BY <1>2, <1>4
  <2>2. PICK g : Turns(mem, to, from, j - 1, g)
    BY <2>1
  <2>3. g[0] = mem /\ \A k \in 1..(j - 1) : g[k] = Turn(g[k - 1], to, from, k)
    BY <2>1, <2>2, TurnsStep
  <2> DEFINE f == [k \in 0..j |-> IF k = j THEN Turn(g[j - 1], to, from, j) ELSE g[k]]
  <2>4. f[0] = mem
    BY <1>4, <2>1, <2>3
  <2>5. ASSUME NEW k \in 1..j
        PROVE  f[k] = Turn(f[k - 1], to, from, k)
    <3>1. f[k - 1] = g[k - 1]
      OBVIOUS
    <3>2. CASE k = j
      BY <3>1, <3>2
    <3>3. CASE k # j
      BY <2>3, <3>1, <3>3
    <3> QED BY <3>2, <3>3
  <2>6. f = [k \in 0..j |-> f[k]]
    OBVIOUS
  <2> HIDE DEF f
  <2>7. \A k \in 0..j : f[k] = IF k = 0 THEN mem ELSE Turn(f[k - 1], to, from, k)
    BY <1>2, <2>4, <2>5
  <2>8. Turns(mem, to, from, j, f)
    BY <2>6, <2>7 DEF Turns
  <2> QED BY <1>2, <2>8
<1> QED BY <1>3, <1>4

\* What the memory is after each turn: the recursion has a solution.
LEMMA CopiedIs ==
  ASSUME NEW mem, NEW to, NEW from
  PROVE  LET after == C!Copied(mem, to, from)
         IN /\ after[0] = mem
            /\ \A n \in Nat \ {0} : after[n] = Turn(after[n - 1], to, from, n)
<1> DEFINE Solves(f) == f = [k \in Nat |-> IF k = 0 THEN mem ELSE Turn(f[k - 1], to, from, k)]
           c(n) == CHOOSE f : Turns(mem, to, from, n, f)
           h == [n \in Nat |-> c(n)[n]]
<1>1. \A n \in Nat : Turns(mem, to, from, n, c(n))
  BY TurnsExist
<1>2. \A n \in Nat : h[n] = c(n)[n]
  OBVIOUS
<1> HIDE DEF c
<1>3. h[0] = mem
  BY <1>1, TurnsStep
<1>4. ASSUME NEW n \in Nat, n # 0
      PROVE  h[n] = Turn(h[n - 1], to, from, n)
  <2>1. n - 1 \in Nat /\ n \in 1..n /\ n - 1 \in 0..(n - 1) /\ n - 1 <= n
    BY <1>4
  <2>2. c(n)[n] = Turn(c(n)[n - 1], to, from, n)
    BY <1>1, <2>1, TurnsStep
  <2>3. Turns(mem, to, from, n, c(n)) /\ Turns(mem, to, from, n - 1, c(n - 1))
    BY <1>1, <2>1
  <2>4. c(n)[n - 1] = c(n - 1)[n - 1]
    BY <2>1, <2>3, TurnsAgree
  <2> QED BY <1>2, <2>1, <2>2, <2>4
<1>5. Solves(h)
  <2>1. h = [k \in Nat |-> h[k]]
    OBVIOUS
  <2> HIDE DEF h
  <2> QED BY <1>3, <1>4, <2>1
<1> DEFINE s == CHOOSE f : Solves(f)
<1>6. Solves(s)
  BY <1>5
<1>7. C!Copied(mem, to, from) = s
  BY DEF C!Copied, Turn
<1> HIDE DEF s
<1>8. s[0] = mem /\ \A n \in Nat \ {0} : s[n] = Turn(s[n - 1], to, from, n)
  BY <1>6
<1> QED BY <1>7, <1>8

\* m is the memory mem with the k bytes behind from copied to to, over and over with
\* the period d.
Overlaid(m, mem, N, to, from, d, k) ==
  m = [q \in 1..N |-> IF q \in to..(to + k - 1) THEN mem[from + ((q - to) % d)] ELSE mem[q]]

\* How far a copy onto the end of its own source repeats.
Period(to, from, n) == IF from < to /\ to < from + n THEN to - from ELSE n + 1

\* What a turn reads has or has not been copied before.
LEMMA TurnReads ==
  ASSUME NEW N \in Nat, NEW mem, NEW to \in Nat \ {0}, NEW from \in Nat \ {0}, NEW n \in Nat,
         to + n <= N + 1, from + n <= N + 1, NEW k \in 0..(n - 1), NEW m,
         NEW d, d = Period(to, from, n), Overlaid(m, mem, N, to, from, d, k)
  PROVE  m[from + k] = mem[from + (k % d)]
<1>1. from + k \in 1..N
  OBVIOUS
<1>2. \A q \in 1..N :
        m[q] = IF q \in to..(to + k - 1) THEN mem[from + ((q - to) % d)] ELSE mem[q]
  BY DEF Overlaid
<1>3. CASE from + k \in to..(to + k - 1)
  <2>1. d = to - from /\ d \in Nat \ {0} /\ k - d \in Nat /\ (from + k) - to = k - d
    BY <1>3 DEF Period
  <2>2. m[from + k] = mem[from + ((k - d) % d)]
    BY <1>1, <1>2, <1>3, <2>1
  <2> DEFINE j == k - d
  <2>3. j + d = k
    BY <2>1
  <2>4. (j + d) % d = j % d
    <3>1. j \in Nat
      BY <2>1
    <3> HIDE DEF j
    <3> QED BY <2>1, <3>1, Periodic
  <2> HIDE DEF j
  <2>5. k % d = j % d
    BY <2>3, <2>4
  <2> QED BY <2>2, <2>5 DEF j
<1>4. CASE from + k \notin to..(to + k - 1)
  <2>1. d \in Nat \ {0} /\ k < d
    BY <1>4 DEF Period
  <2>2. k % d = k
    <3>1. \A x \in Nat, y \in Nat \ {0} : x < y => x % y = x
      BY Periodic
    <3> QED BY <2>1, <3>1
  <2>3. m[from + k] = mem[from + k]
    BY <1>1, <1>2, <1>4
  <2> QED BY <2>2, <2>3
<1> QED BY <1>3, <1>4

\* One turn more copies one byte more.
LEMMA TurnOverlays ==
  ASSUME NEW N \in Nat, NEW mem, NEW to \in Nat \ {0}, NEW from \in Nat \ {0}, NEW n \in Nat,
         to + n <= N + 1, from + n <= N + 1, NEW k \in 0..(n - 1), NEW m,
         NEW d, d = Period(to, from, n), Overlaid(m, mem, N, to, from, d, k)
  PROVE  Overlaid(Turn(m, to, from, k + 1), mem, N, to, from, d, k + 1)
<1> DEFINE a == to + k
           b == from + k
           t == [m EXCEPT ![a] = m[b]]
<1>1. Turn(m, to, from, k + 1) = t
  <2>1. to + (k + 1) - 1 = a /\ from + (k + 1) - 1 = b
    OBVIOUS
  <2> HIDE DEF a, b
  <2> QED BY <2>1 DEF Turn
<1>2. m[b] = mem[from + (k % d)]
  BY TurnReads
<1>3. DOMAIN m = 1..N
  BY DEF Overlaid
<1>4. \A q \in 1..N :
        m[q] = IF q \in to..(to + k - 1) THEN mem[from + ((q - to) % d)] ELSE mem[q]
  BY DEF Overlaid
<1>5. a \in 1..N /\ a - to = k /\ a \in to..(to + (k + 1) - 1)
  OBVIOUS
<1> HIDE DEF b
<1>6. ASSUME NEW q \in 1..N
      PROVE  t[q] = IF q \in to..(to + (k + 1) - 1) THEN mem[from + ((q - to) % d)] ELSE mem[q]
  <2>1. CASE q = a
    <3>1. t[q] = m[b]
      BY <1>3, <2>1
    <3> HIDE DEF t
    <3> QED BY <1>2, <1>5, <2>1, <3>1
  <2>2. CASE q # a
    <3>1. t[q] = m[q]
      BY <1>3, <2>2
    <3>2. q \in to..(to + (k + 1) - 1) <=> q \in to..(to + k - 1)
      BY <2>2
    <3> HIDE DEF t
    <3> QED BY <1>4, <3>1, <3>2
  <2> QED BY <2>1, <2>2
<1>7. t = [q \in 1..N |-> t[q]]
  BY <1>3
<1> HIDE DEF t
<1> QED BY <1>1, <1>6, <1>7 DEF Overlaid

\* The memory after each turn within the first n.
LEMMA CopiedOverlays ==
  ASSUME NEW N \in Nat, NEW mem, Long(mem, N), NEW to \in Nat \ {0}, NEW from \in Nat \ {0},
         NEW n \in Nat, to + n <= N + 1, from + n <= N + 1, NEW k \in 0..n
  PROVE  Overlaid(C!Copied(mem, to, from)[k], mem, N, to, from, Period(to, from, n), k)
<1> DEFINE after == C!Copied(mem, to, from)
           d == Period(to, from, n)
           Good(j) == Overlaid(after[j], mem, N, to, from, d, j)
<1>1. after[0] = mem /\ \A j \in Nat \ {0} : after[j] = Turn(after[j - 1], to, from, j)
  BY CopiedIs
<1> HIDE DEF after, d
<1>2. Good(0)
  <2>1. \A q \in 1..N : q \notin to..(to + 0 - 1)
    OBVIOUS
  <2> QED BY <1>1, <2>1 DEF Overlaid, Long
<1>3. ASSUME NEW j \in 0..(n - 1), Good(j)
      PROVE  Good(j + 1)
  <2>1. Overlaid(Turn(after[j], to, from, j + 1), mem, N, to, from, d, j + 1)
    BY <1>3, TurnOverlays DEF d
  <2>2. after[j + 1] = Turn(after[j], to, from, j + 1)
    BY <1>1
  <2> QED BY <2>1, <2>2
<1> HIDE DEF Good
<1>4. ASSUME ~Good(k)
      PROVE  FALSE
  <2> DEFINE T == {j \in Nat : j <= n /\ ~Good(j)}
  <2>1. k \in T
    BY <1>4
  <2>2. PICK j \in T : \A i \in T : j <= i
    BY <2>1, LeastElement
  <2>3. j # 0
    BY <1>2, <2>2
  <2>4. j - 1 \in 0..(n - 1) /\ j - 1 \in Nat /\ j - 1 \notin T /\ (j - 1) + 1 = j
    BY <2>2, <2>3
  <2>5. Good(j - 1)
    BY <2>4
  <2>6. Good((j - 1) + 1)
    BY <1>3, <2>4, <2>5
  <2> QED BY <2>2, <2>4, <2>6
<1> QED BY <1>4 DEF Good, after, d

\* f is the memory after each turn of memset.
Fills(f, mem, dst, c) ==
  f = [k \in Nat |-> IF k = 0 THEN mem ELSE [f[k - 1] EXCEPT ![dst + k - 1] = c % 256]]

\* mem with k bytes c from dst on.
Cleared(mem, N, dst, c, k) ==
  [q \in 1..N |-> IF q \in dst..(dst + k - 1) THEN c % 256 ELSE mem[q]]

\* One turn of memset sets one byte more.
LEMMA FillTurn ==
  ASSUME NEW N \in Nat, NEW mem, NEW dst \in Nat, NEW c, NEW k \in Nat \ {0}
  PROVE  [Cleared(mem, N, dst, c, k - 1) EXCEPT ![dst + k - 1] = c % 256]
            = Cleared(mem, N, dst, c, k)
<1> DEFINE a == dst + k - 1
           m == Cleared(mem, N, dst, c, k - 1)
           t == [m EXCEPT ![a] = c % 256]
           v == c % 256
           w == Cleared(mem, N, dst, c, k)
<1>1. DOMAIN m = 1..N /\ DOMAIN w = 1..N
  BY DEF Cleared
<1>2. a \in Int /\ a \in dst..(dst + k - 1) /\ dst + (k - 1) - 1 = a - 1
  OBVIOUS
<1>3. ASSUME NEW q \in 1..N
      PROVE  t[q] = w[q]
  <2>1. CASE q = a
    <3>1. t[q] = v
      BY <1>1, <2>1
    <3>2. w[q] = v
      BY <1>2, <2>1 DEF Cleared
    <3> QED BY <3>1, <3>2
  <2>2. CASE q # a
    <3>1. t[q] = m[q]
      BY <1>1, <2>2
    <3>2. q \in dst..(dst + k - 1) <=> q \in dst..(dst + (k - 1) - 1)
      BY <1>2, <2>2
    <3>3. m[q] = w[q]
      BY <3>2 DEF Cleared
    <3> QED BY <3>1, <3>3
  <2> QED BY <2>1, <2>2
<1>4. t = [q \in 1..N |-> t[q]] /\ w = [q \in 1..N |-> w[q]]
  BY <1>1 DEF Cleared
<1> HIDE DEF t, w, m, a, v
<1>5. [q \in 1..N |-> t[q]] = [q \in 1..N |-> w[q]]
  BY <1>3
<1>6. t = w
  BY <1>4, <1>5
<1> QED BY <1>6 DEF t, w, m, a, v

\* memset sets n bytes and no other.
LEMMA MemsetIs ==
  ASSUME NEW N \in Nat, NEW mem, Long(mem, N), NEW dst \in Nat, NEW c, NEW n \in Nat
  PROVE  C!memset(mem, dst, c, n) = Cleared(mem, N, dst, c, n)
<1> DEFINE W(k) == Cleared(mem, N, dst, c, k)
           g == [k \in Nat |-> W(k)]
           f == CHOOSE f : Fills(f, mem, dst, c)
           Next1(m, k) == [m EXCEPT ![dst + k - 1] = c % 256]
<1>1. W(0) = mem
  <2>1. \A q \in 1..N : q \notin dst..(dst + 0 - 1)
    OBVIOUS
  <2> QED BY <2>1 DEF Long, Cleared
<1>2. \A k \in Nat \ {0} : Next1(W(k - 1), k) = W(k)
  BY FillTurn
<1>3. \A k \in Nat : g[k] = W(k)
  OBVIOUS
<1>4. g = [k \in Nat |-> g[k]]
  OBVIOUS
<1> HIDE DEF g, W, Next1
<1>5. \A k \in Nat : g[k] = IF k = 0 THEN mem ELSE Next1(g[k - 1], k)
  <2>1. ASSUME NEW k \in Nat, k # 0
        PROVE  g[k] = Next1(g[k - 1], k)
    <3>1. k - 1 \in Nat /\ k \in Nat \ {0}
      BY <2>1
    <3>2. Next1(W(k - 1), k) = W(k)
      BY <1>2, <3>1
    <3>3. g[k] = W(k) /\ g[k - 1] = W(k - 1)
      BY <1>3, <3>1
    <3> QED BY <3>2, <3>3
  <2> QED BY <1>1, <1>3, <2>1
<1>6. g = [k \in Nat |-> IF k = 0 THEN mem ELSE Next1(g[k - 1], k)]
  BY <1>4, <1>5
<1>7. Fills(g, mem, dst, c)
  BY <1>6 DEF Fills, Next1
<1>8. Fills(f, mem, dst, c)
  BY <1>7
<1>9. C!memset(mem, dst, c, n) = f[n]
  BY DEF C!memset, Fills
<1> HIDE DEF f
<1>10. f = [k \in Nat |-> IF k = 0 THEN mem ELSE Next1(f[k - 1], k)]
  BY <1>8 DEF Fills, Next1
<1>11. f[0] = mem /\ \A k \in Nat \ {0} : f[k] = Next1(f[k - 1], k)
  BY <1>10
<1>12. ASSUME f[n] # W(n)
       PROVE  FALSE
  <2> DEFINE T == {j \in Nat : f[j] # W(j)}
  <2>1. n \in T
    BY <1>12
  <2>2. PICK j \in T : \A i \in T : j <= i
    BY <2>1, LeastElement
  <2>3. j # 0
    BY <1>1, <1>11, <2>2
  <2>4. j - 1 \in Nat /\ j \in Nat \ {0} /\ j - 1 \notin T
    BY <2>2, <2>3
  <2>5. f[j - 1] = W(j - 1)
    BY <2>4
  <2>6. f[j] = Next1(W(j - 1), j)
    BY <1>11, <2>4, <2>5
  <2> QED BY <1>2, <2>2, <2>4, <2>6
<1> QED BY <1>9, <1>12 DEF W

\* Copies within memory, also onto their own source, and fills.
THEOREM CopyIsRight ==
  ASSUME NEW N \in Nat, NEW mem, Long(mem, N), NEW to \in Nat \ {0}, NEW from \in Nat \ {0},
         NEW n \in Nat, to + n <= N + 1, from + n <= N + 1
  PROVE  C!CopiesRight(mem, to, from, n)
<1> DEFINE d == Period(to, from, n)
           copied == C!memcpy(mem, to, from, n)
           cleared == C!memset(mem, to, n, n)
<1>1. DOMAIN mem = 1..N
  BY DEF Long
<1>2. Overlaid(copied, mem, N, to, from, d, n)
  BY CopiedOverlays DEF C!memcpy
<1>3. cleared = Cleared(mem, N, to, n, n)
  BY MemsetIs
<1>4. C!CopiesRight(mem, to, from, n) <=>
      /\ \A q \in DOMAIN mem :
           copied[q] = IF q \in to..(to + n - 1) THEN mem[from + ((q - to) % d)] ELSE mem[q]
      /\ \A q \in DOMAIN mem :
           cleared[q] = IF q \in to..(to + n - 1) THEN n % 256 ELSE mem[q]
  BY Zenon DEF C!CopiesRight, Period
<1> HIDE DEF d, copied, cleared
<1>5. \A q \in DOMAIN mem :
        copied[q] = IF q \in to..(to + n - 1) THEN mem[from + ((q - to) % d)] ELSE mem[q]
  BY <1>1, <1>2 DEF Overlaid
<1>6. \A q \in DOMAIN mem : cleared[q] = IF q \in to..(to + n - 1) THEN n % 256 ELSE mem[q]
  BY <1>1, <1>3 DEF Cleared
<1> QED BY <1>4, <1>5, <1>6

\* n is the number of bytes before the first 0 of g.
FirstZero(g, n) == g[n] = 0 /\ \A j \in 0..(n - 1) : g[j] # 0

\* There is only one.
LEMMA ZeroIs ==
  ASSUME NEW N \in Nat, NEW g, NEW n \in 0..N, FirstZero(g, n)
  PROVE  (CHOOSE k \in 0..N : FirstZero(g, k)) = n
<1>1. ASSUME NEW k \in 0..N, FirstZero(g, k)
      PROVE  k = n
  <2>1. CASE k < n
    BY <1>1, <2>1 DEF FirstZero
  <2>2. CASE k > n
    BY <1>1, <2>2 DEF FirstZero
  <2> QED BY <2>1, <2>2
<1> QED BY <1>1

\* strcpy copies a string with its 0 and nothing else, unless one string lies on the other.
THEOREM StringCopyIsRight ==
  ASSUME NEW N \in Nat, NEW mem, Long(mem, N), NEW to \in Nat \ {0}, NEW from \in Nat \ {0},
         NEW n \in Nat, to + n <= N, from + n <= N,
         mem[from + n] = 0, \A j \in 0..(n - 1) : mem[from + j] # 0
  PROVE  C!StringCopiedRight(mem, to, from)
<1> DEFINE g == [k \in 0..N |-> mem[from + k]]
           after == C!Copied(mem, to, from)
           h == [k \in 0..N |-> after[k][from + k]]
           d == n + 2
<1>1. Len(mem) = N /\ DOMAIN mem = 1..N
  BY LongLen
<1>2. n \in 0..N
  OBVIOUS
<1>3. (CHOOSE k \in 0..Len(mem) :
          mem[from + k] = 0 /\ \A j \in 0..(k - 1) : mem[from + j] # 0) = n
  <2>1. \A k \in 0..N : FirstZero(g, k) <=>
                        mem[from + k] = 0 /\ \A j \in 0..(k - 1) : mem[from + j] # 0
    <3>1. \A j \in 0..N : g[j] = mem[from + j]
      OBVIOUS
    <3> HIDE DEF g
    <3>2. \A k \in 0..N : \A j \in 0..(k - 1) : j \in 0..N
      OBVIOUS
    <3> QED BY <3>1, <3>2 DEF FirstZero
  <2> HIDE DEF g
  <2>2. FirstZero(g, n)
    BY <1>2, <2>1
  <2>3. (CHOOSE k \in 0..N : FirstZero(g, k)) = n
    BY <1>2, <2>2, ZeroIs
  <2> QED BY <1>1, <2>1, <2>3
<1>4. ASSUME to \notin from..(from + n), from \notin to..(to + n)
      PROVE  \A q \in 1..N :
               C!strcpy(mem, to, from)[q]
                 = IF q \in to..(to + n) THEN mem[from + q - to] ELSE mem[q]
  <2>1. Period(to, from, n + 1) = d
    BY <1>4 DEF Period
  <2>2. d \in Nat \ {0} /\ n + 1 \in Nat /\ to + (n + 1) <= N + 1 /\ from + (n + 1) <= N + 1
    OBVIOUS
  <2> HIDE DEF after
  <2>3. ASSUME NEW k \in 0..(n + 1)
        PROVE  Overlaid(after[k], mem, N, to, from, d, k)
    <3> DEFINE e == n + 1
    <3>1. /\ e \in Nat /\ to + e <= N + 1 /\ from + e <= N + 1 /\ k \in 0..e
          /\ Period(to, from, e) = d
      BY <2>1, <2>2
    <3> HIDE DEF e, d
    <3> QED BY <3>1, CopiedOverlays DEF after
  <2> HIDE DEF d
  <2>4. ASSUME NEW k \in 0..n
        PROVE  after[k][from + k] = mem[from + k]
    <3>1. from + k \in 1..N /\ from + k \notin to..(to + k - 1) /\ k \in 0..(n + 1)
      BY <1>4
    <3>2. Overlaid(after[k], mem, N, to, from, d, k)
      BY <2>3, <3>1
    <3> DEFINE m == after[k]
               b == from + k
    <3>3. Overlaid(m, mem, N, to, from, d, k) /\ b \in 1..N /\ b \notin to..(to + k - 1)
      BY <3>1, <3>2
    <3> HIDE DEF m, b
    <3>4. m[b] = mem[b]
      BY <3>3 DEF Overlaid
    <3> QED BY <3>4 DEF m, b
  <2>5. \A k \in 0..N : FirstZero(h, k) <=>
                        after[k][from + k] = 0 /\ \A j \in 0..(k - 1) : after[j][from + j] # 0
    <3>1. \A j \in 0..N : h[j] = after[j][from + j]
      OBVIOUS
    <3> HIDE DEF h
    <3>2. \A k \in 0..N : \A j \in 0..(k - 1) : j \in 0..N
      OBVIOUS
    <3> QED BY <3>1, <3>2 DEF FirstZero
  <2> HIDE DEF h
  <2>6. FirstZero(h, n)
    BY <1>2, <2>4, <2>5
  <2>7. (CHOOSE k \in 0..N : FirstZero(h, k)) = n
    BY <1>2, <2>6, ZeroIs
  <2>8. (CHOOSE k \in 0..Len(mem) :
            after[k][from + k] = 0 /\ \A j \in 0..(k - 1) : after[j][from + j] # 0) = n
    BY <1>1, <2>5, <2>7
  <2>9. C!strcpy(mem, to, from) = after[n + 1]
    BY <2>8, Zenon DEF C!strcpy, after
  <2>10. Overlaid(after[n + 1], mem, N, to, from, d, n + 1)
    BY <2>3
  <2>11. ASSUME NEW q \in to..(to + n)
         PROVE  from + ((q - to) % d) = from + q - to
    <3>1. q - to \in Nat /\ q - to < d
      BY DEF d
    <3>2. \A x \in Nat, y \in Nat \ {0} : x < y => x % y = x
      BY Periodic
    <3> QED BY <2>2, <3>1, <3>2
  <2>12. to + (n + 1) - 1 = to + n
    OBVIOUS
  <2> QED BY <2>9, <2>10, <2>11, <2>12 DEF Overlaid
<1> QED BY <1>1, <1>3, <1>4 DEF C!StringCopiedRight

-----------------------------------------------------------------------------
(* Strings                                                                 *)

Succ == [k \in Nat |-> k + 1]

\* A loop over a string, or over two at once.
Scans(f, Stop, V) == f = [k \in Nat |-> IF k \in Stop THEN V[k] ELSE f[k + 1]]

\* A scan is a loop that takes one place after the other.
LEMMA ScanLoops ==
  ASSUME NEW Stop, NEW V, NEW f
  PROVE  Scans(f, Stop, V) <=> Loops(f, Nat, Stop, V, Succ)
<1>1. \A k \in Nat : Succ[k] = k + 1
  BY DEF Succ
<1>2. [k \in Nat |-> IF k \in Stop THEN V[k] ELSE f[k + 1]]
        = [k \in Nat |-> IF k \in Stop THEN V[k] ELSE f[Succ[k]]]
  BY <1>1
<1> QED BY <1>2, Zenon DEF Scans, Loops

\* Every scan has a result for every place it may start at.
LEMMA ScanExists ==
  ASSUME NEW Stop \in SUBSET Nat, NEW V
  PROVE  \E f : Scans(f, Stop, V)
<1>1. Succ \in [Nat -> Nat]
  BY DEF Succ
<1>2. PICK f : Loops(f, Nat, Stop, V, Succ)
  BY <1>1, LoopExists
<1> QED BY <1>2, ScanLoops

\* Its result is that of the first place where it stops.
LEMMA ScanIs ==
  ASSUME NEW Stop \in SUBSET Nat, NEW V, NEW f, Scans(f, Stop, V),
         NEW a \in Nat, NEW b \in Stop, a <= b, \A k \in a..(b - 1) : k \notin Stop
  PROVE  f[a] = V[b]
<1> DEFINE n == b - a
           w == [k \in 0..n |-> a + k]
<1>1. n \in Nat /\ a + n = b
  OBVIOUS
<1>2. w[0] = a /\ w[n] = b
  BY <1>1
<1>3. w \in [0..n -> Nat]
  OBVIOUS
<1>4. ASSUME NEW k \in 0..(n - 1)
      PROVE  w[k] \notin Stop /\ w[k + 1] = Succ[w[k]]
  <2>1. k \in 0..n /\ k + 1 \in 0..n /\ a + k \in a..(b - 1) /\ a + k \in Nat
    BY <1>1
  <2>2. w[k] = a + k /\ w[k + 1] = a + (k + 1)
    BY <2>1
  <2>3. a + (k + 1) = (a + k) + 1 /\ Succ[a + k] = (a + k) + 1
    BY <2>1 DEF Succ
  <2> HIDE DEF w
  <2> QED BY <2>1, <2>2, <2>3
<1> HIDE DEF w, n
<1>5. Path(w, n, Nat, Stop, Succ)
  BY <1>2, <1>3, <1>4 DEF Path
<1>6. f[w[0]] = V[w[n]]
  BY <1>1, <1>5, ScanLoops, LoopIs
<1> QED BY <1>2, <1>6

\* A string of n characters and the 0 behind them.
String(s, n) ==
  Long(s, n + 1) /\ s[n + 1] = 0 /\ \A k \in 1..n : s[k] \in Int /\ s[k] # 0

\* A string of n characters has a 0 behind them.
LEMMA StringAt ==
  ASSUME NEW n \in Nat, NEW s, String(s, n)
  PROVE  Len(s) = n + 1 /\ DOMAIN s = 1..(n + 1) /\ \A k \in 1..(n + 1) : s[k] \in Int
<1>1. n + 1 \in Nat /\ Long(s, n + 1)
  BY DEF String
<1> DEFINE m == n + 1
<1>2. m \in Nat /\ Long(s, m)
  BY <1>1
<1> HIDE DEF m
<1>3. Len(s) = m /\ DOMAIN s = 1..m
  BY <1>2, LongLen
<1>4. \A k \in 1..(n + 1) : s[k] \in Int
  BY DEF String
<1> QED BY <1>3, <1>4 DEF m

\* strlen counts the characters before the 0.
LEMMA StrlenIs ==
  ASSUME NEW n \in Nat, NEW s, String(s, n)
  PROVE  C!strlen(s) = n
<1> DEFINE Stop == {k \in Nat : s[k] = 0}
           V == [k \in Nat |-> k - 1]
           Is(f) == f = [k \in Nat |-> IF s[k] = 0 THEN k - 1 ELSE f[k + 1]]
           g == CHOOSE f : Is(f)
<1>1. \A f : Is(f) <=> Scans(f, Stop, V)
  BY DEF Scans
<1>2. Stop \in SUBSET Nat
  OBVIOUS
<1>3. C!strlen(s) = g[1]
  BY DEF C!strlen
<1>4. n + 1 \in Stop /\ 1 <= n + 1 /\ V[n + 1] = n /\ \A k \in 1..((n + 1) - 1) : k \notin Stop
  BY DEF String
<1> HIDE DEF Is, Stop, V
<1>5. Is(g)
  BY <1>1, <1>2, ScanExists
<1> HIDE DEF g
<1>6. Scans(g, Stop, V)
  BY <1>1, <1>5
<1>7. g[1] = V[n + 1]
  BY <1>2, <1>4, <1>6, ScanIs
<1> QED BY <1>3, <1>4, <1>7

\* Where strings of m and n characters differ within their first b bytes.
Differ(s, t, b) == {k \in 1..b : k \in DOMAIN s /\ k \in DOMAIN t /\ s[k] # t[k]}

\* s and t are the same before k and have not ended.
SameUpto(s, t, k) == \A j \in 1..(k - 1) : s[j] = t[j] /\ s[j] # 0

\* The first k bytes of s and t end the comparison of b bytes with a difference.
Apart(s, t, m, n, b, k) ==
  /\ k \in 1..b /\ k <= m + 1 /\ k <= n + 1 /\ s[k] # t[k]
  /\ SameUpto(s, t, k)

\* They end it without one.
Together(s, t, m, n, b, k) ==
  /\ k \in 1..b /\ k <= m + 1 /\ k <= n + 1 /\ s[k] = t[k]
  /\ k = b \/ k = m + 1
  /\ SameUpto(s, t, k)

\* The order of two strings is that of their first difference.
LEMMA OrderIs ==
  ASSUME NEW s, NEW t, NEW b \in Nat, NEW k \in Differ(s, t, b), \A j \in Differ(s, t, b) : k <= j
  PROVE  C!Order(s, t, b) = C!Sign(s[k] - t[k])
<1> DEFINE d == CHOOSE i \in Differ(s, t, b) : \A j \in Differ(s, t, b) : i <= j
<1>1. \A i \in Differ(s, t, b) : i \in Int
  BY DEF Differ
<1>2. d \in Differ(s, t, b) /\ \A j \in Differ(s, t, b) : d <= j
  OBVIOUS
<1>3. d = k
  <2> HIDE DEF d
  <2>1. d <= k /\ k <= d /\ d \in Int /\ k \in Int
    BY <1>1, <1>2
  <2> QED BY <2>1
<1>4. C!Order(s, t, b) = IF Differ(s, t, b) = {} THEN 0 ELSE C!Sign(s[d] - t[d])
  BY Zenon DEF C!Order, Differ
<1> QED BY <1>3, <1>4

\* Strings without a difference are equal.
LEMMA OrderNone ==
  ASSUME NEW s, NEW t, NEW b \in Nat, Differ(s, t, b) = {}
  PROVE  C!Order(s, t, b) = 0
BY DEF C!Order, Differ

\* A comparison ends at the first difference or at an end.
LEMMA Compared ==
  ASSUME NEW m \in Nat, NEW n \in Nat, NEW s, NEW t, String(s, m), String(t, n),
         NEW b \in Nat \ {0}
  PROVE  \/ \E k : Apart(s, t, m, n, b, k) /\ C!Order(s, t, b) = C!Sign(s[k] - t[k])
         \/ \E k : Together(s, t, m, n, b, k) /\ C!Order(s, t, b) = 0
<1> DEFINE T == Differ(s, t, b)
<1>1. DOMAIN s = 1..(m + 1) /\ DOMAIN t = 1..(n + 1)
  BY StringAt
<1>2. /\ s[m + 1] = 0 /\ \A k \in 1..m : s[k] # 0
      /\ t[n + 1] = 0 /\ \A k \in 1..n : t[k] # 0
  BY DEF String
<1>3. T = {k \in 1..b : k <= m + 1 /\ k <= n + 1 /\ s[k] # t[k]}
  BY <1>1 DEF Differ
<1>4. CASE T # {}
  <2>1. T \in SUBSET Nat
    BY <1>3
  <2> HIDE DEF T
  <2>2. PICK k \in T : \A j \in T : k <= j
    BY <1>4, <2>1, LeastElement
  <2>3. k \in 1..b /\ k <= m + 1 /\ k <= n + 1 /\ s[k] # t[k]
    BY <1>3
  <2>4. ASSUME NEW j \in 1..(k - 1)
        PROVE  s[j] = t[j] /\ s[j] # 0
    <3>1. j \notin T /\ j \in 1..b /\ j <= m /\ j <= n
      BY <2>2, <2>3
    <3> QED BY <1>2, <1>3, <3>1
  <2>5. Apart(s, t, m, n, b, k)
    BY <2>3, <2>4 DEF Apart, SameUpto
  <2>6. C!Order(s, t, b) = C!Sign(s[k] - t[k])
    BY <2>2, OrderIs DEF T
  <2> QED BY <2>5, <2>6
<1>5. CASE T = {}
  <2> DEFINE k == IF b <= m + 1 THEN b ELSE m + 1
  <2>1. k \in 1..b /\ k <= m + 1 /\ (k = b \/ k = m + 1)
    OBVIOUS
  <2> HIDE DEF k, T
  <2>2. k <= n + 1
    <3>1. SUFFICES ASSUME k > n + 1 PROVE FALSE
      BY <2>1
    <3>2. n + 1 \in 1..m /\ n + 1 \in 1..b
      BY <2>1, <3>1
    <3>3. n + 1 \in T
      BY <1>2, <1>3, <3>2
    <3> QED BY <1>5, <3>3
  <2>3. ASSUME NEW j \in 1..k
        PROVE  s[j] = t[j]
    <3>1. j \in 1..b /\ j <= m + 1 /\ j <= n + 1
      BY <2>1, <2>2
    <3> QED BY <1>3, <1>5, <3>1
  <2>4. \A j \in 1..(k - 1) : j \in 1..k /\ j \in 1..m
    BY <2>1
  <2>5. Together(s, t, m, n, b, k)
    BY <1>2, <2>1, <2>2, <2>3, <2>4 DEF Together, SameUpto
  <2>6. C!Order(s, t, b) = 0
    BY <1>5, OrderNone DEF T
  <2> QED BY <2>5, <2>6
<1> QED BY <1>4, <1>5

\* The two results of a comparison that stops at k.
Verdict(s, t) == [k \in Nat |-> IF s[k] # t[k] THEN s[k] - t[k] ELSE 0]

\* strcmp tells the order of two strings.
LEMMA StrcmpIs ==
  ASSUME NEW m \in Nat, NEW n \in Nat, NEW s, NEW t, String(s, m), String(t, n)
  PROVE  C!Sign(C!strcmp(s, t)) = C!Order(s, t, Len(s))
<1> DEFINE Stop == {k \in Nat : s[k] # t[k] \/ s[k] = 0}
           V == Verdict(s, t)
           Is(f) == f = [k \in Nat |-> IF s[k] # t[k] THEN s[k] - t[k]
                                       ELSE IF s[k] = 0 THEN 0 ELSE f[k + 1]]
           g == CHOOSE f : Is(f)
           b == m + 1
<1>1. ASSUME NEW f
      PROVE  Is(f) <=> Scans(f, Stop, V)
  <2>1. \A k \in Nat : (IF s[k] # t[k] THEN s[k] - t[k] ELSE IF s[k] = 0 THEN 0 ELSE f[k + 1])
                         = IF k \in Stop THEN V[k] ELSE f[k + 1]
    BY DEF Verdict
  <2>2. [k \in Nat |-> IF s[k] # t[k] THEN s[k] - t[k] ELSE IF s[k] = 0 THEN 0 ELSE f[k + 1]]
          = [k \in Nat |-> IF k \in Stop THEN V[k] ELSE f[k + 1]]
    BY <2>1
  <2> QED BY <2>2, Zenon DEF Scans
<1>2. Stop \in SUBSET Nat
  OBVIOUS
<1>3. C!strcmp(s, t) = g[1]
  BY DEF C!strcmp
<1>4. \A k \in Nat : (k \in Stop <=> s[k] # t[k] \/ s[k] = 0)
  OBVIOUS
<1> HIDE DEF Is, Stop
<1>5. Is(g)
  BY <1>1, <1>2, ScanExists
<1> HIDE DEF g
<1>6. Scans(g, Stop, V)
  BY <1>1, <1>5
<1>7. b \in Nat \ {0} /\ Len(s) = b /\ s[b] = 0
  BY StringAt DEF String
<1>8. ASSUME NEW k, k \in 1..b, k \in Stop, SameUpto(s, t, k)
      PROVE  g[1] = V[k]
  <2>1. \A j \in 1..(k - 1) : j \notin Stop
    BY <1>4, <1>8 DEF SameUpto
  <2> QED BY <1>2, <1>6, <1>8, <2>1, ScanIs
<1> HIDE DEF b
<1>9. CASE \E k : Apart(s, t, m, n, b, k) /\ C!Order(s, t, b) = C!Sign(s[k] - t[k])
  <2>1. PICK k : Apart(s, t, m, n, b, k) /\ C!Order(s, t, b) = C!Sign(s[k] - t[k])
    BY <1>9
  <2>2. k \in 1..b /\ k \in Nat /\ s[k] # t[k] /\ SameUpto(s, t, k)
    BY <1>7, <2>1 DEF Apart
  <2>3. g[1] = s[k] - t[k]
    BY <1>4, <1>8, <2>2 DEF Verdict
  <2> QED BY <1>3, <1>7, <2>1, <2>3
<1>10. CASE \E k : Together(s, t, m, n, b, k) /\ C!Order(s, t, b) = 0
  <2>1. PICK k : Together(s, t, m, n, b, k) /\ C!Order(s, t, b) = 0
    BY <1>10
  <2>2. k \in 1..b /\ k \in Nat /\ s[k] = t[k] /\ SameUpto(s, t, k) /\ k = b
    BY <1>7, <2>1 DEF Together, b
  <2>3. g[1] = 0
    BY <1>4, <1>7, <1>8, <2>2 DEF Verdict
  <2> QED BY <1>3, <1>7, <2>1, <2>3 DEF C!Sign
<1> QED BY <1>7, <1>9, <1>10, Compared

\* strncmp tells the order of the first b characters.
LEMMA StrncmpIs ==
  ASSUME NEW m \in Nat, NEW n \in Nat, NEW s, NEW t, String(s, m), String(t, n), NEW b \in Nat
  PROVE  C!Sign(C!strncmp(s, t, b)) = C!Order(s, t, b)
<1> DEFINE Stop == {k \in Nat : s[k] # t[k] \/ s[k] = 0 \/ k = b}
           V == Verdict(s, t)
           Is(f) == f = [k \in Nat |-> IF s[k] # t[k] THEN s[k] - t[k]
                                       ELSE IF s[k] = 0 \/ k = b THEN 0 ELSE f[k + 1]]
           g == CHOOSE f : Is(f)
<1>1. ASSUME NEW f
      PROVE  Is(f) <=> Scans(f, Stop, V)
  <2>1. \A k \in Nat : (IF s[k] # t[k] THEN s[k] - t[k]
                        ELSE IF s[k] = 0 \/ k = b THEN 0 ELSE f[k + 1])
                         = IF k \in Stop THEN V[k] ELSE f[k + 1]
    BY DEF Verdict
  <2>2. [k \in Nat |-> IF s[k] # t[k] THEN s[k] - t[k]
                       ELSE IF s[k] = 0 \/ k = b THEN 0 ELSE f[k + 1]]
          = [k \in Nat |-> IF k \in Stop THEN V[k] ELSE f[k + 1]]
    BY <2>1
  <2> QED BY <2>2, Zenon DEF Scans
<1>2. Stop \in SUBSET Nat
  OBVIOUS
<1>3. C!strncmp(s, t, b) = IF b = 0 THEN 0 ELSE g[1]
  BY DEF C!strncmp
<1>4. \A k \in Nat : (k \in Stop <=> s[k] # t[k] \/ s[k] = 0 \/ k = b)
  OBVIOUS
<1> HIDE DEF Is, Stop
<1>5. Is(g)
  BY <1>1, <1>2, ScanExists
<1> HIDE DEF g
<1>6. Scans(g, Stop, V)
  BY <1>1, <1>5
<1>7. CASE b = 0
  <2>1. Differ(s, t, b) = {}
    BY <1>7 DEF Differ
  <2>2. C!Order(s, t, b) = 0
    BY <2>1, OrderNone
  <2> QED BY <1>3, <1>7, <2>2 DEF C!Sign
<1>8. ASSUME NEW k, k \in 1..b, k \in Stop, SameUpto(s, t, k)
      PROVE  g[1] = V[k]
  <2>1. \A j \in 1..(k - 1) : j \notin Stop
    BY <1>4, <1>8 DEF SameUpto
  <2>2. 1 \in Nat /\ 1 <= k
    BY <1>8
  <2> HIDE DEF V
  <2> QED BY <1>2, <1>6, <1>8, <2>1, <2>2, ScanIs
<1>9. CASE b # 0 /\ \E k : Apart(s, t, m, n, b, k) /\ C!Order(s, t, b) = C!Sign(s[k] - t[k])
  <2>1. PICK k : Apart(s, t, m, n, b, k) /\ C!Order(s, t, b) = C!Sign(s[k] - t[k])
    BY <1>9
  <2>2. k \in 1..b /\ k \in Nat /\ s[k] # t[k] /\ SameUpto(s, t, k)
    BY <2>1 DEF Apart
  <2>3. g[1] = s[k] - t[k]
    BY <1>4, <1>8, <2>2 DEF Verdict
  <2> QED BY <1>3, <1>9, <2>1, <2>3
<1>10. CASE b # 0 /\ \E k : Together(s, t, m, n, b, k) /\ C!Order(s, t, b) = 0
  <2>1. PICK k : Together(s, t, m, n, b, k) /\ C!Order(s, t, b) = 0
    BY <1>10
  <2>2. k \in 1..b /\ k \in Nat /\ s[k] = t[k] /\ SameUpto(s, t, k) /\ (k = b \/ s[k] = 0)
    BY <2>1 DEF Together, String
  <2>3. g[1] = 0
    BY <1>4, <1>8, <2>2 DEF Verdict
  <2> QED BY <1>3, <1>10, <2>1, <2>3 DEF C!Sign
<1>11. CASE b # 0
  <2>1. b \in Nat \ {0}
    BY <1>11
  <2> QED BY <1>9, <1>10, <1>11, <2>1, Compared
<1> QED BY <1>7, <1>11

\* memcmp tells whether the string t of n characters occurs at a place i of s.
LEMMA MemcmpIs ==
  ASSUME NEW m \in Nat, NEW n \in Nat, NEW s, NEW t, String(s, m), String(t, n), NEW i \in 1..m
  PROVE  C!memcmp(s, i, t, n) = 0 <=> C!Occurs(s, t, i)
<1> DEFINE Stop == {k \in Nat : k = n \/ s[i + k] # t[k + 1]}
           V == [k \in Nat |-> IF k = n THEN 0 ELSE s[i + k] - t[k + 1]]
           Is(f) == f = [k \in Nat |-> IF k = n THEN 0
                                       ELSE IF s[i + k] # t[k + 1] THEN s[i + k] - t[k + 1]
                                       ELSE f[k + 1]]
           g == CHOOSE f : Is(f)
<1>1. ASSUME NEW f
      PROVE  Is(f) <=> Scans(f, Stop, V)
  <2>1. \A k \in Nat : (IF k = n THEN 0
                        ELSE IF s[i + k] # t[k + 1] THEN s[i + k] - t[k + 1] ELSE f[k + 1])
                         = IF k \in Stop THEN V[k] ELSE f[k + 1]
    OBVIOUS
  <2>2. [k \in Nat |-> IF k = n THEN 0
                       ELSE IF s[i + k] # t[k + 1] THEN s[i + k] - t[k + 1] ELSE f[k + 1]]
          = [k \in Nat |-> IF k \in Stop THEN V[k] ELSE f[k + 1]]
    BY <2>1
  <2> QED BY <2>2, Zenon DEF Scans
<1>2. Stop \in SUBSET Nat
  OBVIOUS
<1>3. C!memcmp(s, i, t, n) = g[0]
  BY DEF C!memcmp
<1>4. \A k \in Nat : /\ k \in Stop <=> k = n \/ s[i + k] # t[k + 1]
                     /\ V[k] = IF k = n THEN 0 ELSE s[i + k] - t[k + 1]
  OBVIOUS
<1> HIDE DEF Is, Stop, V
<1>5. Is(g)
  BY <1>1, <1>2, ScanExists
<1> HIDE DEF g
<1>6. Scans(g, Stop, V)
  BY <1>1, <1>5
<1>7. ASSUME NEW e \in Stop, \A k \in 0..(e - 1) : k \notin Stop
       PROVE  g[0] = V[e]
  <2>1. 0 \in Nat /\ e \in Nat /\ 0 <= e
    BY <1>2
  <2> QED BY <1>2, <1>6, <1>7, <2>1, ScanIs
<1>8. DOMAIN s = 1..(m + 1) /\ Len(t) - 1 = n
  BY StringAt
<1>9. /\ s[m + 1] = 0 /\ t[n + 1] = 0
      /\ \A k \in 1..n : t[k] # 0
  BY DEF String
<1>10. (\A k \in 1..(m + 1) : s[k] \in Int) /\ (\A k \in 1..(n + 1) : t[k] \in Int)
  BY StringAt
<1>11. C!Occurs(s, t, i) <=> \A j \in 1..n : i + j - 1 <= m + 1 /\ s[i + j - 1] = t[j]
  <2>1. \A j \in 1..n : (i + j - 1 \in DOMAIN s <=> i + j - 1 <= m + 1)
    BY <1>8
  <2> QED BY <1>8, <2>1 DEF C!Occurs
<1>12. CASE C!Occurs(s, t, i)
  <2>1. ASSUME NEW k \in 0..(n - 1)
        PROVE  k \notin Stop
    <3>1. k + 1 \in 1..n /\ i + (k + 1) - 1 = i + k
      OBVIOUS
    <3>2. s[i + k] = t[k + 1]
      BY <1>11, <1>12, <3>1
    <3> QED BY <1>4, <3>2
  <2>2. n \in Stop /\ V[n] = 0
    BY <1>4
  <2>3. g[0] = V[n]
    BY <1>7, <2>1, <2>2
  <2> QED BY <1>3, <1>12, <2>2, <2>3
<1>13. CASE ~C!Occurs(s, t, i)
  <2> DEFINE T == {k \in Nat : k < n /\ ~(i + k <= m + 1 /\ s[i + k] = t[k + 1])}
  <2>1. PICK j \in 1..n : ~(i + j - 1 <= m + 1 /\ s[i + j - 1] = t[j])
    BY <1>11, <1>13
  <2>2. j - 1 \in Nat /\ j - 1 < n /\ i + (j - 1) = i + j - 1 /\ (j - 1) + 1 = j
    OBVIOUS
  <2>3. j - 1 \in T
    BY <2>1, <2>2
  <2>4. PICK k \in T : \A l \in T : k <= l
    BY <2>3, LeastElement
  <2>5. k \in Nat /\ k < n /\ ~(i + k <= m + 1 /\ s[i + k] = t[k + 1])
    BY <2>4
  <2>6. ASSUME NEW l \in 0..(k - 1)
        PROVE  i + l <= m + 1 /\ s[i + l] = t[l + 1]
    <3>1. l \in Nat /\ l < n /\ l \notin T
      BY <2>4, <2>5
    <3> QED BY <3>1
  <2> HIDE DEF T
  <2>7. i + k <= m + 1
    <3>1. SUFFICES ASSUME i + k > m + 1 PROVE FALSE
      BY <2>5
    <3> DEFINE l == (m + 1) - i
    <3>2. l \in 0..(k - 1) /\ i + l = m + 1 /\ l + 1 \in 1..n
      BY <2>5, <3>1
    <3> HIDE DEF l
    <3>3. s[m + 1] = t[l + 1]
      BY <2>6, <3>2
    <3> QED BY <1>9, <3>2, <3>3
  <2>8. s[i + k] # t[k + 1] /\ i + k \in 1..(m + 1) /\ k + 1 \in 1..(n + 1) /\ k # n
    BY <2>5, <2>7
  <2>9. k \in Stop /\ \A l \in 0..(k - 1) : l \notin Stop
    BY <1>4, <2>5, <2>6, <2>8
  <2>10. g[0] = V[k]
    BY <1>7, <2>9
  <2>11. V[k] = s[i + k] - t[k + 1]
    BY <1>4, <2>5, <2>8
  <2>12. s[i + k] \in Int /\ t[k + 1] \in Int
    BY <1>10, <2>8
  <2>13. s[i + k] - t[k + 1] # 0
    BY <2>8, <2>12
  <2> QED BY <1>3, <1>13, <2>10, <2>11, <2>13
<1> QED BY <1>12, <1>13

\* strstr finds the first occurrence, if there is one.
LEMMA StrstrIs ==
  ASSUME NEW m \in Nat, NEW n \in Nat, NEW s, NEW t, String(s, m), String(t, n)
  PROVE  LET r == C!strstr(s, t)
         IN \/ r = 0 /\ \A k \in 1..m : ~C!Occurs(s, t, k)
            \/ r \in 1..m /\ C!Occurs(s, t, r) /\ \A k \in 1..(r - 1) : ~C!Occurs(s, t, k)
<1> DEFINE l == C!strlen(t)
           Stop == {k \in Nat : s[k] = 0 \/ C!memcmp(s, k, t, l) = 0}
           V == [k \in Nat |-> IF s[k] = 0 THEN 0 ELSE k]
           Is(f) == f = [k \in Nat |-> IF s[k] = 0 THEN 0
                                       ELSE IF C!memcmp(s, k, t, l) = 0 THEN k ELSE f[k + 1]]
           g == CHOOSE f : Is(f)
<1>1. ASSUME NEW f
      PROVE  Is(f) <=> Scans(f, Stop, V)
  <2> HIDE DEF l
  <2>1. \A k \in Nat : (IF s[k] = 0 THEN 0
                        ELSE IF C!memcmp(s, k, t, l) = 0 THEN k ELSE f[k + 1])
                         = IF k \in Stop THEN V[k] ELSE f[k + 1]
    OBVIOUS
  <2>2. [k \in Nat |-> IF s[k] = 0 THEN 0
                       ELSE IF C!memcmp(s, k, t, l) = 0 THEN k ELSE f[k + 1]]
          = [k \in Nat |-> IF k \in Stop THEN V[k] ELSE f[k + 1]]
    BY <2>1
  <2> QED BY <2>2, Zenon DEF Scans
<1>2. Stop \in SUBSET Nat
  OBVIOUS
<1>3. C!strstr(s, t) = g[1]
  BY DEF C!strstr
<1>4. l = n
  BY StrlenIs
<1>5. \A k \in Nat : /\ k \in Stop <=> s[k] = 0 \/ C!memcmp(s, k, t, n) = 0
                     /\ V[k] = IF s[k] = 0 THEN 0 ELSE k
  BY <1>4
<1> HIDE DEF Is, Stop, V, l
<1>6. Is(g)
  BY <1>1, <1>2, ScanExists
<1> HIDE DEF g
<1>7. Scans(g, Stop, V)
  BY <1>1, <1>6
<1>8. s[m + 1] = 0 /\ \A k \in 1..m : s[k] # 0
  BY DEF String
<1>9. \A k \in 1..m : (k \in Stop <=> C!Occurs(s, t, k)) /\ V[k] = k
  BY <1>5, <1>8, MemcmpIs
<1>10. CASE \A k \in 1..m : ~C!Occurs(s, t, k)
  <2>1. m + 1 \in Stop /\ V[m + 1] = 0
    BY <1>5, <1>8
  <2>2. \A k \in 1..((m + 1) - 1) : k \notin Stop
    BY <1>9, <1>10
  <2>3. 1 \in Nat /\ 1 <= m + 1
    OBVIOUS
  <2>4. g[1] = V[m + 1]
    BY <1>2, <1>7, <2>1, <2>2, <2>3, ScanIs
  <2> QED BY <1>3, <1>10, <2>1, <2>4
<1>11. ASSUME NEW i \in 1..m, C!Occurs(s, t, i)
       PROVE  \E r \in 1..m : /\ g[1] = r /\ C!Occurs(s, t, r)
                              /\ \A k \in 1..(r - 1) : ~C!Occurs(s, t, k)
  <2> DEFINE T == {k \in Nat : k \in 1..m /\ C!Occurs(s, t, k)}
  <2>1. i \in T
    BY <1>11
  <2>2. PICK r \in T : \A k \in T : r <= k
    BY <2>1, LeastElement
  <2>3. r \in 1..m /\ C!Occurs(s, t, r)
    BY <2>2
  <2>4. ASSUME NEW k \in 1..(r - 1)
        PROVE  ~C!Occurs(s, t, k)
    <3>1. k \in Nat /\ k \in 1..m /\ k \notin T
      BY <2>2, <2>3
    <3> QED BY <3>1
  <2> HIDE DEF T
  <2>5. r \in Stop /\ V[r] = r
    BY <1>9, <2>3
  <2>6. \A k \in 1..(r - 1) : k \notin Stop
    BY <1>9, <2>3, <2>4
  <2>7. 1 \in Nat /\ 1 <= r
    BY <2>3
  <2>8. g[1] = V[r]
    BY <1>2, <1>7, <2>5, <2>6, <2>7, ScanIs
  <2> QED BY <2>3, <2>4, <2>5, <2>8
<1> QED BY <1>3, <1>10, <1>11

\* Strings are measured, compared and searched as they should be.
THEOREM StringsAreRight ==
  ASSUME NEW m \in Nat, NEW n \in Nat, NEW s, NEW t, String(s, m), String(t, n), NEW b \in Nat
  PROVE  C!ComparesRight(s, t, b)
<1>1. C!strlen(s) = Len(s) - 1
  <2>1. Len(s) = m + 1
    BY StringAt
  <2> QED BY <2>1, StrlenIs
<1>2. C!Sign(C!strcmp(s, t)) = C!Order(s, t, Len(s))
  BY StrcmpIs
<1>3. C!Sign(C!strncmp(s, t, b)) = C!Order(s, t, b)
  BY StrncmpIs
<1> DEFINE r == C!strstr(s, t)
<1>4. IF r = 0 THEN \A k \in 1..(Len(s) - 1) : ~C!Occurs(s, t, k)
      ELSE C!Occurs(s, t, r) /\ \A k \in 1..(r - 1) : ~C!Occurs(s, t, k)
  <2>1. \/ r = 0 /\ \A k \in 1..m : ~C!Occurs(s, t, k)
        \/ r \in 1..m /\ C!Occurs(s, t, r) /\ \A k \in 1..(r - 1) : ~C!Occurs(s, t, k)
    BY StrstrIs
  <2> HIDE DEF r
  <2>2. Len(s) - 1 = m
    BY StringAt
  <2> QED BY <2>1, <2>2
<1> QED BY <1>1, <1>2, <1>3, <1>4 DEF C!ComparesRight

-----------------------------------------------------------------------------
(* The memory and the strings of the behaviours                            *)

\* The strings of the behaviours end with their only 0.
LEMMA StringsAre ==
  ASSUME NEW s \in Strings
  PROVE  \E n \in Nat : String(s, n)
<1>1. PICK n \in 0..3 : \E r \in [1..n -> {1, 255}] : s = Append(r, 0)
  BY DEF Strings
<1>2. PICK r \in [1..n -> {1, 255}] : s = Append(r, 0)
  BY <1>1
<1> DEFINE m == n + 1
<1>3. r \in Seq({1, 255}) /\ Len(r) = n
  OBVIOUS
<1>4. /\ DOMAIN Append(r, 0) = 1..m /\ Append(r, 0)[m] = 0
      /\ \A k \in 1..n : Append(r, 0)[k] = r[k]
  BY <1>3
<1>5. \A k \in 1..n : r[k] \in Int /\ r[k] # 0
  BY <1>3
<1>6. Append(r, 0) = [k \in 1..m |-> Append(r, 0)[k]]
  <2> DEFINE a == Append(r, 0)
  <2>1. a \in Seq({0, 1, 255}) /\ Len(a) = m
    BY <1>3
  <2> HIDE DEF a, m
  <2>2. a = [k \in 1..m |-> a[k]]
    BY <2>1
  <2> QED BY <2>2 DEF a
<1> HIDE DEF m
<1>7. Long(s, m)
  BY <1>2, <1>6 DEF Long
<1>8. s[m] = 0 /\ \A k \in 1..n : s[k] = r[k]
  BY <1>2, <1>4
<1>9. String(s, n)
  BY <1>5, <1>7, <1>8 DEF String, m
<1> QED BY <1>9

\* The memory of the behaviours: a 0 follows wherever a copy starts.
LEMMA MemoryIs ==
  LET mem == <<1, 2, 3, 0, 4, 5, 6, 0, 7, 8, 0, 0>>
  IN /\ Long(mem, 12)
     /\ \A from \in 1..5 : \E n \in 0..3 :
          mem[from + n] = 0 /\ \A j \in 0..(n - 1) : mem[from + j] # 0
<1> DEFINE mem == <<1, 2, 3, 0, 4, 5, 6, 0, 7, 8, 0, 0>>
<1>1. DOMAIN mem = 1..12 /\ mem \in [1..12 -> Nat]
  OBVIOUS
<1>2. /\ mem[1] = 1 /\ mem[2] = 2 /\ mem[3] = 3 /\ mem[4] = 0
      /\ mem[5] = 4 /\ mem[6] = 5 /\ mem[7] = 6 /\ mem[8] = 0
  OBVIOUS
<1> HIDE DEF mem
<1>3. Long(mem, 12)
  BY <1>1 DEF Long
<1>4. ASSUME NEW from \in 1..5
      PROVE  \E n \in 0..3 :
          mem[from + n] = 0 /\ \A j \in 0..(n - 1) : mem[from + j] # 0
  <2> DEFINE n == IF from = 5 THEN 3 ELSE 4 - from
  <2>1. n \in 0..3 /\ (from + n = 4 \/ from + n = 8)
    OBVIOUS
  <2>2. ASSUME NEW j \in 0..(n - 1)
        PROVE  from + j \in {1, 2, 3, 5, 6, 7}
    OBVIOUS
  <2> HIDE DEF n
  <2>3. mem[from + n] = 0
    BY <1>2, <2>1
  <2>4. \A k \in {1, 2, 3, 5, 6, 7} : mem[k] # 0
    BY <1>2
  <2> QED BY <2>1, <2>2, <2>3, <2>4
<1> QED BY <1>3, <1>4 DEF mem

\* What the inputs of each kind are.
LEMMA CopiesAre ==
  ASSUME NEW c
  PROVE  /\ c \in Comparisons => c.a \in Strings /\ c.b \in Strings /\ c.n \in 0..4
         /\ c \in Copies => c.to \in 1..5 /\ c.from \in 1..5 /\ c.n \in 0..4
         /\ c \in Pokes => c.address \in 1..4 /\ c.size \in 0..9
<1>1. c \in Comparisons => c.a \in Strings /\ c.b \in Strings /\ c.n \in 0..4
  BY DEF Comparisons
<1>2. c \in Copies => c.to \in 1..5 /\ c.from \in 1..5 /\ c.n \in 0..4
  BY DEF Copies
<1>3. c \in Pokes => c.address \in 1..4 /\ c.size \in 0..9
  BY DEF Pokes
<1> QED BY <1>1, <1>2, <1>3

\* So are the strings and the memory of every call of a behaviour of MCLibrary.
THEOREM MemoryRight == MCSpec => []MemoryIsRight
<1>1. input \in Calls \cup {[kind |-> "none"]} => MemoryIsRight
  <2> SUFFICES ASSUME input \in Calls \cup {[kind |-> "none"]} PROVE MemoryIsRight
    OBVIOUS
  <2> DEFINE mem == <<1, 2, 3, 0, 4, 5, 6, 0, 7, 8, 0, 0>>
             sent == [i \in 1..12 |-> 100 + i]
  <2>1. Long(mem, 12) /\ \A from \in 1..5 : \E n \in 0..3 :
          mem[from + n] = 0 /\ \A j \in 0..(n - 1) : mem[from + j] # 0
    BY MemoryIs
  <2>2. Long(sent, 12)
    BY DEF Long
  <2> HIDE DEF mem, sent
  <2>3. ASSUME input.kind = "strings"
        PROVE  C!ComparesRight(input.a, input.b, input.n)
    <3>1. input \in Comparisons
      BY <2>3, CallsAre
    <3>2. input.a \in Strings /\ input.b \in Strings /\ input.n \in 0..4
      BY <3>1, CopiesAre
    <3>3. input.n \in Nat
      BY <3>2
    <3>4. PICK m \in Nat : String(input.a, m)
      BY <3>2, StringsAre
    <3>5. PICK n \in Nat : String(input.b, n)
      BY <3>2, StringsAre
    <3> QED BY <3>4, <3>5, <3>3, StringsAreRight
  <2>4. ASSUME input.kind = "memory"
        PROVE  /\ C!CopiesRight(mem, input.to, input.from, input.n)
               /\ C!StringCopiedRight(mem, input.to, input.from)
    <3> DEFINE to == input.to
               from == input.from
               n == input.n
    <3>1. to \in 1..5 /\ from \in 1..5 /\ n \in 0..4
      BY <2>4, CallsAre, CopiesAre
    <3> HIDE DEF to, from, n
    <3>2. to \in Nat \ {0} /\ from \in Nat \ {0} /\ n \in Nat /\ 12 \in Nat
            /\ to + n <= 12 + 1 /\ from + n <= 12 + 1
      BY <3>1
    <3>3. C!CopiesRight(mem, to, from, n)
      BY <2>1, <3>2, CopyIsRight
    <3>4. PICK k \in 0..3 : mem[from + k] = 0 /\ \A j \in 0..(k - 1) : mem[from + j] # 0
      BY <2>1, <3>1
    <3>5. k \in Nat /\ to + k <= 12 /\ from + k <= 12
      BY <3>1
    <3>6. C!StringCopiedRight(mem, to, from)
      BY <2>1, <3>2, <3>4, <3>5, StringCopyIsRight
    <3> QED BY <3>3, <3>6 DEF to, from, n
  <2>5. ASSUME input.kind = "poke"
        PROVE  M!WritesRight(mem, input.address, input.size, sent)
    <3> DEFINE address == input.address
               size == input.size
               d == M!Dwords(M!Rounded(size))
    <3>1. address \in 1..4 /\ size \in 0..9
      BY <2>5, CallsAre, CopiesAre
    <3> HIDE DEF address, size
    <3>2. address \in Nat \ {0} /\ size \in Nat /\ address + size <= 12 + 1 /\ 12 \in Nat
      BY <3>1
    <3>3. d \in Nat /\ 4 * d - size \in 0..3
      BY <3>2, DwordsAre
    <3> HIDE DEF d
    <3>4. 4 * d <= 12
      BY <3>1, <3>3
    <3>5. 4 * M!Dwords(M!Rounded(size)) <= 12
      BY <3>4 DEF d
    <3>6. M!WritesRight(mem, address, size, sent)
      BY <2>1, <2>2, <3>2, <3>5, WriteIsRight
    <3> QED BY <3>6 DEF address, size
  <2> QED BY <2>3, <2>4, <2>5, Zenon DEF MemoryIsRight, mem, sent
<1> QED BY <1>1, InputStays, PTL

-----------------------------------------------------------------------------
(* The search through the boot ROM                                         *)

\* The first i halfwords of the pattern are in the ROM from o on.
Hits(rom, o, pattern, i) == \A l \in 1..i : Q!Halfword(rom, o + l - 1) = pattern[l]

Status(matched, broke, found) == [matched |-> matched, broke |-> broke, found |-> found]
Statuses == [matched : Int, broke : BOOLEAN, found : Int]

\* A status is what its fields are.
LEMMA StatusIs ==
  ASSUME NEW i \in Int, NEW b \in BOOLEAN, NEW x \in Int
  PROVE  LET s == Status(i, b, x)
         IN s \in Statuses /\ s.matched = i /\ s.broke = b /\ s.found = x
BY DEF Statuses, Status

\* It is the only one with these fields.
LEMMA SameStatus ==
  ASSUME NEW i \in Int, NEW b \in BOOLEAN, NEW x \in Int,
         NEW t \in Statuses, t.matched = i, t.broke = b, t.found = x
  PROVE  t = Status(i, b, x)
<1> DEFINE s == Status(i, b, x)
<1>1. s \in Statuses /\ s.matched = i /\ s.broke = b /\ s.found = x
  BY StatusIs
<1> HIDE DEF s
<1>2. t = s
  BY <1>1 DEF Statuses
<1> QED BY <1>2 DEF s

\* Its fields change in three ways.
LEMMA StatusChanges ==
  ASSUME NEW s \in Statuses, NEW j \in Int
  PROVE  /\ [s EXCEPT !.matched = j] = Status(j, s.broke, s.found)
         /\ [s EXCEPT !.broke = FALSE] = Status(s.matched, FALSE, s.found)
         /\ [s EXCEPT !.matched = j, !.broke = TRUE] = Status(j, TRUE, s.found)
         /\ [s EXCEPT !.broke = TRUE, !.found = j] = Status(s.matched, TRUE, j)
<1>1. [s EXCEPT !.matched = j] = Status(j, s.broke, s.found)
  <2> DEFINE t == [s EXCEPT !.matched = j]
  <2>1. t \in Statuses /\ t.matched = j /\ t.broke = s.broke /\ t.found = s.found
    BY DEF Statuses
  <2>2. s.matched \in Int /\ s.broke \in BOOLEAN /\ s.found \in Int
    BY DEF Statuses
  <2> HIDE DEF t
  <2>3. t = Status(j, s.broke, s.found)
    BY <2>1, <2>2, SameStatus
  <2> QED BY <2>3, Zenon DEF t
<1>2. [s EXCEPT !.broke = FALSE] = Status(s.matched, FALSE, s.found)
  <2> DEFINE t == [s EXCEPT !.broke = FALSE]
  <2>1. t \in Statuses /\ t.matched = s.matched /\ t.broke = FALSE /\ t.found = s.found
    BY DEF Statuses
  <2>2. s.matched \in Int /\ s.broke \in BOOLEAN /\ s.found \in Int
    BY DEF Statuses
  <2> HIDE DEF t
  <2>3. t = Status(s.matched, FALSE, s.found)
    BY ZenonT(30), <2>1, <2>2, SameStatus
  <2> QED BY <2>3, Zenon DEF t
<1>3. [s EXCEPT !.matched = j, !.broke = TRUE] = Status(j, TRUE, s.found)
  <2> DEFINE t == [s EXCEPT !.matched = j, !.broke = TRUE]
  <2>1. t \in Statuses /\ t.matched = j /\ t.broke = TRUE /\ t.found = s.found
    BY DEF Statuses
  <2>2. s.matched \in Int /\ s.broke \in BOOLEAN /\ s.found \in Int
    BY DEF Statuses
  <2> HIDE DEF t
  <2>3. t = Status(j, TRUE, s.found)
    BY <2>1, <2>2, SameStatus
  <2> QED BY <2>3, Zenon DEF t
<1>4. [s EXCEPT !.broke = TRUE, !.found = j] = Status(s.matched, TRUE, j)
  <2> DEFINE t == [s EXCEPT !.broke = TRUE, !.found = j]
  <2>1. t \in Statuses /\ t.matched = s.matched /\ t.broke = TRUE /\ t.found = j
    BY DEF Statuses
  <2>2. s.matched \in Int /\ s.broke \in BOOLEAN /\ s.found \in Int
    BY DEF Statuses
  <2> HIDE DEF t
  <2>3. t = Status(s.matched, TRUE, j)
    BY <2>1, <2>2, SameStatus
  <2> QED BY <2>3, Zenon DEF t
<1> QED BY <1>1, <1>2, <1>3, <1>4, Zenon

\* What the inner loop knows after its i-th turn, m being the length of the pattern.
Looked(rom, o, pattern, m, i) ==
  IF ~Hits(rom, o, pattern, IF i < m THEN i ELSE m) THEN Status(0, TRUE, 0)
  ELSE IF i < m THEN Status(i, FALSE, 0)
  ELSE Status(m - 1, TRUE, o)

\* One turn of the inner loop.
LEMMA LookedNext ==
  ASSUME NEW rom, NEW pattern, NEW m \in Nat \ {0}, Len(pattern) = m, NEW o \in Nat \ {0},
         NEW i \in Nat \ {0}
  PROVE  Looked(rom, o, pattern, m, i)
           = Q!Compare(rom, pattern, o, Looked(rom, o, pattern, m, i - 1), i)
<1> DEFINE before == Looked(rom, o, pattern, m, i - 1)
           hit == Q!Halfword(rom, o + i - 1) = pattern[i]
<1>1. CASE i > m
  <2>1. ~(i < m) /\ ~(i - 1 < m)
    BY <1>1
  <2>2. Looked(rom, o, pattern, m, i) = before /\ before.broke
    BY <2>1 DEF Looked, Status
  <2> HIDE DEF before
  <2>3. Q!Compare(rom, pattern, o, before, i) = before
    BY <2>2 DEF Q!Compare
  <2> QED BY <2>2, <2>3 DEF before
<1>2. CASE i <= m
  <2>1. i - 1 < m /\ (IF i < m THEN i ELSE m) = i /\ i - 1 \in Nat /\ i \in 1..i
    BY <1>2
  <2>2. Hits(rom, o, pattern, i) <=> Hits(rom, o, pattern, i - 1) /\ hit
    <3>1. \A l : l \in 1..i <=> l \in 1..(i - 1) \/ l = i
      OBVIOUS
    <3> QED BY <3>1 DEF Hits
  <2>3. before = IF Hits(rom, o, pattern, i - 1) THEN Status(i - 1, FALSE, 0)
                 ELSE Status(0, TRUE, 0)
    BY <2>1 DEF Looked
  <2>4. Looked(rom, o, pattern, m, i)
          = IF ~Hits(rom, o, pattern, i) THEN Status(0, TRUE, 0)
            ELSE IF i < m THEN Status(i, FALSE, 0)
            ELSE Status(m - 1, TRUE, o)
    BY <2>1 DEF Looked
  <2> HIDE DEF before
  <2>5. /\ i \in Int /\ i - 1 \in Int /\ 0 \in Int /\ o \in Int
        /\ TRUE \in BOOLEAN /\ FALSE \in BOOLEAN
    OBVIOUS
  <2>6. CASE ~Hits(rom, o, pattern, i - 1)
    <3>1. before = Status(0, TRUE, 0) /\ before.broke
      BY <2>3, <2>6 DEF Status
    <3>2. Q!Compare(rom, pattern, o, before, i) = before
      BY <3>1 DEF Q!Compare
    <3> QED BY <2>2, <2>4, <2>6, <3>1, <3>2 DEF before
  <2>7. CASE Hits(rom, o, pattern, i - 1) /\ ~hit
    <3>1. before = Status(i - 1, FALSE, 0)
      BY <2>3, <2>7
    <3>2. before \in Statuses /\ ~before.broke /\ before.found = 0
      BY <3>1 DEF Statuses, Status
    <3>3. [before EXCEPT !.matched = 0, !.broke = TRUE] = Status(0, TRUE, 0)
      BY <2>5, <3>2, StatusChanges, Zenon
    <3>4. Q!Compare(rom, pattern, o, before, i) = Status(0, TRUE, 0)
      BY <2>7, <3>3, <3>2, Zenon DEF Q!Compare
    <3> QED BY <2>2, <2>4, <2>7, <3>4 DEF before
  <2>8. CASE Hits(rom, o, pattern, i - 1) /\ hit
    <3>1. before = Status(i - 1, FALSE, 0)
      BY <2>3, <2>8
    <3>2. /\ before \in Statuses /\ ~before.broke
          /\ before.matched = i - 1 /\ before.found = 0
      BY <3>1 DEF Statuses, Status
    <3>3. /\ before \in Statuses /\ ~before.broke /\ before.broke = FALSE
          /\ before.matched = i - 1 /\ before.found = 0
      BY <3>2 DEF Statuses
    <3>4. CASE i = m
      <4>1. i - 1 = m - 1
        BY <3>4
      <4>2. [before EXCEPT !.broke = TRUE, !.found = o] = Status(before.matched, TRUE, o)
        BY <2>5, <3>3, StatusChanges, Zenon
      <4>3. [before EXCEPT !.broke = TRUE, !.found = o] = Status(m - 1, TRUE, o)
        BY <3>3, <4>1, <4>2, Zenon
      <4>4. before.matched + 1 = Len(pattern)
        BY <3>3, <3>4
      <4>5. Q!Compare(rom, pattern, o, before, i) = Status(m - 1, TRUE, o)
        BY <2>8, <3>3, <4>3, <4>4, Zenon DEF Q!Compare
      <4>6. ~(i < m)
        BY <3>4
      <4> QED BY <2>2, <2>4, <2>8, <4>5, <4>6, Zenon DEF before
    <3>5. CASE i # m
      <4>1. [before EXCEPT !.matched = i] = Status(i, FALSE, 0)
        BY <2>5, <3>3, StatusChanges, Zenon
      <4>2. before.matched + 1 = i
        BY <3>3
      <4>3. [before EXCEPT !.matched = @ + 1] = Status(i, FALSE, 0)
        BY <4>1, <4>2, Zenon
      <4>4. before.matched + 1 # Len(pattern)
        BY <3>3, <3>5
      <4>5. Q!Compare(rom, pattern, o, before, i) = Status(i, FALSE, 0)
        BY <2>8, <3>3, <4>3, <4>4, Zenon DEF Q!Compare
      <4>6. i < m
        BY <1>2, <3>5
      <4> QED BY <2>2, <2>4, <2>8, <4>5, <4>6 DEF before
    <3> QED BY <3>4, <3>5
  <2> QED BY <2>6, <2>7, <2>8
<1> QED BY <1>1, <1>2

\* The inner loop finds the pattern at o or it does not.
LEMMA ComparedIs ==
  ASSUME NEW rom, NEW pattern, NEW m \in Nat \ {0}, Len(pattern) = m, NEW o \in Nat \ {0},
         NEW b \in BOOLEAN
  PROVE  Q!Compared(rom, pattern, o, Status(0, b, 0))[Len(pattern)]
           = IF Q!At(rom, o, pattern) THEN Status(m - 1, TRUE, o) ELSE Status(0, TRUE, 0)
<1> DEFINE base == [Status(0, b, 0) EXCEPT !.broke = FALSE]
           Solves(f) == f = [i \in Nat |-> IF i = 0 THEN base
                                           ELSE Q!Compare(rom, pattern, o, f[i - 1], i)]
           h == [i \in Nat |-> Looked(rom, o, pattern, m, i)]
           g == CHOOSE f : Solves(f)
<1>1. base = Status(0, FALSE, 0)
  <2> DEFINE s == Status(0, b, 0)
  <2>1. s \in Statuses /\ s.matched = 0 /\ s.found = 0 /\ 0 \in Int
    BY StatusIs
  <2> HIDE DEF s
  <2>2. [s EXCEPT !.broke = FALSE] = Status(0, FALSE, 0)
    BY <2>1, StatusChanges, Zenon
  <2> QED BY <2>2, Zenon DEF s
<1>2. h[0] = base
  <2>1. Looked(rom, o, pattern, m, 0) = Status(0, FALSE, 0)
    <3>1. Hits(rom, o, pattern, 0) /\ 0 < m
      BY DEF Hits
    <3> QED BY <3>1, Zenon DEF Looked
  <2> QED BY <1>1, <2>1
<1>3. Q!Compared(rom, pattern, o, Status(0, b, 0)) = g
  BY DEF Q!Compared
<1> HIDE DEF base
<1>4. \A i \in Nat \ {0} : h[i] = Q!Compare(rom, pattern, o, h[i - 1], i)
  <2> SUFFICES ASSUME NEW i \in Nat \ {0} PROVE h[i] = Q!Compare(rom, pattern, o, h[i - 1], i)
    OBVIOUS
  <2>1. i \in Nat /\ i - 1 \in Nat
    OBVIOUS
  <2>2. h[i] = Looked(rom, o, pattern, m, i) /\ h[i - 1] = Looked(rom, o, pattern, m, i - 1)
    BY <2>1
  <2> HIDE DEF h
  <2> QED BY <2>2, LookedNext
<1>5. h = [i \in Nat |-> h[i]]
  OBVIOUS
<1>6. h[m] = IF Q!At(rom, o, pattern) THEN Status(m - 1, TRUE, o) ELSE Status(0, TRUE, 0)
  <2>1. h[m] = Looked(rom, o, pattern, m, m) /\ ~(m < m)
    OBVIOUS
  <2>2. Hits(rom, o, pattern, m) <=> Q!At(rom, o, pattern)
    BY DEF Hits, Q!At
  <2> QED BY <2>1, <2>2 DEF Looked
<1> HIDE DEF h
<1>7. Solves(h)
  BY <1>2, <1>4, <1>5
<1>8. Solves(g)
  BY <1>7
<1> HIDE DEF g
<1>9. g[0] = base /\ \A i \in Nat \ {0} : g[i] = Q!Compare(rom, pattern, o, g[i - 1], i)
  BY <1>8
<1> HIDE DEF Solves
<1> DEFINE T == {i \in Nat : g[i] # h[i]}
<1>10. T = {}
  <2> SUFFICES ASSUME NEW t \in T PROVE FALSE
    OBVIOUS
  <2>1. PICK i \in T : \A j \in T : i <= j
    BY LeastElement
  <2>2. i \in Nat \ {0}
    BY <1>2, <1>9, <2>1
  <2>3. i - 1 \in Nat /\ i - 1 \notin T
    BY <2>1, <2>2
  <2>4. g[i - 1] = h[i - 1]
    BY <2>3
  <2> QED BY <1>4, <1>9, <2>1, <2>2, <2>4
<1>11. g[m] = h[m]
  BY <1>10
<1> QED BY <1>3, <1>6, <1>11

\* Where the pattern begins among the first k places from a on.
Sought(rom, a, pattern, k) == {o \in a..(a + k - 1) : Q!At(rom, o, pattern)}

LeastOf(T) == CHOOSE x \in T : \A y \in T : x <= y

\* What the outer loop knows after its k-th turn, m being the length of the pattern.
Known(rom, a, pattern, m, k) ==
  IF Sought(rom, a, pattern, k) = {} THEN Status(0, k # 0, 0)
  ELSE Status(m - 1, TRUE, LeastOf(Sought(rom, a, pattern, k)))

\* The least of a set is in it.
LEMMA LeastIs ==
  ASSUME NEW T \in SUBSET Nat, T # {}
  PROVE  /\ LeastOf(T) \in T /\ \A y \in T : LeastOf(T) <= y
         /\ \A x \in T : (\A y \in T : x <= y) => x = LeastOf(T)
<1>1. PICK t : t \in T
  OBVIOUS
<1>2. \E x \in T : \A y \in T : x <= y
  BY <1>1, LeastElement
<1>3. LeastOf(T) \in T /\ \A y \in T : LeastOf(T) <= y
  BY <1>2 DEF LeastOf
<1>4. ASSUME NEW x \in T, \A y \in T : x <= y
      PROVE  x = LeastOf(T)
  <2>1. x <= LeastOf(T) /\ LeastOf(T) <= x /\ x \in Nat /\ LeastOf(T) \in Nat
    BY <1>3, <1>4
  <2> QED BY <2>1
<1> QED BY <1>3, <1>4

\* One turn of the outer loop.
LEMMA KnownNext ==
  ASSUME NEW rom, NEW pattern, NEW m \in Nat \ {0}, Len(pattern) = m, NEW a \in Nat \ {0},
         NEW k \in Nat \ {0}
  PROVE  LET s == Known(rom, a, pattern, m, k - 1)
         IN Known(rom, a, pattern, m, k)
              = IF s.found # 0 THEN s
                ELSE Q!Compared(rom, pattern, a + k - 1, s)[Len(pattern)]
<1> DEFINE s == Known(rom, a, pattern, m, k - 1)
           o == a + k - 1
           T == Sought(rom, a, pattern, k - 1)
           U == Sought(rom, a, pattern, k)
<1>1. /\ o \in Nat \ {0} /\ k - 1 \in Nat /\ m - 1 \in Int /\ k # 0
      /\ \A x : x \in a..o <=> x \in a..(a + (k - 1) - 1) \/ x = o
      /\ \A x \in a..(a + (k - 1) - 1) : x < o /\ x # 0
  OBVIOUS
<1>2. T \in SUBSET Nat /\ U \in SUBSET Nat
  BY DEF Sought
<1>3. U = IF Q!At(rom, o, pattern) THEN T \cup {o} ELSE T
  BY <1>1 DEF Sought
<1>4. \A x \in T : x < o /\ x # 0
  BY <1>1 DEF Sought
<1>5. s = IF T = {} THEN Status(0, k - 1 # 0, 0) ELSE Status(m - 1, TRUE, LeastOf(T))
  BY DEF Known
<1>6. Known(rom, a, pattern, m, k) = IF U = {} THEN Status(0, TRUE, 0)
                                     ELSE Status(m - 1, TRUE, LeastOf(U))
  BY <1>1 DEF Known
<1> HIDE DEF s, o, T, U
<1>7. CASE T # {}
  <2>1. LeastOf(T) \in T /\ \A y \in T : LeastOf(T) <= y
    BY <1>2, <1>7, LeastIs
  <2>2. LeastOf(T) \in Nat /\ LeastOf(T) # 0 /\ LeastOf(T) < o
    BY <1>2, <1>4, <2>1
  <2>3. LeastOf(T) \in U
    BY <1>3, <2>1
  <2>4. ASSUME NEW y \in U
        PROVE  LeastOf(T) <= y
    <3>1. y \in T \/ y = o
      BY <1>3
    <3> QED BY <1>1, <2>2, <2>1, <3>1
  <2>5. LeastOf(U) = LeastOf(T)
    BY <1>2, <2>4, <2>3, LeastIs
  <2>6. s = Status(m - 1, TRUE, LeastOf(T))
    BY <1>5, <1>7
  <2>7. s.found = LeastOf(T)
    BY <2>6 DEF Status
  <2>8. U # {}
    BY <2>3
  <2>9. Known(rom, a, pattern, m, k) = s
    BY <1>6, <2>5, <2>6, <2>8, Zenon
  <2>10. s.found # 0
    BY <2>2, <2>7
  <2> QED BY <2>9, <2>10, Zenon DEF s
<1>8. CASE T = {}
  <2> DEFINE b == k - 1 # 0
  <2>1. s = Status(0, b, 0) /\ b \in BOOLEAN
    BY <1>5, <1>8
  <2> HIDE DEF b
  <2>2. s.found = 0
    BY <2>1 DEF Status
  <2>3. Q!Compared(rom, pattern, o, s)[Len(pattern)]
          = IF Q!At(rom, o, pattern) THEN Status(m - 1, TRUE, o) ELSE Status(0, TRUE, 0)
    BY <1>1, <2>1, ComparedIs
  <2>4. CASE Q!At(rom, o, pattern)
    <3>1. U = {o}
      BY <1>3, <1>8, <2>4
    <3>2. LeastOf(U) = o
      BY <1>2, <3>1, LeastIs
    <3> QED BY <1>6, <2>2, <2>3, <2>4, <3>1, <3>2 DEF s, o
  <2>5. CASE ~Q!At(rom, o, pattern)
    <3>1. U = {}
      BY <1>3, <1>8, <2>5
    <3> QED BY <1>6, <2>2, <2>3, <2>5, <3>1 DEF s, o
  <2> QED BY <2>4, <2>5
<1> QED BY <1>7, <1>8

\* The outer loop, after each turn.
LEMMA SearchedIs ==
  ASSUME NEW rom, NEW pattern, NEW m \in Nat \ {0}, Len(pattern) = m, NEW a \in Nat \ {0},
         NEW n \in Nat
  PROVE  Q!Searched(rom, a, pattern)[n] = Known(rom, a, pattern, m, n)
<1> DEFINE base == [matched |-> 0, broke |-> FALSE, found |-> 0]
           Turned(s, k) == IF s.found # 0 THEN s
                           ELSE Q!Compared(rom, pattern, a + k - 1, s)[Len(pattern)]
           Solves(f) == f = [k \in Nat |-> IF k = 0 THEN base ELSE Turned(f[k - 1], k)]
           h == [k \in Nat |-> Known(rom, a, pattern, m, k)]
           g == CHOOSE f : Solves(f)
<1>1. h[0] = base
  <2>1. Sought(rom, a, pattern, 0) = {}
    BY DEF Sought
  <2>2. Known(rom, a, pattern, m, 0) = Status(0, FALSE, 0)
    BY <2>1 DEF Known
  <2> QED BY <2>2 DEF Status
<1>2. Q!Searched(rom, a, pattern) = g
  BY DEF Q!Searched
<1> HIDE DEF base
<1>3. \A k \in Nat \ {0} : h[k] = Turned(h[k - 1], k)
  <2> SUFFICES ASSUME NEW k \in Nat \ {0} PROVE h[k] = Turned(h[k - 1], k)
    OBVIOUS
  <2>1. k \in Nat /\ k - 1 \in Nat
    OBVIOUS
  <2>2. h[k] = Known(rom, a, pattern, m, k) /\ h[k - 1] = Known(rom, a, pattern, m, k - 1)
    BY <2>1
  <2> HIDE DEF h
  <2> QED BY <2>2, KnownNext
<1>4. h = [k \in Nat |-> h[k]]
  OBVIOUS
<1>5. h[n] = Known(rom, a, pattern, m, n)
  OBVIOUS
<1> HIDE DEF h, Turned
<1>6. Solves(h)
  BY <1>1, <1>3, <1>4
<1>7. Solves(g)
  BY <1>6
<1> HIDE DEF g
<1>8. g[0] = base /\ \A k \in Nat \ {0} : g[k] = Turned(g[k - 1], k)
  BY <1>7
<1> HIDE DEF Solves
<1> DEFINE T == {k \in Nat : g[k] # h[k]}
<1>9. T = {}
  <2> SUFFICES ASSUME NEW t \in T PROVE FALSE
    OBVIOUS
  <2>1. PICK k \in T : \A j \in T : k <= j
    BY LeastElement
  <2>2. k \in Nat \ {0}
    BY <1>1, <1>8, <2>1
  <2>3. k - 1 \in Nat /\ k - 1 \notin T
    BY <2>1, <2>2
  <2>4. g[k - 1] = h[k - 1]
    BY <2>3
  <2> QED BY <1>3, <1>8, <2>1, <2>2, <2>4
<1> QED BY <1>2, <1>5, <1>9

\* searchfunc finds the first place of the pattern in its range, if there is one.
THEOREM SearchIsRight ==
  ASSUME NEW rom, NEW pattern, Len(pattern) \in Nat \ {0}, NEW a \in Nat \ {0}, NEW b \in Nat,
         a <= b
  PROVE  LET r == Q!searchfunc(rom, a, b, pattern)
         IN \/ r = 0 /\ \A o \in a..(b - 1) : ~Q!At(rom, o, pattern)
            \/ /\ r \in a..(b - 1) /\ Q!At(rom, r, pattern)
               /\ \A o \in a..(r - 1) : ~Q!At(rom, o, pattern)
<1> DEFINE m == Len(pattern)
           k == b - a
           T == Sought(rom, a, pattern, k)
           r == Q!searchfunc(rom, a, b, pattern)
<1>1. k \in Nat /\ a + k - 1 = b - 1
  OBVIOUS
<1>2. r = Q!Searched(rom, a, pattern)[k].found
  BY DEF Q!searchfunc
<1>3. T \in SUBSET Nat /\ \A o : o \in T <=> o \in a..(b - 1) /\ Q!At(rom, o, pattern)
  BY <1>1 DEF Sought
<1> HIDE DEF k, r
<1>4. r = Known(rom, a, pattern, m, k).found
  BY <1>1, <1>2, SearchedIs
<1>5. r = IF T = {} THEN 0 ELSE LeastOf(T)
  BY <1>4 DEF Known, Status
<1> HIDE DEF T
<1>6. CASE T = {}
  BY <1>3, <1>5, <1>6 DEF r
<1>7. CASE T # {}
  <2>1. r \in T /\ \A y \in T : r <= y
    BY <1>3, <1>5, <1>7, LeastIs
  <2>2. \A o \in a..(r - 1) : o \in Nat /\ r \in Nat /\ ~(r <= o)
    BY <1>3, <2>1
  <2>3. \A o \in a..(r - 1) : o \notin T /\ o \in a..(b - 1)
    BY <1>3, <2>1, <2>2
  <2> QED BY <1>3, <2>1, <2>3 DEF r
<1> QED BY <1>6, <1>7

\* A ROM is longer than the vectors before the offset where the search starts.
Image(rom) == Len(rom) \in Nat /\ Len(rom) >= 2 /\ DOMAIN rom = 1..Len(rom)

\* No pattern is empty.
LEMMA PatternsAre ==
  /\ Len(Q!Uartb) \in Nat \ {0} /\ Len(Q!Wdts) \in Nat \ {0} /\ Len(Q!Sur1a) \in Nat \ {0}
  /\ Len(Q!Sur1b) \in Nat \ {0} /\ Len(Q!Sur2) \in Nat \ {0} /\ Len(Q!Sur3) \in Nat \ {0}
  /\ Len(Q!Sdd) \in Nat \ {0} /\ Len(Q!Rcd2) \in Nat \ {0}
  /\ Q!Sur2[1] = "2400" /\ Q!Sur3[1] = "2400"
BY DEF Q!Uartb, Q!Wdts, Q!Sur1a, Q!Sur1b, Q!Sur2, Q!Sur3, Q!Sdd, Q!Rcd2

\* A search of the whole ROM finds the first place of the pattern.
LEMMA SearchIs ==
  ASSUME NEW rom, Image(rom), NEW pattern, Len(pattern) \in Nat \ {0}
  PROVE  LET r == Q!Search(rom, pattern)
         IN /\ r = 0 \/ (r \in 3..Len(rom) /\ Q!At(rom, r, pattern))
            /\ r = 0 <=> Q!Places(rom, pattern) = {}
            /\ Q!IsFirst(rom, r, Q!Places(rom, pattern))
<1> DEFINE n == Len(rom)
           r == Q!Search(rom, pattern)
           T == Q!Places(rom, pattern)
<1>1. n \in Nat /\ 3 <= n + 1 /\ (n + 1) - 1 = n /\ 3 \in Nat \ {0} /\ n + 1 \in Nat
  BY DEF Image
<1>2. r = Q!searchfunc(rom, 3, n + 1, pattern)
  BY DEF Q!Search, Q!Start
<1>3. \A o : o \in T <=> o \in 3..n /\ Q!At(rom, o, pattern)
  BY DEF Q!Places, Q!Start
<1> HIDE DEF n, r, T
<1>4. \/ r = 0 /\ \A o \in 3..((n + 1) - 1) : ~Q!At(rom, o, pattern)
      \/ /\ r \in 3..((n + 1) - 1) /\ Q!At(rom, r, pattern)
         /\ \A o \in 3..(r - 1) : ~Q!At(rom, o, pattern)
  BY <1>1, <1>2, SearchIsRight
<1>5. \/ r = 0 /\ \A o \in 3..n : o \notin T
      \/ r \in 3..n /\ r \in T /\ Q!At(rom, r, pattern) /\ \A o \in 3..(r - 1) : o \notin T
  BY <1>1, <1>3, <1>4
<1>6. r = 0 <=> T = {}
  BY <1>1, <1>3, <1>5
<1>7. Q!IsFirst(rom, r, T)
  <2>1. r \in 3..n => r # 0
    BY <1>1
  <2>2. n = Len(rom)
    BY DEF n
  <2>3. CASE r = 0
    BY <1>1, <1>5, <2>1, <2>2, <2>3 DEF Q!IsFirst, Q!Start
  <2>4. CASE r # 0
    BY <1>5, <2>4 DEF Q!IsFirst, Q!Start
  <2> QED BY <2>3, <2>4
<1>8. r = 0 \/ (r \in 3..n /\ Q!At(rom, r, pattern))
  BY <1>5, Zenon
<1> QED BY <1>6, <1>7, <1>8, Zenon DEF r, T, n

\* What is taken for send_usb_response is one, and none is found only if there is none.
LEMMA ResponseIs ==
  ASSUME NEW rom, Image(rom)
  PROVE  LET r == Q!SendUsbResponse(rom)
         IN /\ r # 0 => Q!IsResponse(rom, r)
            /\ r = 0 => \A o \in 3..Len(rom) : Q!At(rom, o, Q!Sur1a) \/ ~Q!IsResponse(rom, o)
<1> DEFINE n == Len(rom)
           begin == Q!Search(rom, Q!Sur1a)
           second == Q!Search(rom, Q!Sur2)
           third == Q!Search(rom, Q!Sur3)
           follows == Q!searchfunc(rom, begin + 3, begin + 6, Q!Sur1b)
           r == Q!SendUsbResponse(rom)
<1>1. n \in Nat /\ DOMAIN rom = 1..n
  BY DEF Image
<1>2. begin = 0 \/ (begin \in 3..n /\ Q!At(rom, begin, Q!Sur1a))
  BY PatternsAre, SearchIs
<1>3. /\ second = 0 \/ (second \in 3..n /\ Q!At(rom, second, Q!Sur2))
      /\ second = 0 <=> Q!Places(rom, Q!Sur2) = {}
  BY PatternsAre, SearchIs
<1>4. /\ third = 0 \/ (third \in 3..n /\ Q!At(rom, third, Q!Sur3))
      /\ third = 0 <=> Q!Places(rom, Q!Sur3) = {}
  BY PatternsAre, SearchIs
<1>5. r = IF begin # 0 /\ follows = begin + 3 THEN begin
          ELSE IF second # 0 THEN second - 1
          ELSE IF third # 0 THEN third - 2
          ELSE 0
  BY DEF Q!SendUsbResponse
<1> HIDE DEF begin, second, third, r
<1>6. CASE begin # 0 /\ follows = begin + 3
  <2>1. begin \in 3..n
    BY <1>2, <1>6
  <2>2. begin + 3 \in Nat \ {0} /\ begin + 6 \in Nat /\ begin + 3 <= begin + 6
        /\ begin + 3 # 0
    BY <1>1, <2>1
  <2>3. follows = 0 \/ Q!At(rom, follows, Q!Sur1b)
    BY <2>2, PatternsAre, SearchIsRight
  <2>4. Q!At(rom, begin + 3, Q!Sur1b)
    BY <1>6, <2>2, <2>3
  <2>5. r = begin
    BY <1>5, <1>6
  <2> QED BY <1>2, <1>6, <2>4, <2>5 DEF Q!IsResponse, r
<1> HIDE DEF follows
<1>7. CASE ~(begin # 0 /\ follows = begin + 3) /\ second # 0
  <2>1. second \in 3..n /\ Q!At(rom, second, Q!Sur2) /\ r = second - 1
    BY <1>3, <1>5, <1>7
  <2>2. (second - 1) + 1 = second /\ second - 1 # 0
    BY <1>1, <2>1
  <2> QED BY <2>1, <2>2 DEF Q!IsResponse, r
<1>8. CASE ~(begin # 0 /\ follows = begin + 3) /\ second = 0 /\ third # 0
  <2>1. third \in 3..n /\ Q!At(rom, third, Q!Sur3) /\ r = third - 2
    BY <1>4, <1>5, <1>8
  <2>2. (third - 2) + 2 = third /\ third - 2 # 0
    BY <1>1, <2>1
  <2> QED BY <2>1, <2>2 DEF Q!IsResponse, r
<1>9. CASE ~(begin # 0 /\ follows = begin + 3) /\ second = 0 /\ third = 0
  <2>1. r = 0
    BY <1>5, <1>9
  <2>2. ASSUME NEW pattern \in {Q!Sur2, Q!Sur3}, NEW o \in Nat, o >= 3
        PROVE  ~Q!At(rom, o, pattern)
    <3>1. 1 \in 1..Len(pattern) /\ pattern[1] = "2400" /\ o + 1 - 1 = o
      BY PatternsAre
    <3>2. CASE o \in 3..n
      BY <1>3, <1>4, <1>9, <3>2 DEF Q!Places, Q!Start
    <3>3. CASE o \notin 3..n
      <4>1. o \notin DOMAIN rom
        BY <1>1, <2>2, <3>3
      <4>2. Q!Halfword(rom, o) = "beyond"
        BY <4>1 DEF Q!Halfword
      <4>3. Q!At(rom, o, pattern) => Q!Halfword(rom, o + 1 - 1) = pattern[1]
        BY <3>1 DEF Q!At
      <4> QED BY <3>1, <4>2, <4>3
    <3> QED BY <3>2, <3>3
  <2>3. ASSUME NEW o \in 3..n, Q!IsResponse(rom, o)
        PROVE  Q!At(rom, o, Q!Sur1a)
    <3>1. o + 1 \in Nat /\ o + 1 >= 3 /\ o + 2 \in Nat /\ o + 2 >= 3
      BY <1>1
    <3>2. ~Q!At(rom, o + 1, Q!Sur2) /\ ~Q!At(rom, o + 2, Q!Sur3)
      BY <2>2, <3>1
    <3> QED BY <2>3, <3>2 DEF Q!IsResponse
  <2> QED BY <2>1, <2>3 DEF r
<1> QED BY <1>6, <1>7, <1>8, <1>9

\* The first place from x on that rom has of usbdl_get_data is f[x], or there is none.
FirstFrom(rom, x, y) ==
  \/ y = 0 /\ \A o \in x..Len(rom) : ~Q!IsGetData(rom, o)
  \/ /\ y \in x..Len(rom) /\ Q!IsGetData(rom, y)
     /\ \A o \in x..(y - 1) : ~Q!IsGetData(rom, o)

\* Every place of rcd2 is looked at in turn until one is followed by the bytes.
LEMMA GetDataIs ==
  ASSUME NEW rom, Image(rom)
  PROVE  FirstFrom(rom, 3, Q!GetData(rom))
<1> DEFINE n == Len(rom)
           X == 3..(n + 1)
           at(x) == Q!searchfunc(rom, x, n + 1, Q!Rcd2)
           Marked(o) == Q!Halfword(rom, o + 3) = "46xx" /\ Q!Halfword(rom, o + 4) = "xx92"
           Stop == {x \in X : at(x) = 0 \/ Marked(at(x))}
           V == [x \in X |-> at(x)]
           Step == [x \in X |-> IF x \in Stop THEN x ELSE at(x) + 1]
           Solves(f) == f = [x \in X |-> IF at(x) = 0 THEN 0
                                         ELSE IF Marked(at(x)) THEN at(x)
                                         ELSE f[at(x) + 1]]
           g == CHOOSE f : Solves(f)
<1>1. n \in Nat /\ n >= 2 /\ 3 \in X
  BY DEF Image
<1>2. ASSUME NEW x \in X
      PROVE  \/ at(x) = 0 /\ \A o \in x..n : ~Q!At(rom, o, Q!Rcd2)
             \/ /\ at(x) \in x..n /\ Q!At(rom, at(x), Q!Rcd2)
                /\ \A o \in x..(at(x) - 1) : ~Q!At(rom, o, Q!Rcd2)
  <2>1. x \in Nat \ {0} /\ n + 1 \in Nat /\ x <= n + 1 /\ (n + 1) - 1 = n
    BY <1>1
  <2> QED BY <2>1, PatternsAre, SearchIsRight
<1>3. Q!GetData(rom) = g[3]
  BY DEF Q!GetData, Q!Start
<1> HIDE DEF at, Marked
<1>4. Stop \in SUBSET X
  OBVIOUS
<1>5. ASSUME NEW x \in X, x \notin Stop
      PROVE  at(x) \in x..n /\ at(x) + 1 \in X
  <2>1. at(x) # 0
    BY <1>5
  <2> QED BY <1>1, <1>2, <2>1
<1>6. Step \in [X -> X]
  BY <1>5
<1>7. ASSUME NEW f
      PROVE  Solves(f) <=> Loops(f, X, Stop, V, Step)
  <2>1. \A x \in X : (IF at(x) = 0 THEN 0 ELSE IF Marked(at(x)) THEN at(x) ELSE f[at(x) + 1])
                       = IF x \in Stop THEN V[x] ELSE f[Step[x]]
    OBVIOUS
  <2>2. [x \in X |-> IF at(x) = 0 THEN 0 ELSE IF Marked(at(x)) THEN at(x) ELSE f[at(x) + 1]]
          = [x \in X |-> IF x \in Stop THEN V[x] ELSE f[Step[x]]]
    BY <2>1
  <2> HIDE DEF Stop, V, Step
  <2> QED BY <2>2, Zenon DEF Loops
<1>8. \E f : Loops(f, X, Stop, V, Step)
  <2> HIDE DEF X, Stop, V, Step
  <2> QED BY <1>4, <1>6, LoopExists
<1>9. Solves(g)
  <2> HIDE DEF X, Stop, V, Step, Solves
  <2> QED BY <1>7, <1>8
<1> HIDE DEF g
<1>10. \A x \in X : g[x] = IF at(x) = 0 THEN 0 ELSE IF Marked(at(x)) THEN at(x) ELSE g[at(x) + 1]
  BY <1>9
<1> HIDE DEF Solves, Stop, V, Step
<1>11. \A o : Q!IsGetData(rom, o) <=> Q!At(rom, o, Q!Rcd2) /\ Marked(o)
  BY DEF Q!IsGetData, Marked
<1> DEFINE T == {d \in Nat : d <= n + 1 /\ n + 1 - d \in X
                             /\ ~FirstFrom(rom, n + 1 - d, g[n + 1 - d])}
<1>12. T = {}
  <2> SUFFICES ASSUME NEW t \in T PROVE FALSE
    OBVIOUS
  <2>1. PICK d \in T : \A e \in T : d <= e
    BY LeastElement
  <2> DEFINE x == n + 1 - d
             place == at(x)
  <2>2. d \in Nat /\ x \in X /\ x \in Nat /\ ~FirstFrom(rom, x, g[x]) /\ d = n + 1 - x
    BY <1>1, <2>1
  <2> HIDE DEF T, x
  <2>3. CASE place = 0
    <3>1. g[x] = 0
      BY <1>10, <2>2, <2>3
    <3>2. \A o \in x..n : ~Q!At(rom, o, Q!Rcd2)
      <4>1. \A o : o \in x..n => o # 0
        BY <2>2
      <4> QED BY <1>2, <2>2, <2>3, <4>1
    <3> QED BY <1>11, <2>2, <3>1, <3>2 DEF FirstFrom
  <2>4. CASE place # 0
    <3>1. /\ place \in x..n /\ Q!At(rom, place, Q!Rcd2)
          /\ \A o \in x..(place - 1) : ~Q!At(rom, o, Q!Rcd2)
      BY <1>2, <2>2, <2>4
    <3> HIDE DEF place
    <3>2. CASE Marked(place)
      <4>1. g[x] = place
        BY <1>10, <2>2, <2>4, <3>2 DEF place
      <4> QED BY <1>11, <2>2, <3>1, <3>2, <4>1 DEF FirstFrom
    <3>3. CASE ~Marked(place)
      <4> DEFINE y == place + 1
                 e == n + 1 - y
      <4>1. g[x] = g[y]
        BY <1>10, <2>2, <2>4, <3>3 DEF place
      <4>2. /\ y \in X /\ e \in Nat /\ e <= n + 1 /\ e < d /\ n + 1 - e = y
            /\ \A o \in x..n : o \in x..(place - 1) \/ o = place \/ o \in y..n
            /\ \A o \in y..n : o \in x..n
        BY <1>1, <2>2, <3>1
      <4>3. e \notin T
        BY <2>1, <2>2, <4>2
      <4> HIDE DEF y
      <4>4. FirstFrom(rom, y, g[y])
        BY <4>2, <4>3 DEF T
      <4>5. \A o \in x..place : ~Q!IsGetData(rom, o)
        <5>1. \A o \in x..place : o \in x..(place - 1) \/ o = place
          BY <2>2, <3>1
        <5> QED BY <1>11, <3>1, <3>3, <5>1
      <4>6. CASE g[y] = 0 /\ \A o \in y..n : ~Q!IsGetData(rom, o)
        <5>1. \A o \in x..n : o \in x..place \/ o \in y..n
          BY <2>2, <3>1 DEF y
        <5> QED BY <2>2, <4>1, <4>5, <4>6, <5>1 DEF FirstFrom
      <4>7. CASE /\ g[y] \in y..n /\ Q!IsGetData(rom, g[y])
                 /\ \A o \in y..(g[y] - 1) : ~Q!IsGetData(rom, o)
        <5>1. /\ g[y] \in x..n
              /\ \A o \in x..(g[y] - 1) : o \in x..place \/ o \in y..(g[y] - 1)
          BY <2>2, <3>1, <4>2, <4>7 DEF y
        <5> QED BY <2>2, <4>1, <4>5, <4>7, <5>1 DEF FirstFrom
      <4> QED BY <4>4, <4>6, <4>7 DEF FirstFrom
    <3> QED BY <3>2, <3>3
  <2> QED BY <2>3, <2>4
<1> HIDE DEF T
<1>13. FirstFrom(rom, 3, g[3])
  <2> DEFINE d == n - 2
  <2>1. d \in Nat /\ d <= n + 1 /\ n + 1 - d = 3
    BY <1>1
  <2>2. d \notin T
    BY <1>12
  <2> QED BY <1>1, <2>1, <2>2 DEF T
<1> QED BY <1>3, <1>13

\* The first ROM with the UART's code is the one that is searched.
LEMMA BaseIs ==
  ASSUME NEW roms, \A i \in 1..3 : Image(roms[i]),
         \E i \in 1..3 : Q!Places(roms[i], Q!Uartb) # {}
  PROVE  LET i == Q!BaseIndex(roms)
         IN /\ i \in 1..3 /\ Q!Places(roms[i], Q!Uartb) # {}
            /\ \A j \in 1..(i - 1) : Q!Places(roms[j], Q!Uartb) = {}
<1> DEFINE at(i) == Q!Search(roms[i], Q!Uartb)
           Is(i) == at(i) # 0 /\ \A j \in 1..(i - 1) : at(j) = 0
           T == {i \in 1..3 : at(i) # 0}
           b == Q!BaseIndex(roms)
<1>1. \A i \in 1..3 : at(i) = 0 <=> Q!Places(roms[i], Q!Uartb) = {}
  BY PatternsAre, SearchIs
<1>2. b = IF \E i \in 1..3 : at(i) # 0 THEN CHOOSE i \in 1..3 : Is(i) ELSE 4
  BY DEF Q!BaseIndex
<1> HIDE DEF at, b
<1>3. PICK t : t \in T
  BY <1>1
<1>4. T \in SUBSET Nat
  OBVIOUS
<1>5. PICK i \in T : \A j \in T : i <= j
  BY <1>3, <1>4, LeastElement
<1>6. i \in 1..3 /\ Is(i)
  <2>1. ASSUME NEW j \in 1..(i - 1)
        PROVE  at(j) = 0
    <3>1. j \in 1..3 /\ ~(i <= j)
      OBVIOUS
    <3> QED BY <1>5, <3>1
  <2> QED BY <2>1
<1> HIDE DEF Is
<1>7. b \in 1..3 /\ Is(b)
  <2>1. b = CHOOSE k \in 1..3 : Is(k)
    BY <1>2, <1>5
  <2> QED BY <1>6, <2>1
<1>8. \A j \in 1..(b - 1) : j \in 1..3
  BY <1>7
<1> QED BY <1>1, <1>7, <1>8 DEF Is, b

\* The payload finds each routine of the boot ROM that it has to call, whatever the ROMs
\* contain, if one of them has the UART's code.
THEOREM RoutinesAreFound ==
  ASSUME NEW roms, \A i \in 1..3 : Image(roms[i]),
         \E i \in 1..3 : Q!Places(roms[i], Q!Uartb) # {}
  PROVE  LET r == Q!searchparams(roms)
         IN /\ r.base \in 1..3 /\ Q!Places(roms[r.base], Q!Uartb) # {}
            /\ Q!Found(roms, r)
<1> DEFINE b == Q!BaseIndex(roms)
           rom == roms[b]
           r == Q!searchparams(roms)
<1>1. /\ b \in 1..3 /\ Q!Places(rom, Q!Uartb) # {}
      /\ \A j \in 1..(b - 1) : Q!Places(roms[j], Q!Uartb) = {}
  BY BaseIs
<1>2. /\ r.base = b /\ r.uart = IF b = 4 THEN 0 ELSE Q!Search(rom, Q!Uartb)
      /\ r.wdt = Q!Search(rom, Q!Wdts) /\ r.usbdl_put_data = Q!Search(rom, Q!Sdd)
      /\ r.send_usb_response = Q!SendUsbResponse(rom) /\ r.usbdl_get_data = Q!GetData(rom)
  BY DEF Q!searchparams
<1> HIDE DEF b, r
<1>3. Image(rom) /\ b # 4
  BY <1>1
<1> HIDE DEF rom
<1>4. Q!IsFirst(rom, r.uart, Q!Places(rom, Q!Uartb))
  BY <1>2, <1>3, PatternsAre, SearchIs
<1>5. Q!IsFirst(rom, r.wdt, Q!Places(rom, Q!Wdts))
  BY <1>2, <1>3, PatternsAre, SearchIs
<1>6. Q!IsFirst(rom, r.usbdl_put_data, Q!Places(rom, Q!Sdd))
  BY <1>2, <1>3, PatternsAre, SearchIs
<1>7. Q!IsFirst(rom, r.usbdl_get_data, {o \in 3..Len(rom) : Q!IsGetData(rom, o)})
  <2> DEFINE y == r.usbdl_get_data
             T == {o \in 3..Len(rom) : Q!IsGetData(rom, o)}
             n == Len(rom)
  <2>1. FirstFrom(rom, 3, y)
    BY <1>2, <1>3, GetDataIs
  <2>2. n \in Nat
    BY <1>3 DEF Image
  <2>3. \A o : o \in T <=> o \in 3..n /\ Q!IsGetData(rom, o)
    OBVIOUS
  <2>4. \/ y = 0 /\ \A o \in 3..n : ~Q!IsGetData(rom, o)
        \/ y \in 3..n /\ Q!IsGetData(rom, y) /\ \A o \in 3..(y - 1) : ~Q!IsGetData(rom, o)
    BY <2>1 DEF FirstFrom
  <2>5. n = Len(rom)
    OBVIOUS
  <2> HIDE DEF y, T, n
  <2>6. Q!IsFirst(rom, y, T)
    <3>1. CASE y = 0 /\ \A o \in 3..n : ~Q!IsGetData(rom, o)
      BY <2>2, <2>3, <2>5, <3>1 DEF Q!IsFirst, Q!Start
    <3>2. CASE /\ y \in 3..n /\ Q!IsGetData(rom, y)
               /\ \A o \in 3..(y - 1) : ~Q!IsGetData(rom, o)
      <4>1. y # 0
        BY <2>2, <3>2
      <4> QED BY <2>3, <3>2, <4>1 DEF Q!IsFirst, Q!Start
    <3> QED BY <2>4, <3>1, <3>2
  <2> QED BY <2>6 DEF y, T
<1>8. /\ r.send_usb_response # 0 => Q!IsResponse(rom, r.send_usb_response)
      /\ r.send_usb_response = 0 =>
           \A o \in 3..Len(rom) : Q!At(rom, o, Q!Sur1a) \/ ~Q!IsResponse(rom, o)
  BY <1>2, <1>3, ResponseIs
<1>9. roms[r.base] = rom
  BY <1>2 DEF rom
<1>10. Q!Found(roms, r)
  BY <1>1, <1>2, <1>4, <1>5, <1>6, <1>7, <1>8, <1>9 DEF Q!Found, Q!Start
<1> QED BY <1>1, <1>2, <1>9, <1>10 DEF r

\* The images of the behaviours have the UART's code where the search starts.
LEMMA ImagesAre ==
  ASSUME NEW image \in Images
  PROVE  Image(image) /\ Q!Places(image, Q!Uartb) # {}
<1> DEFINE v == <<"0000", "0000">>
           u == Q!Uartb
           start == v \o u
           A == {"0000", "5F31", "4E45", "0F93", "F641", "1071", "6088", "B530", "2300", "2808",
                 "D00F", "2807", "2400", "F04F", "5389", "2803", "D006", "B510", "4A06", "68D4",
                 "E92D", "47F0", "46xx", "xx92"}
           Parts == Seq(A)
<1>1. ASSUME NEW f \in Parts, NEW g \in Parts
      PROVE  /\ f \o g \in Parts /\ Len(f \o g) = Len(f) + Len(g)
             /\ Len(f) \in Nat /\ Len(g) \in Nat
             /\ \A k \in 1..Len(f) : (f \o g)[k] = f[k]
             /\ \A k \in 1..Len(g) : (f \o g)[Len(f) + k] = g[k]
  OBVIOUS
<1>2. ASSUME NEW a \in A, NEW b \in A, NEW c \in A
      PROVE  <<a>> \in Parts /\ <<a, b>> \in Parts /\ <<a, b, c>> \in Parts
  <2> HIDE DEF A
  <2> QED OBVIOUS
<1>3. \A a \in {"0000", "5F31", "4E45", "0F93", "46xx", "xx92"} : a \in A
  OBVIOUS
<1> HIDE DEF Parts
<1>4. /\ Q!Uartb \in Parts /\ Q!Wdts \in Parts /\ Q!Sur1a \in Parts /\ Q!Sur1b \in Parts
      /\ Q!Sur2 \in Parts /\ Q!Sur3 \in Parts /\ Q!Sdd \in Parts /\ Q!Rcd2 \in Parts
  <2>1. Q!Uartb \in Parts
    <3>1. "5F31" \in A /\ "4E45" \in A /\ "0F93" \in A
      OBVIOUS
    <3> HIDE DEF A
    <3> QED BY <1>2, <3>1 DEF Q!Uartb
  <2>2. Q!Wdts \in Parts
    <3>1. "F641" \in A /\ "1071" \in A /\ "6088" \in A
      OBVIOUS
    <3> HIDE DEF A
    <3> QED BY <1>2, <3>1 DEF Q!Wdts
  <2>3. Q!Sur1a \in Parts
    BY <1>2 DEF Q!Sur1a
  <2>4. Q!Sur1b \in Parts
    <3>1. "2808" \in A /\ "D00F" \in A /\ "2807" \in A
      OBVIOUS
    <3> HIDE DEF A
    <3> QED BY <1>2, <3>1 DEF Q!Sur1b
  <2>5. Q!Sur2 \in Parts
    <3>1. "2400" \in A /\ "F04F" \in A /\ "5389" \in A
      OBVIOUS
    <3> HIDE DEF A
    <3> QED BY <1>2, <3>1 DEF Q!Sur2
  <2>6. Q!Sur3 \in Parts
    BY <1>2 DEF Q!Sur3
  <2>7. Q!Sdd \in Parts
    BY <1>2 DEF Q!Sdd
  <2>8. Q!Rcd2 \in Parts
    BY <1>2 DEF Q!Rcd2
  <2> QED BY <2>1, <2>2, <2>3, <2>4, <2>5, <2>6, <2>7, <2>8
<1>5. v \in Parts /\ u \in Parts /\ <<"0000">> \in Parts /\ <<"0000", "46xx", "xx92">> \in Parts
  <2>1. u \in Parts
    BY <1>4
  <2>2. v \in Parts /\ <<"0000">> \in Parts /\ <<"0000", "46xx", "xx92">> \in Parts
    <3> HIDE DEF A
    <3> QED BY <1>2, <1>3
  <2> QED BY <2>1, <2>2
<1>6. Len(v) = 2
  OBVIOUS
<1>7. Len(u) = 3 /\ u[1] = "5F31" /\ u[2] = "4E45" /\ u[3] = "0F93"
  BY DEF Q!Uartb
<1> HIDE DEF v, u
<1>8. \E f \in Fragments \cup {<<>>}, g \in Fragments \cup {<<>>}, h \in Fragments \cup {<<>>} :
        image = ImageOf(f, g, h)
  BY SMT DEF Images
<1>9. \A f, g, h : ImageOf(f, g, h) = start \o f \o g \o h
  BY Zenon DEF ImageOf, start, v, u
<1>10. \A f \in Fragments \cup {<<>>} : f \in Parts
  <2>1. Q!Sur1a \o <<"0000">> \o Q!Sur1b \in Parts
    BY <1>1, <1>4, <1>5, Zenon
  <2>2. Q!Rcd2 \o <<"0000", "46xx", "xx92">> \in Parts
    BY <1>1, <1>4, <1>5, Zenon
  <2>3. <<>> \in Parts
    BY DEF Parts
  <2>4. \A f \in Fragments : f \in Parts
    BY <1>4, <2>1, <2>2, Zenon DEF Fragments
  <2> QED BY <2>3, <2>4
<1>11. start \in Parts /\ Len(start) = 5
      /\ start[3] = "5F31" /\ start[4] = "4E45" /\ start[5] = "0F93"
  <2>1. /\ start \in Parts /\ Len(start) = Len(v) + Len(u)
        /\ \A k \in 1..Len(u) : start[Len(v) + k] = u[k]
    BY <1>1, <1>5, Zenon
  <2> HIDE DEF start
  <2>2. start[2 + 1] = u[1] /\ start[2 + 2] = u[2] /\ start[2 + 3] = u[3]
    BY <1>6, <1>7, <2>1
  <2> QED BY <1>6, <1>7, <2>1, <2>2
<1> HIDE DEF start
<1> DEFINE Starts(f) == /\ f \in Parts /\ Len(f) \in Nat /\ Len(f) >= 5
                        /\ f[3] = "5F31" /\ f[4] = "4E45" /\ f[5] = "0F93"
<1>12. ASSUME NEW f, Starts(f), NEW g \in Parts
      PROVE  Starts(f \o g)
  <2> DEFINE h == f \o g
  <2>1. 3 \in 1..Len(f) /\ 4 \in 1..Len(f) /\ 5 \in 1..Len(f)
    BY <1>12
  <2>2. /\ h \in Parts /\ Len(h) = Len(f) + Len(g) /\ Len(g) \in Nat
        /\ \A k \in 1..Len(f) : h[k] = f[k]
    BY <1>1, <1>12, Zenon
  <2> HIDE DEF h
  <2>3. Starts(h)
    BY <1>12, <2>1, <2>2
  <2> QED BY <2>3 DEF h
<1>13. Starts(start)
  BY <1>11
<1> HIDE DEF Starts, Parts
<1>14. Starts(image)
  BY <1>8, <1>9, <1>10, <1>12, <1>13, Zenon
<1>15. /\ Len(image) \in Nat /\ Len(image) >= 5 /\ DOMAIN image = 1..Len(image)
      /\ image[3] = "5F31" /\ image[4] = "4E45" /\ image[5] = "0F93"
  BY <1>14 DEF Starts, Parts
<1>16. Image(image) /\ {3, 4, 5} \subseteq DOMAIN image /\ 3 \in 3..Len(image)
  BY <1>15 DEF Image
<1>17. Q!At(image, 3, Q!Uartb)
  <2>1. /\ Q!Halfword(image, 3) = "5F31" /\ Q!Halfword(image, 4) = "4E45"
        /\ Q!Halfword(image, 5) = "0F93"
    BY <1>15, <1>16 DEF Q!Halfword
  <2>2. /\ Len(Q!Uartb) = 3 /\ Q!Uartb[1] = "5F31" /\ Q!Uartb[2] = "4E45"
        /\ Q!Uartb[3] = "0F93"
    BY DEF Q!Uartb
  <2> QED BY <2>1, <2>2 DEF Q!At
<1> QED BY <1>16, <1>17 DEF Q!Places, Q!Start

\* So are the routines in every image of a behaviour of MCLibrary.
THEOREM FindsRight == MCSpec => []FindsRoutines
<1>1. input \in Calls \cup {[kind |-> "none"]} => FindsRoutines
  <2> SUFFICES ASSUME input \in Calls \cup {[kind |-> "none"]}, input.kind = "rom"
               PROVE  FindsRoutines
    BY DEF FindsRoutines
  <2> DEFINE other == <<"0000", "0000", "5F31", "4E45">>
             roms == [i \in 1..3 |-> IF i = input.at THEN input.image ELSE other]
             r == Q!searchparams(roms)
  <2>1. input.at \in 1..3 /\ input.image \in Images
    BY CallsAre DEF Roms
  <2>2. Image(input.image) /\ Q!Places(input.image, Q!Uartb) # {}
    BY <2>1, ImagesAre
  <2>3. Image(other) /\ Len(other) = 4 /\ DOMAIN other = 1..4
        /\ other[3] = "5F31" /\ other[4] = "4E45"
    BY DEF Image
  <2> HIDE DEF other
  <2>4. Q!Places(other, Q!Uartb) = {}
    <3> SUFFICES ASSUME NEW o \in 3..4, Q!At(other, o, Q!Uartb) PROVE FALSE
      BY <2>3 DEF Q!Places, Q!Start
    <3>1. Len(Q!Uartb) = 3 /\ Q!Uartb[1] = "5F31" /\ Q!Uartb[3] = "0F93"
      BY DEF Q!Uartb
    <3>2. /\ Q!Halfword(other, o + 1 - 1) = Q!Uartb[1]
          /\ Q!Halfword(other, o + 3 - 1) = Q!Uartb[3]
      BY <3>1 DEF Q!At
    <3>3. CASE o = 3
      <4>1. Q!Halfword(other, 5) = "beyond"
        BY <2>3 DEF Q!Halfword
      <4> QED BY <3>1, <3>2, <3>3, <4>1
    <3>4. CASE o = 4
      <4>1. Q!Halfword(other, 4) = "4E45"
        BY <2>3 DEF Q!Halfword
      <4> QED BY <3>1, <3>2, <3>4, <4>1
    <3> QED BY <3>3, <3>4
  <2>5. \A i \in 1..3 : roms[i] = IF i = input.at THEN input.image ELSE other
    OBVIOUS
  <2> HIDE DEF roms
  <2>6. /\ r.base \in 1..3 /\ Q!Places(roms[r.base], Q!Uartb) # {}
        /\ Q!Found(roms, r)
    <3>1. \A i \in 1..3 : Image(roms[i])
      BY <2>2, <2>3, <2>5
    <3>2. \E i \in 1..3 : Q!Places(roms[i], Q!Uartb) # {}
      BY <2>1, <2>2, <2>5
    <3> QED BY <3>1, <3>2, RoutinesAreFound
  <2>7. r.base = input.at
    BY <2>4, <2>5, <2>6
  <2> QED BY <2>6, <2>7 DEF FindsRoutines, roms, other
<1> QED BY <1>1, InputStays, PTL
=============================================================================
