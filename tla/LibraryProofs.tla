--------------------------- MODULE LibraryProofs ---------------------------
(***************************************************************************)
(* Proofs about the algorithms of MCLibrary: the hash, the division, the   *)
(* roundtrip test, the hash of the behaviours and the set-ups of the eMMC  *)
(* driver.  Each theorem is about every input; the corollaries say it of   *)
(* the behaviours of MCLibrary.                                            *)
(*                                                                         *)
(* The digest that Sha256 puts together byte by byte and block by block is *)
(* that of the standard, which speaks of the whole padded message.  What   *)
(* the compression computes does not matter for it.  The chain of states   *)
(* over the blocks of a message is a recursion over the naturals.  That it *)
(* has a solution (AfterIs) is proved by the least element of a set of     *)
(* naturals without a part of it.                                          *)
(***************************************************************************)
EXTENDS MCLibrary, SequenceTheorems, WellFoundedInduction, TLAPS

\* A byte is a set of bits; how many it may have does not matter.
Bytes == Seq(SUBSET Nat)

HashInit == \E m \in Bytes : InitHash(m) \/ \E k \in Bytes : InitMac(m, k)
HashSpec == HashInit /\ [][HashNext]_hashvars

-----------------------------------------------------------------------------
(* The chain of states                                                     *)

\* A set of numbers has a least one.
LEMMA LeastElement ==
  ASSUME NEW T \in SUBSET Nat, NEW t \in T
  PROVE  \E n \in T : \A m \in T : n <= m
<1> DEFINE R == {ss \in Nat \X Nat : ss[1] < ss[2]}
<1>1. R = OpToRel(<, Nat)
  BY DEF OpToRel
<1>2. IsWellFoundedOn(R, Nat)
  BY <1>1, NatLessThanWellFounded
<1>3. \A x, y \in Nat : y < x => <<y, x>> \in R
  OBVIOUS
<1> HIDE DEF R
<1>4. PICK x \in T : \A y \in T : ~ (<<y, x>> \in R)
  BY <1>2, WFMin
<1>5. \A y \in T : ~(y < x)
  BY <1>3, <1>4
<1> QED BY <1>5

\* f is the chain of states up to n.
Chain(w, n, f) ==
  f = [k \in 0..n |-> IF k = 0 THEN Initial ELSE sha256_transform(f[k - 1], Block(w, k))]

LEMMA ChainStep ==
  ASSUME NEW w, NEW n \in Nat, NEW f, Chain(w, n, f)
  PROVE  /\ DOMAIN f = 0..n /\ f[0] = Initial
         /\ \A k \in 1..n : f[k] = sha256_transform(f[k - 1], Block(w, k))
BY DEF Chain

\* Two chains agree where both are.
LEMMA ChainsAgree ==
  ASSUME NEW w, NEW m \in Nat, NEW n \in Nat, NEW f, NEW g, Chain(w, m, f), Chain(w, n, g),
         NEW k \in 0..m, k <= n
  PROVE  f[k] = g[k]
<1> DEFINE T == {j \in Nat : j <= m /\ j <= n /\ f[j] # g[j]}
<1>1. SUFFICES ASSUME NEW t \in T PROVE FALSE
  OBVIOUS
<1>2. PICK j \in T : \A i \in T : j <= i
  BY LeastElement
<1>3. f[0] = g[0]
  BY ChainStep
<1>4. CASE j = 0
  BY <1>2, <1>3, <1>4
<1>5. CASE j # 0
  <2>1. j - 1 \in Nat /\ j - 1 \notin T /\ j \in 1..m /\ j \in 1..n
    BY <1>2, <1>5
  <2>2. f[j - 1] = g[j - 1]
    BY <2>1
  <2>3. /\ f[j] = sha256_transform(f[j - 1], Block(w, j))
        /\ g[j] = sha256_transform(g[j - 1], Block(w, j))
    BY <2>1, ChainStep
  <2> QED BY <1>2, <2>2, <2>3
<1> QED BY <1>4, <1>5

LEMMA ChainExists ==
  ASSUME NEW w, NEW n \in Nat
  PROVE  \E f : Chain(w, n, f)
<1> DEFINE T == {j \in Nat : ~ \E f : Chain(w, j, f)}
<1>1. SUFFICES ASSUME NEW t \in T PROVE FALSE
  OBVIOUS
<1>2. PICK j \in T : \A i \in T : j <= i
  BY LeastElement
<1>3. CASE j = 0
  <2> DEFINE f == [k \in 0..0 |-> Initial]
  <2>1. f = [k \in 0..0 |-> IF k = 0 THEN Initial ELSE sha256_transform(f[k - 1], Block(w, k))]
    OBVIOUS
  <2>2. Chain(w, 0, f)
    BY <2>1 DEF Chain
  <2> QED BY <1>2, <1>3, <2>2
<1>4. CASE j # 0
  <2>1. j - 1 \in Nat /\ j - 1 \notin T
    BY <1>2, <1>4
  <2>2. PICK g : Chain(w, j - 1, g)
    BY <2>1
  <2>3. /\ g[0] = Initial
        /\ \A k \in 1..(j - 1) : g[k] = sha256_transform(g[k - 1], Block(w, k))
    BY <2>1, <2>2, ChainStep
  <2> DEFINE f == [k \in 0..j |-> IF k = j THEN sha256_transform(g[j - 1], Block(w, j)) ELSE g[k]]
  <2>4. f[0] = Initial
    BY <1>4, <2>1, <2>3
  <2>5. ASSUME NEW k \in 1..j
        PROVE  f[k] = sha256_transform(f[k - 1], Block(w, k))
    <3>1. f[k - 1] = g[k - 1]
      OBVIOUS
    <3>2. CASE k = j
      BY <3>1, <3>2
    <3>3. CASE k # j
      BY <2>3, <3>1, <3>3
    <3> QED BY <3>2, <3>3
  <2>6. f = [k \in 0..j |-> f[k]]
    OBVIOUS
  <2> HIDE DEF f
  <2>7. \A k \in 0..j : f[k] = IF k = 0 THEN Initial ELSE sha256_transform(f[k - 1], Block(w, k))
    BY <1>2, <2>4, <2>5
  <2>8. Chain(w, j, f)
    BY <2>6, <2>7 DEF Chain
  <2> QED BY <1>2, <2>8
<1> QED BY <1>3, <1>4

\* What After(w, n) is: the recursion has a solution.
LEMMA AfterIs ==
  ASSUME NEW w
  PROVE  /\ After(w, 0) = Initial
         /\ \A n \in Nat : After(w, n + 1) = sha256_transform(After(w, n), Block(w, n + 1))
<1> DEFINE Solves(f) == f = [k \in Nat |-> IF k = 0 THEN Initial
                                           ELSE sha256_transform(f[k - 1], Block(w, k))]
           c(n) == CHOOSE f : Chain(w, n, f)
           h == [n \in Nat |-> c(n)[n]]
<1>1. \A n \in Nat : Chain(w, n, c(n))
  BY ChainExists
<1>2. \A n \in Nat : h[n] = c(n)[n]
  OBVIOUS
<1> HIDE DEF c
<1>3. h[0] = Initial
  BY <1>1, ChainStep
<1>4. ASSUME NEW n \in Nat, n # 0
      PROVE  h[n] = sha256_transform(h[n - 1], Block(w, n))
  <2>1. n - 1 \in Nat /\ n \in 1..n /\ n - 1 \in 0..(n - 1) /\ n - 1 <= n
    BY <1>4
  <2>2. c(n)[n] = sha256_transform(c(n)[n - 1], Block(w, n))
    BY <1>1, <2>1, ChainStep
  <2>3. Chain(w, n, c(n)) /\ Chain(w, n - 1, c(n - 1))
    BY <1>1, <2>1
  <2>4. c(n)[n - 1] = c(n - 1)[n - 1]
    BY <2>1, <2>3, ChainsAgree
  <2> QED BY <1>2, <2>1, <2>2, <2>4
<1>5. Solves(h)
  <2>1. h = [k \in Nat |-> h[k]]
    OBVIOUS
  <2> HIDE DEF h
  <2> QED BY <1>3, <1>4, <2>1
<1> DEFINE s == CHOOSE f : Solves(f)
<1>6. Solves(s)
  BY <1>5
<1>7. \A n : After(w, n) = s[n]
  BY DEF After
<1> HIDE DEF s
<1>8. s[0] = Initial /\ \A n \in Nat : s[n + 1] = sha256_transform(s[n], Block(w, n + 1))
  BY <1>6
<1> QED BY <1>7, <1>8

-----------------------------------------------------------------------------
(* Sequences of bytes                                                      *)

\* A function on 1..n is a sequence.
LEMMA IsBytes ==
  ASSUME NEW n \in Nat, NEW f, f = [i \in 1..n |-> f[i]], \A i \in 1..n : f[i] \in SUBSET Nat
  PROVE  f \in Bytes /\ Len(f) = n
<1>1. f \in [1..n -> SUBSET Nat]
  OBVIOUS
<1> QED BY <1>1 DEF Bytes

\* Sequences of bytes, one after the other.
LEMMA Joined ==
  \A s, t \in Bytes : s \o t \in Bytes /\ Len(s \o t) = Len(s) + Len(t)
BY ConcatProperties DEF Bytes

LEMMA Regrouped ==
  ASSUME NEW s \in Bytes, NEW t \in Bytes, NEW u \in Bytes
  PROVE  (s \o t) \o u = s \o (t \o u)
<1>1. s \in Seq(SUBSET Nat) /\ t \in Seq(SUBSET Nat) /\ u \in Seq(SUBSET Nat)
  BY DEF Bytes
<1> QED BY <1>1, ConcatAssociative

LEMMA JoinedAt ==
  ASSUME NEW s \in Bytes, NEW t \in Bytes
  PROVE  /\ \A i \in 1..Len(s) : (s \o t)[i] = s[i]
         /\ \A i \in 1..Len(t) : (s \o t)[Len(s) + i] = t[i]
<1>1. Len(s) \in Nat /\ Len(t) \in Nat
  BY DEF Bytes
<1>2. \A i \in 1..(Len(s) + Len(t)) : (s \o t)[i] = IF i <= Len(s) THEN s[i] ELSE t[i - Len(s)]
  BY ConcatProperties DEF Bytes
<1>3. ASSUME NEW i \in 1..Len(t)
      PROVE  (s \o t)[Len(s) + i] = t[i]
  <2>1. /\ Len(s) + i \in 1..(Len(s) + Len(t)) /\ ~(Len(s) + i <= Len(s))
        /\ (Len(s) + i) - Len(s) = i
    BY <1>1
  <2> QED BY <1>2, <2>1
<1> QED BY <1>1, <1>2, <1>3

-----------------------------------------------------------------------------
(* What the steps make                                                     *)

LEMMA DigestType ==
  ASSUME NEW s
  PROVE  Digest(s) \in Bytes /\ Len(Digest(s)) = 32
<1>1. \A i \in 1..32 : Digest(s)[i] \in SUBSET Nat
  <2> SUFFICES ASSUME NEW i \in 1..32 PROVE Digest(s)[i] \in SUBSET Nat
    OBVIOUS
  <2> DEFINE low == 8 * (3 - ((i - 1) % 4))
  <2>1. low \in Nat
    OBVIOUS
  <2>2. Digest(s)[i] = {b - low : b \in s[((i - 1) \div 4) + 1] \cap (low..(low + 7))}
    BY DEF Digest
  <2> HIDE DEF low
  <2>3. \A b \in low..(low + 7) : b - low \in Nat
    BY <2>1
  <2> QED BY <2>2, <2>3
<1>2. Digest(s) = [i \in 1..32 |-> Digest(s)[i]]
  BY DEF Digest
<1> QED BY <1>1, <1>2 DEF Bytes

LEMMA KeyPadType ==
  ASSUME NEW k \in Bytes, NEW pad
  PROVE  KeyPad(k, pad) \in Bytes /\ Len(KeyPad(k, pad)) = 64
<1>1. Bits(pad) \in SUBSET Nat
  BY DEF Bits
<1>2. \A i \in 1..64 : KeyPad(k, pad)[i] = IF i <= Len(k) THEN Xor(Bits(pad), k[i]) ELSE Bits(pad)
  BY DEF KeyPad
<1>3. ASSUME NEW i \in 1..64 PROVE KeyPad(k, pad)[i] \in SUBSET Nat
  <2>1. CASE i <= Len(k)
    <3>1. i \in 1..Len(k)
      BY <2>1 DEF Bytes
    <3>2. k[i] \in SUBSET Nat
      BY <3>1 DEF Bytes
    <3>3. Xor(Bits(pad), k[i]) \in SUBSET Nat
      BY <1>1, <3>2 DEF Xor
    <3> QED BY <1>2, <2>1, <3>3
  <2>2. CASE ~(i <= Len(k))
    BY <1>1, <1>2, <2>2
  <2> QED BY <2>1, <2>2
<1>4. KeyPad(k, pad) = [i \in 1..64 |-> KeyPad(k, pad)[i]]
  BY DEF KeyPad
<1> QED BY <1>3, <1>4, IsBytes

LEMMA StandardHashType ==
  ASSUME NEW m
  PROVE  StandardHash(m) \in Bytes /\ Len(StandardHash(m)) = 32
BY DigestType DEF StandardHash

LEMMA ShortKeyType ==
  ASSUME NEW k \in Bytes
  PROVE  ShortKey(k) \in Bytes /\ \E n \in 0..64 : Len(ShortKey(k)) = n
<1>1. CASE Len(k) <= 64
  <2> DEFINE n == Len(k)
  <2>1. n \in Nat /\ n <= 64
    BY <1>1 DEF Bytes
  <2> HIDE DEF n
  <2>2. n \in 0..64
    BY <2>1
  <2> QED BY <1>1, <2>2 DEF ShortKey, n
<1>2. CASE ~(Len(k) <= 64)
  <2>1. ShortKey(k) = StandardHash(k)
    BY <1>2 DEF ShortKey
  <2> QED BY <2>1, StandardHashType
<1> QED BY <1>1, <1>2

\* The length fills eight bytes.
LEMMA LengthType ==
  ASSUME NEW n \in Nat
  PROVE  Length(n) \in Bytes /\ Len(Length(n)) = 8
<1>1. \A i \in 1..8 : Length(n)[i] \in SUBSET Nat
  <2> SUFFICES ASSUME NEW i \in 1..8 PROVE Length(n)[i] \in SUBSET Nat
    OBVIOUS
  <2>1. Length(n)[i] = {} \/ Length(n)[i] \subseteq 0..7
    BY DEF Length
  <2> QED BY <2>1
<1>2. Length(n) = [i \in 1..8 |-> Length(n)[i]]
  BY DEF Length
<1> QED BY <1>1, <1>2 DEF Bytes

\* The messages of the two hashes of an HMAC.
Inner(m, k) == KeyPad(ShortKey(k), 54) \o m
Outer(m, k) == KeyPad(ShortKey(k), 92) \o StandardHash(Inner(m, k))

LEMMA MacIs ==
  ASSUME NEW m \in Bytes, NEW k \in Bytes
  PROVE  StandardMac(m, k) = StandardHash(Outer(m, k))
<1> DEFINE s == ShortKey(k)
           zeros == [i \in 1..(64 - Len(s)) |-> {}]
           padded == s \o zeros
           masked(pad) == [i \in 1..64 |-> Xor(padded[i], Bits(pad))]
<1>1. s \in Bytes
  BY ShortKeyType
<1>2. PICK n \in 0..64 : Len(s) = n
  BY ShortKeyType
<1>3. StandardMac(m, k) = StandardHash(masked(92) \o StandardHash(masked(54) \o m))
  BY DEF StandardMac
<1>4. ASSUME NEW pad PROVE masked(pad) = KeyPad(s, pad)
  <2> HIDE DEF s
  <2>1. zeros \in Bytes /\ Len(zeros) = 64 - n
    <3>1. zeros = [i \in 1..(64 - n) |-> zeros[i]]
      BY <1>2
    <3>2. \A i \in 1..(64 - n) : zeros[i] \in SUBSET Nat
      BY <1>2
    <3> HIDE DEF zeros
    <3> DEFINE l == 64 - n
    <3>3. l \in Nat
      OBVIOUS
    <3> HIDE DEF l
    <3>4. zeros = [i \in 1..l |-> zeros[i]] /\ \A i \in 1..l : zeros[i] \in SUBSET Nat
      BY <3>1, <3>2 DEF l
    <3>5. zeros \in Bytes /\ Len(zeros) = l
      BY <3>3, <3>4, IsBytes
    <3> QED BY <3>5 DEF l
  <2>2. \A i \in 1..(64 - n) : zeros[i] = {}
    BY <1>2
  <2> HIDE DEF zeros
  <2>3. /\ \A i \in 1..n : padded[i] = s[i]
        /\ \A i \in 1..(64 - n) : padded[n + i] = zeros[i]
    BY <1>1, <1>2, <2>1, JoinedAt
  <2> HIDE DEF padded
  <2>4. ASSUME NEW i \in 1..64
        PROVE  Xor(padded[i], Bits(pad)) = IF i <= Len(s) THEN Xor(Bits(pad), s[i]) ELSE Bits(pad)
    <3>1. CASE i <= n
      <4>1. padded[i] = s[i]
        BY <2>3, <3>1
      <4> QED BY <1>2, <3>1, <4>1 DEF Xor
    <3>2. CASE ~(i <= n)
      <4>1. i - n \in 1..(64 - n) /\ i = n + (i - n)
        BY <3>2
      <4>2. padded[i] = {}
        BY <2>2, <2>3, <4>1
      <4> QED BY <1>2, <3>2, <4>2 DEF Xor
    <3> QED BY <3>1, <3>2
  <2> QED BY <2>4 DEF KeyPad
<1> HIDE DEF s, zeros, padded, masked
<1> QED BY <1>3, <1>4 DEF Inner, Outer, s

-----------------------------------------------------------------------------
(* The message and its padding                                             *)

\* The rest of w behind its first n bytes.
Rest(s, w, n) ==
  n <= Len(w) /\ Len(s) = Len(w) - n /\ \A i \in 1..Len(s) : s[i] = w[n + i]

\* The first byte of a rest and the rest behind it.
LEMMA RestTail ==
  ASSUME NEW s \in Bytes, s # <<>>, NEW w \in Bytes, NEW n \in Nat, Rest(s, w, n)
  PROVE  /\ Head(s) = w[n + 1] /\ Head(s) \in SUBSET Nat
         /\ Tail(s) \in Bytes /\ Rest(Tail(s), w, n + 1) /\ n + 1 <= Len(w)
<1> DEFINE l == Len(s)
           k == Len(w)
           t == Tail(s)
<1>1. l \in Nat /\ k \in Nat /\ l # 0
  BY DEF Bytes
<1>2. /\ t \in Bytes /\ Len(t) = l - 1 /\ Head(s) \in SUBSET Nat /\ Head(s) = s[1]
      /\ \A i \in 1..Len(t) : t[i] = s[i + 1]
  BY HeadTailProperties DEF Bytes
<1> HIDE DEF t
<1>3. n <= k /\ l = k - n /\ \A i \in 1..l : s[i] = w[n + i]
  BY DEF Rest
<1>4. Head(s) = w[n + 1]
  <2> HIDE DEF l, k
  <2> QED BY <1>1, <1>2, <1>3
<1>5. n + 1 <= k /\ Len(t) = k - (n + 1) /\ \A i \in 1..Len(t) : t[i] = w[(n + 1) + i]
  <2> HIDE DEF l, k
  <2>1. n + 1 <= k /\ Len(t) = k - (n + 1) /\ k - (n + 1) \in Nat
    BY <1>1, <1>2, <1>3
  <2>2. ASSUME NEW i \in 1..(k - (n + 1))
        PROVE  t[i] = w[(n + 1) + i]
    <3>1. i \in Nat /\ i + 1 \in 1..l /\ n + (i + 1) = (n + 1) + i
      BY <1>1, <1>3, <2>1
    <3> QED BY <1>2, <1>3, <2>1, <3>1
  <2> QED BY <2>1, <2>2
<1> QED BY <1>2, <1>4, <1>5 DEF Rest, t, k

\* sha256_final puts behind the message what the standard does.
LEMMA PaddedIs ==
  ASSUME NEW m \in Bytes
  PROVE  /\ Padded(m) \in Bytes /\ Len(Padded(m)) % 64 = 0 /\ Len(m) < Len(Padded(m))
         /\ \A i \in 1..Len(m) : Padded(m)[i] = m[i]
         /\ LET rest == <<{7}>> \o Zeros((Len(m) % 64) + 1) \o Length(Len(m))
            IN rest \in Bytes /\ Rest(rest, Padded(m), Len(m))
<1> DEFINE n == Len(m)
           k == (-(n + 9)) % 64
           z == [i \in 1..k |-> {}]
           l == Length(n)
           one == <<{7}>>
           rest == one \o z \o l
<1>1. n \in Nat /\ m \in Bytes
  BY DEF Bytes
<1>2. k \in Nat /\ k = (56 - ((n % 64) + 1)) % 64 /\ (n + 9 + k) % 64 = 0
  BY <1>1
<1>3. Zeros((n % 64) + 1) = z
  BY <1>2 DEF Zeros
<1>4. l \in Bytes /\ Len(l) = 8
  BY <1>1, LengthType
<1>5. Padded(m) = m \o one \o z \o l
  BY DEF Padded
<1> HIDE DEF n, k, l
<1>6. z \in Bytes /\ Len(z) = k
  BY <1>2 DEF Bytes
<1>7. one \in Bytes /\ Len(one) = 1
  BY DEF Bytes
<1> HIDE DEF z, one
<1>8. one \o z \in Bytes /\ Len(one \o z) = 1 + k
  BY <1>6, <1>7, Joined
<1>9. rest \in Bytes /\ Len(rest) = (1 + k) + 8
  BY <1>4, <1>8, Joined
<1>10. Padded(m) = m \o rest
  <2>1. (m \o one) \o z = m \o (one \o z)
    BY <1>1, <1>6, <1>7, Regrouped
  <2>2. (m \o (one \o z)) \o l = m \o ((one \o z) \o l)
    BY <1>1, <1>4, <1>8, Regrouped
  <2> QED BY <1>5, <2>1, <2>2
<1> HIDE DEF rest
<1>11. /\ Padded(m) \in Bytes /\ Len(Padded(m)) = n + Len(rest)
       /\ \A i \in 1..n : Padded(m)[i] = m[i]
       /\ \A i \in 1..Len(rest) : Padded(m)[n + i] = rest[i]
  <2>1. Padded(m) \in Bytes /\ Len(Padded(m)) = n + Len(rest)
    BY <1>1, <1>9, <1>10, Joined DEF n
  <2>2. /\ \A i \in 1..n : Padded(m)[i] = m[i]
        /\ \A i \in 1..Len(rest) : Padded(m)[n + i] = rest[i]
    BY <1>1, <1>9, <1>10, JoinedAt DEF n
  <2> QED BY <2>1, <2>2
<1>12. Rest(rest, Padded(m), n)
  BY <1>1, <1>2, <1>9, <1>11 DEF Rest
<1>13. Len(Padded(m)) % 64 = 0 /\ n < Len(Padded(m))
  BY <1>1, <1>2, <1>9, <1>11
<1>14. rest = <<{7}>> \o Zeros((n % 64) + 1) \o Length(n)
  BY <1>3 DEF rest, one, l
<1> QED BY <1>9, <1>11, <1>12, <1>13, <1>14 DEF n

-----------------------------------------------------------------------------
(* The buffer                                                              *)

\* The first n bytes of the block behind the first c are in the buffer.
Filled(q, w, c, n) ==
  /\ q.state = After(w, c)
  /\ \A i \in 0..63 : i < n => q.buffer[i] = w[(64 * c) + i + 1]

\* A record like sha256_t.
IsHash(q) ==
  /\ q = [state |-> q.state, count |-> q.count, buffer |-> q.buffer]
  /\ q.count \in Nat /\ q.buffer \in [0..63 -> SUBSET Nat]

\* A full buffer is the next block.
LEMMA Compressed ==
  ASSUME NEW q, IsHash(q), NEW w, NEW c \in Nat, Filled(q, w, c, 64)
  PROVE  /\ IsHash(WriteBlock(q)) /\ WriteBlock(q).state = After(w, c + 1)
         /\ WriteBlock(q).count = q.count /\ WriteBlock(q).buffer = q.buffer
<1> DEFINE word(i) == UNION {{b + (8 * (3 - k)) : b \in q.buffer[(4 * i) + k]} : k \in 0..3}
           of(i) == UNION {{b + (8 * (4 - k)) : b \in w[(64 * c) + (4 * i) + k]} : k \in 1..4}
<1>1. ASSUME NEW i \in 0..15
      PROVE  word(i) = of(i)
  <2>1. /\ q.buffer[(4 * i) + 0] = w[(64 * c) + (4 * i) + 1]
        /\ q.buffer[(4 * i) + 1] = w[(64 * c) + (4 * i) + 2]
        /\ q.buffer[(4 * i) + 2] = w[(64 * c) + (4 * i) + 3]
        /\ q.buffer[(4 * i) + 3] = w[(64 * c) + (4 * i) + 4]
    BY DEF Filled
  <2>2. ASSUME NEW k \in 0..3
        PROVE  {b + (8 * (3 - k)) : b \in q.buffer[(4 * i) + k]}
                 = {b + (8 * (4 - (k + 1))) : b \in w[(64 * c) + (4 * i) + (k + 1)]}
    <3>1. q.buffer[(4 * i) + k] = w[(64 * c) + (4 * i) + (k + 1)]
      BY <2>1
    <3>2. 3 - k = 4 - (k + 1)
      OBVIOUS
    <3> QED BY <3>1, <3>2
  <2> DEFINE A(k) == {b + (8 * (3 - k)) : b \in q.buffer[(4 * i) + k]}
             B(k) == {b + (8 * (4 - k)) : b \in w[(64 * c) + (4 * i) + k]}
  <2>3. \A k \in 0..3 : A(k) = B(k + 1)
    BY <2>2
  <2>4. word(i) = UNION {A(k) : k \in 0..3} /\ of(i) = UNION {B(k) : k \in 1..4}
    OBVIOUS
  <2> HIDE DEF A, B, word, of
  <2>5. {A(k) : k \in 0..3} = {B(k) : k \in 1..4}
    <3>1. ASSUME NEW k \in 1..4 PROVE B(k) \in {A(j) : j \in 0..3}
      <4>1. k - 1 \in 0..3 /\ (k - 1) + 1 = k
        OBVIOUS
      <4> QED BY <2>3, <4>1
    <3> QED BY <2>3, <3>1
  <2> QED BY <2>4, <2>5
<1> DEFINE d == [i \in 0..15 |-> word(i)]
<1>2. d = Block(w, c + 1)
  <2>1. (c + 1) - 1 = c
    OBVIOUS
  <2>2. Block(w, c + 1) = [i \in 0..15 |-> of(i)]
    BY <2>1 DEF Block
  <2> HIDE DEF word, of
  <2> QED BY <1>1, <2>2
<1>3. WriteBlock(q) = [q EXCEPT !.state = sha256_transform(@, d)]
  BY DEF WriteBlock
<1> HIDE DEF d
<1>4. /\ WriteBlock(q).state = sha256_transform(q.state, d)
      /\ WriteBlock(q).count = q.count /\ WriteBlock(q).buffer = q.buffer
      /\ WriteBlock(q) =
           [state |-> sha256_transform(q.state, d), count |-> q.count, buffer |-> q.buffer]
  BY <1>3 DEF IsHash
<1>5. After(w, c + 1) = sha256_transform(q.state, d)
  BY <1>2, AfterIs DEF Filled
<1> QED BY <1>4, <1>5 DEF IsHash

\* What q is once x has been put at place n of its buffer.
Added(q, w, c, n, x) ==
  LET r == [q EXCEPT !.buffer[n] = x]
  IN IsHash(r) /\ Filled(r, w, c, n + 1) /\ r.count = q.count

\* One byte more.
LEMMA ByteIsAdded ==
  ASSUME NEW q, IsHash(q), NEW w, NEW c \in Nat, NEW n \in 0..63, Filled(q, w, c, n),
         NEW x \in SUBSET Nat, x = w[(64 * c) + n + 1]
  PROVE  Added(q, w, c, n, x)
<1> DEFINE r == [q EXCEPT !.buffer[n] = x]
<1>1. r.state = q.state /\ r.count = q.count /\ r.buffer = [q.buffer EXCEPT ![n] = x]
  BY DEF IsHash
<1>2. r = [state |-> r.state, count |-> r.count, buffer |-> r.buffer]
  BY DEF IsHash
<1> HIDE DEF r
<1>3. IsHash(r)
  BY <1>1, <1>2 DEF IsHash
<1>4. ASSUME NEW i \in 0..63, i < n + 1
      PROVE  r.buffer[i] = w[(64 * c) + i + 1]
  <2>1. CASE i = n
    BY <1>1, <2>1 DEF IsHash
  <2>2. CASE i # n
    <3>1. i < n
      BY <1>4, <2>2
    <3> QED BY <1>1, <2>2, <3>1 DEF IsHash, Filled
  <2> QED BY <2>1, <2>2
<1>5. Filled(r, w, c, n + 1)
  BY <1>1, <1>4 DEF Filled
<1>6. IsHash(r) /\ Filled(r, w, c, n + 1) /\ r.count = q.count
  BY <1>1, <1>3, <1>5
<1> QED BY Zenon, <1>6 DEF Added, r

-----------------------------------------------------------------------------
(* The invariant                                                           *)

\* The message that is being hashed.
Current ==
  IF job = "hash" THEN data ELSE IF job = "key" THEN key
  ELSE IF job = "inner" THEN Inner(data, key) ELSE Outer(data, key)

TypeInv ==
  /\ job \in {"hash", "key", "inner", "outer"} /\ stage \in {"update", "final", "done"}
  /\ data \in Bytes /\ key \in Bytes /\ todo \in Bytes
  /\ IsHash(p) /\ pos \in 0..64

\* A key that is long is hashed first, and used as such from then on.
KeyInv ==
  /\ job = "key" => Len(key) > 64
  /\ job \in {"inner", "outer"} => kx = ShortKey(key)

\* What has been taken of the message is in the state and, behind the last full block,
\* in the buffer.
UpdateInv ==
  stage = "update" =>
    /\ Filled(p, Padded(Current), p.count \div 64, p.count % 64)
    /\ Rest(todo, Current, p.count)

\* The same of the padded message; a full buffer is not compressed at once.
FinalInv ==
  stage = "final" =>
    \E c \in Nat :
      /\ Filled(p, Padded(Current), c, pos) /\ Rest(todo, Padded(Current), (64 * c) + pos)
      /\ todo = <<>> => pos > 0

DoneInv == stage = "done" => job \in {"hash", "outer"} /\ out = StandardHash(Current)

HashInv == TypeInv /\ KeyInv /\ UpdateInv /\ FinalInv /\ DoneInv

LEMMA CurrentType ==
  ASSUME TypeInv
  PROVE  Current \in Bytes
<1>1. \A pad : \A k \in Bytes : KeyPad(k, pad) \in Bytes
  BY KeyPadType
<1>2. ShortKey(key) \in Bytes
  BY ShortKeyType DEF TypeInv
<1>3. Inner(data, key) \in Bytes
  BY <1>1, <1>2, Joined DEF TypeInv, Inner
<1>4. Outer(data, key) \in Bytes
  BY <1>1, <1>2, StandardHashType, Joined DEF TypeInv, Outer
<1> QED BY <1>3, <1>4 DEF TypeInv, Current

\* Nothing has been taken of a message.
LEMMA Fresh ==
  ASSUME NEW m \in Bytes
  PROVE  /\ IsHash(sha256_init) /\ sha256_init.count = 0
         /\ Filled(sha256_init, Padded(m), sha256_init.count \div 64, sha256_init.count % 64)
         /\ Rest(m, m, sha256_init.count)
<1>1. sha256_init.count = 0 /\ sha256_init.state = Initial
  BY DEF sha256_init
<1>2. IsHash(sha256_init)
  <2>1. [i \in 0..63 |-> 0..7] \in [0..63 -> SUBSET Nat]
    OBVIOUS
  <2> QED BY <2>1 DEF IsHash, sha256_init
<1>3. Filled(sha256_init, Padded(m), 0, 0)
  BY <1>1, AfterIs DEF Filled
<1>4. Rest(m, m, 0)
  BY DEF Rest, Bytes
<1> QED BY <1>1, <1>2, <1>3, <1>4

LEMMA InitHashInv == HashInit => HashInv
<1> SUFFICES ASSUME HashInit PROVE HashInv
  OBVIOUS
<1>1. PICK m \in Bytes : InitHash(m) \/ \E k \in Bytes : InitMac(m, k)
  BY DEF HashInit
<1>2. stage = "update" /\ pos = 0 /\ p = sha256_init
  BY <1>1 DEF InitHash, InitMac
<1>3. /\ data \in Bytes /\ key \in Bytes /\ job \in {"hash", "key", "inner"}
      /\ KeyInv /\ todo = Current
  <2>1. CASE InitHash(m)
    BY <2>1 DEF InitHash, Bytes, KeyInv, Current
  <2>2. ASSUME NEW k \in Bytes, InitMac(m, k)
        PROVE  /\ data \in Bytes /\ key \in Bytes /\ job \in {"hash", "key", "inner"}
               /\ KeyInv /\ todo = Current
    <3>1. CASE Len(k) > 64
      BY <2>2, <3>1 DEF InitMac, KeyInv, Current
    <3>2. CASE ~(Len(k) > 64)
      <4>1. ShortKey(k) = k
        BY <3>2 DEF ShortKey, Bytes
      <4> QED BY <2>2, <3>2, <4>1 DEF InitMac, KeyInv, Current, Inner
    <3> QED BY <3>1, <3>2
  <2> QED BY <1>1, <2>1, <2>2
<1>4. Current \in Bytes
  <2>1. \A pad : \A k \in Bytes : KeyPad(k, pad) \in Bytes
    BY KeyPadType
  <2> QED BY <1>3, <2>1, ShortKeyType, Joined DEF Current, Inner
<1>5. TypeInv
  BY <1>2, <1>3, <1>4, Fresh DEF TypeInv
<1> QED BY <1>2, <1>3, <1>4, <1>5, Fresh DEF HashInv, UpdateInv, FinalInv, DoneInv

\* The hash state behind the last block of a message.
LEMMA LastBlock ==
  ASSUME HashInv, End
  PROVE  Digest(WriteBlock(p).state) = StandardHash(Current)
<1> DEFINE m == Current
           w == Padded(m)
           k == Len(w)
<1>1. m \in Bytes
  BY CurrentType DEF HashInv
<1> HIDE DEF m
<1>2. w \in Bytes /\ k % 64 = 0
  BY <1>1, PaddedIs
<1>3. k \in Nat
  BY <1>2 DEF Bytes
<1>4. PICK c \in Nat : Filled(p, w, c, pos) /\ Rest(todo, w, (64 * c) + pos) /\ pos > 0
  BY DEF End, HashInv, FinalInv, m
<1>5. todo = <<>> /\ pos \in 0..64 /\ IsHash(p)
  BY DEF End, HashInv, TypeInv
<1>6. (64 * c) + pos = k
  <2>1. Len(todo) = 0
    BY <1>5
  <2>2. 0 = k - ((64 * c) + pos)
    BY <1>4, <2>1 DEF Rest
  <2> HIDE DEF k
  <2> QED BY <1>3, <1>5, <2>2
<1>7. pos = 64 /\ k \div 64 = c + 1
  <2> HIDE DEF k
  <2>1. pos % 64 = 0
    BY <1>2, <1>3, <1>5, <1>6
  <2> QED BY <1>3, <1>4, <1>5, <1>6, <2>1
<1>8. WriteBlock(p).state = After(w, c + 1)
  BY <1>4, <1>5, <1>7, Compressed
<1> QED BY <1>7, <1>8 DEF StandardHash, m

LEMMA UpdateKeeps == HashInv /\ Update => HashInv'
<1> SUFFICES ASSUME HashInv, Update PROVE HashInv'
  OBVIOUS
<1> DEFINE m == Current
           w == Padded(m)
           n == p.count
           c == n \div 64
           r == n % 64
           q == [p EXCEPT !.buffer[p.count % 64] = Head(todo), !.count = @ + 1]
           b == [p EXCEPT !.buffer[r] = Head(todo)]
<1>1. m \in Bytes
  BY CurrentType DEF HashInv
<1>2. /\ n \in Nat /\ IsHash(p) /\ todo \in Bytes /\ todo # <<>>
      /\ stage = "update" /\ stage' = "update" /\ todo' = Tail(todo)
      /\ p' = IF q.count % 64 = 0 THEN WriteBlock(q) ELSE q
      /\ UNCHANGED <<job, pos, key, kx, data, out>>
  BY DEF HashInv, TypeInv, IsHash, Update
<1>3. m' = m
  BY <1>2 DEF Current
<1>4. Filled(p, w, c, r) /\ Rest(todo, m, n)
  BY <1>2 DEF HashInv, UpdateInv
<1> HIDE DEF m
<1>5. /\ w \in Bytes /\ \A i \in 1..Len(m) : w[i] = m[i]
  BY <1>1, PaddedIs
<1>6. /\ Head(todo) = m[n + 1] /\ Head(todo) \in SUBSET Nat
      /\ Tail(todo) \in Bytes /\ Rest(Tail(todo), m, n + 1) /\ n + 1 <= Len(m)
  BY <1>1, <1>2, <1>4, RestTail
<1> HIDE DEF w
<1>7. Head(todo) = w[n + 1]
  <2> DEFINE l == Len(m)
  <2>1. l \in Nat /\ n + 1 <= l
    BY <1>1, <1>6 DEF Bytes
  <2> HIDE DEF l
  <2>2. n + 1 \in 1..l
    BY <1>2, <2>1
  <2> QED BY <1>5, <1>6, <2>2 DEF l
<1>8. /\ c \in Nat /\ r \in 0..63 /\ n = (64 * c) + r /\ n + 1 = (64 * c) + r + 1
      /\ (n + 1) % 64 = 0 => r = 63 /\ (n + 1) \div 64 = c + 1
      /\ (n + 1) % 64 # 0 => (n + 1) \div 64 = c /\ (n + 1) % 64 = r + 1
  <2>1. n \in Nat
    BY <1>2
  <2> HIDE DEF n
  <2> QED BY <2>1
<1> HIDE DEF c, r
<1>9. IsHash(b) /\ Filled(b, w, c, r + 1) /\ b.count = n
  <2>1. Head(todo) = w[(64 * c) + r + 1]
    BY <1>7, <1>8
  <2> HIDE DEF b, n
  <2> DEFINE x == Head(todo)
  <2>2. x \in SUBSET Nat /\ x = w[(64 * c) + r + 1]
    BY <1>6, <2>1
  <2> HIDE DEF x
  <2>3. LET e == [p EXCEPT !.buffer[r] = x]
        IN IsHash(e) /\ Filled(e, w, c, r + 1) /\ e.count = p.count
    <3>1. IsHash(p) /\ Filled(p, w, c, r) /\ c \in Nat /\ r \in 0..63
      BY <1>2, <1>4, <1>8
    <3>2. Added(p, w, c, r, x)
      BY <2>2, <3>1, ByteIsAdded
    <3> QED BY Zenon, <3>2 DEF Added
  <2> QED BY <2>3 DEF b, x, n
<1>10. q = [b EXCEPT !.count = n + 1]
  BY <1>2 DEF IsHash, r
<1> HIDE DEF b, q
<1>11. q.state = b.state /\ q.buffer = b.buffer /\ q.count = n + 1
  BY <1>9, <1>10 DEF IsHash
<1>12. IsHash(q) /\ Filled(q, w, c, r + 1)
  <2>1. q = [state |-> q.state, count |-> q.count, buffer |-> q.buffer]
    BY <1>9, <1>10 DEF IsHash
  <2>2. q.count \in Nat
    BY <1>2, <1>11
  <2>3. q.buffer \in [0..63 -> SUBSET Nat]
    BY <1>9, <1>11 DEF IsHash
  <2>4. Filled(q, w, c, r + 1)
    BY <1>9, <1>11 DEF Filled
  <2> QED BY <2>1, <2>2, <2>3, <2>4 DEF IsHash
<1>13. IsHash(p') /\ p'.count = n + 1 /\ Filled(p', w, p'.count \div 64, p'.count % 64)
  <2>1. CASE (n + 1) % 64 = 0
    <3>1. p' = WriteBlock(q) /\ r + 1 = 64
      BY <1>2, <1>8, <1>11, <2>1
    <3>2. IsHash(p') /\ p'.state = After(w, c + 1) /\ p'.count = n + 1
      BY <1>8, <1>11, <1>12, <3>1, Compressed
    <3> QED BY <1>8, <2>1, <3>2 DEF Filled
  <2>2. CASE (n + 1) % 64 # 0
    <3>1. p' = q
      BY <1>2, <1>11, <2>2
    <3> QED BY <1>8, <1>11, <1>12, <2>2, <3>1
  <2> QED BY <2>1, <2>2
<1>14. TypeInv'
  BY <1>2, <1>6, <1>13 DEF HashInv, TypeInv
<1>15. UpdateInv'
  BY <1>2, <1>3, <1>6, <1>13 DEF UpdateInv, m, w
<1> QED BY <1>2, <1>14, <1>15 DEF HashInv, KeyInv, FinalInv, DoneInv

LEMMA FinalKeeps == HashInv /\ Final => HashInv'
<1> SUFFICES ASSUME HashInv, Final PROVE HashInv'
  OBVIOUS
<1> DEFINE m == Current
           w == Padded(m)
           n == p.count
           l == Len(m)
           rest == <<{7}>> \o Zeros((n % 64) + 1) \o Length(n)
<1>1. m \in Bytes
  BY CurrentType DEF HashInv
<1>2. /\ n \in Nat /\ IsHash(p) /\ todo = <<>> /\ stage = "update" /\ stage' = "final"
      /\ pos' = n % 64 /\ todo' = rest
      /\ UNCHANGED <<job, p, key, kx, data, out>>
  BY DEF HashInv, TypeInv, IsHash, Final
<1>3. m' = m
  BY <1>2 DEF Current
<1>4. Filled(p, w, n \div 64, n % 64) /\ Rest(<<>>, m, n)
  BY <1>2 DEF HashInv, UpdateInv
<1> HIDE DEF m
<1>5. n = l
  <2>1. l \in Nat
    BY <1>1 DEF Bytes
  <2>2. 0 = l - n
    BY <1>4 DEF Rest
  <2> HIDE DEF l
  <2> QED BY <1>2, <2>1, <2>2
<1>6. /\ w \in Bytes /\ l < Len(w) /\ rest \in Bytes /\ Rest(rest, w, n)
  BY <1>1, <1>5, PaddedIs
<1> HIDE DEF w, rest
<1>7. rest # <<>>
  <2> DEFINE k == Len(w)
  <2>1. k \in Nat /\ n < k
    BY <1>5, <1>6 DEF Bytes
  <2>2. Len(rest) = k - n
    BY <1>6 DEF Rest
  <2> HIDE DEF k
  <2>3. Len(rest) # 0
    BY <1>2, <2>1, <2>2
  <2> QED BY <2>3
<1>8. n \div 64 \in Nat /\ n % 64 \in 0..64 /\ (64 * (n \div 64)) + (n % 64) = n
  <2>1. n \in Nat
    BY <1>2
  <2> HIDE DEF n
  <2> QED BY <2>1
<1>9. TypeInv'
  BY <1>2, <1>6, <1>8 DEF HashInv, TypeInv
<1>10. FinalInv'
  <2> DEFINE c == n \div 64
  <2>1. c \in Nat /\ Filled(p', w', c, pos') /\ Rest(todo', w', (64 * c) + pos') /\ todo' # <<>>
    BY <1>2, <1>3, <1>4, <1>6, <1>7, <1>8 DEF w
  <2> HIDE DEF c
  <2> QED BY <2>1 DEF FinalInv, w, m
<1> QED BY <1>2, <1>9, <1>10 DEF HashInv, KeyInv, UpdateInv, DoneInv

LEMMA PadKeeps == HashInv /\ Pad => HashInv'
<1> SUFFICES ASSUME HashInv, Pad PROVE HashInv'
  OBVIOUS
<1> DEFINE m == Current
           w == Padded(m)
           q == IF pos = 64 THEN WriteBlock(p) ELSE p
           n == pos % 64
           x == Head(todo)
<1>1. m \in Bytes
  BY CurrentType DEF HashInv
<1>2. /\ IsHash(p) /\ todo \in Bytes /\ todo # <<>> /\ stage = "final" /\ stage' = "final"
      /\ pos \in 0..64 /\ pos' = n + 1 /\ todo' = Tail(todo)
      /\ p' = [q EXCEPT !.buffer[n] = x]
      /\ UNCHANGED <<job, key, kx, data, out>>
  BY DEF HashInv, TypeInv, Pad
<1>3. m' = m
  BY <1>2 DEF Current
<1>4. PICK c \in Nat : Filled(p, w, c, pos) /\ Rest(todo, w, (64 * c) + pos)
  BY <1>2 DEF HashInv, FinalInv
<1> HIDE DEF m
<1>5. w \in Bytes
  BY <1>1, PaddedIs
<1> HIDE DEF w
<1> DEFINE k == (64 * c) + pos
<1>6. pos \in 0..64
  BY <1>2
<1>7. k \in Nat
  BY <1>6
<1>8. x = w[k + 1] /\ x \in SUBSET Nat /\ Tail(todo) \in Bytes /\ Rest(Tail(todo), w, k + 1)
  <2>1. Rest(todo, w, k)
    BY <1>4
  <2> HIDE DEF k
  <2> QED BY <1>2, <1>5, <1>7, <2>1, RestTail
<1>9. PICK d \in Nat : k = (64 * d) + n /\ IsHash(q) /\ Filled(q, w, d, n)
  <2>1. CASE pos = 64
    <3>1. q = WriteBlock(p) /\ n = 0 /\ k = (64 * (c + 1)) + n
      BY <2>1
    <3>2. IsHash(q) /\ q.state = After(w, c + 1)
      BY <1>2, <1>4, <2>1, <3>1, Compressed
    <3>3. Filled(q, w, c + 1, n)
      BY <3>1, <3>2 DEF Filled
    <3> QED BY <3>1, <3>2, <3>3
  <2>2. CASE pos # 64
    <3>1. q = p /\ n = pos
      BY <1>6, <2>2
    <3> QED BY <1>2, <1>4, <3>1
  <2> QED BY <2>1, <2>2
<1>10. n \in 0..63
  BY <1>6
<1> HIDE DEF q, n, k, x
<1>11. IsHash(p') /\ Filled(p', w, d, n + 1)
  <2>1. x = w[(64 * d) + n + 1]
    BY <1>8, <1>9, <1>10
  <2>2. LET r == [q EXCEPT !.buffer[n] = x]
        IN IsHash(r) /\ Filled(r, w, d, n + 1) /\ r.count = q.count
    <3>1. Added(q, w, d, n, x)
      BY <1>8, <1>9, <1>10, <2>1, ByteIsAdded
    <3> QED BY Zenon, <3>1 DEF Added
  <2> QED BY <1>2, <2>2
<1>12. pos' \in 0..64 /\ pos' > 0
  <2>1. pos' = n + 1
    BY <1>2
  <2> QED BY <1>10, <2>1
<1>13. TypeInv'
  BY <1>2, <1>8, <1>11, <1>12 DEF HashInv, TypeInv
<1>14. FinalInv'
  <2>1. k + 1 = (64 * d) + (n + 1)
    BY <1>9, <1>10
  <2>2. Filled(p', w', d, pos') /\ Rest(todo', w', (64 * d) + pos') /\ pos' > 0
    BY <1>2, <1>3, <1>8, <1>11, <1>12, <2>1 DEF w
  <2> QED BY <2>2 DEF FinalInv, w, m
<1> QED BY <1>2, <1>13, <1>14 DEF HashInv, KeyInv, UpdateInv, DoneInv

LEMMA EndKeeps == HashInv /\ End => HashInv'
<1> SUFFICES ASSUME HashInv, End PROVE HashInv'
  OBVIOUS
<1>1. out' = StandardHash(Current)
  BY LastBlock DEF End
<1>2. out' \in Bytes /\ data' = data /\ key' = key /\ pos' = pos /\ stage = "final" /\ TypeInv
  BY <1>1, StandardHashType DEF End, HashInv
<1>3. CASE job \in {"hash", "outer"}
  <2>1. stage' = "done" /\ p' = sha256_init /\ UNCHANGED <<job, todo, kx>>
    BY <1>3 DEF End
  <2>2. IsHash(p')
    BY <1>2, <2>1, Fresh DEF TypeInv
  <2>3. Current' = Current
    BY <1>2, <2>1 DEF Current
  <2> QED BY <1>1, <1>2, <1>3, <2>1, <2>2, <2>3
          DEF HashInv, TypeInv, KeyInv, UpdateInv, FinalInv, DoneInv
<1>4. CASE job \in {"key", "inner"}
  <2>1. /\ job' \in {"inner", "outer"} /\ stage' = "update" /\ p' = sha256_init
        /\ kx' = ShortKey(key) /\ todo' = Current'
    <3>1. CASE job = "key"
      <4>1. /\ kx' = StandardHash(key) /\ job' = "inner" /\ stage' = "update" /\ p' = sha256_init
            /\ todo' = KeyPad(StandardHash(key), 54) \o data
        BY <1>1, <3>1 DEF End, Begin, Current
      <4>2. ShortKey(key) = StandardHash(key)
        <5> DEFINE n == Len(key)
        <5>1. n > 64 /\ n \in Nat
          BY <1>2, <3>1 DEF HashInv, KeyInv, TypeInv, Bytes
        <5> HIDE DEF n
        <5>2. ~(n <= 64)
          BY <5>1
        <5> QED BY <5>2 DEF ShortKey, n
      <4> QED BY <1>2, <4>1, <4>2 DEF Current, Inner
    <3>2. CASE job = "inner"
      <4>1. /\ kx' = kx /\ job' = "outer" /\ stage' = "update" /\ p' = sha256_init
            /\ todo' = KeyPad(kx, 92) \o StandardHash(Inner(data, key))
        BY <1>1, <3>2 DEF End, Begin, Current
      <4>2. kx = ShortKey(key)
        BY <3>2 DEF HashInv, KeyInv
      <4> QED BY <1>2, <4>1, <4>2 DEF Current, Outer
    <3> QED BY <1>4, <3>1, <3>2
  <2>2. Current' \in Bytes
    <3>1. \A pad : \A k \in Bytes : KeyPad(k, pad) \in Bytes
      BY KeyPadType
    <3>2. ShortKey(key) \in Bytes
      BY <1>2, ShortKeyType DEF TypeInv
    <3>3. Inner(data, key) \in Bytes /\ Outer(data, key) \in Bytes
      BY <1>2, <3>1, <3>2, StandardHashType, Joined DEF TypeInv, Inner, Outer
    <3> QED BY <1>2, <2>1, <3>3 DEF Current
  <2>3. /\ IsHash(p') /\ Filled(p', Padded(Current'), p'.count \div 64, p'.count % 64)
        /\ Rest(todo', Current', p'.count)
    BY <2>1, <2>2, Fresh
  <2>4. TypeInv'
    BY <1>2, <2>1, <2>2, <2>3 DEF TypeInv
  <2>5. UpdateInv'
    BY <2>3 DEF UpdateInv
  <2> QED BY <1>2, <2>1, <2>4, <2>5 DEF HashInv, KeyInv, FinalInv, DoneInv
<1> QED BY <1>2, <1>3, <1>4 DEF TypeInv

LEMMA HashStep == HashInv /\ [HashNext]_hashvars => HashInv'
<1> SUFFICES ASSUME HashInv, [HashNext]_hashvars PROVE HashInv'
  OBVIOUS
<1>1. CASE UNCHANGED hashvars
  <2>1. Current' = Current
    BY <1>1 DEF hashvars, Current
  <2> QED BY <1>1, <2>1 DEF hashvars, HashInv, TypeInv, KeyInv, UpdateInv, FinalInv, DoneInv
<1>2. CASE HashNext
  BY <1>2, UpdateKeeps, FinalKeeps, PadKeeps, EndKeeps DEF HashNext
<1> QED BY <1>1, <1>2

\* sha256_hash and hmac_sha256 give the standard's digests for every message and key.
THEOREM DigestsAreStandard == HashSpec => []DigestIsStandard
<1>1. HashInv => DigestIsStandard
  <2> SUFFICES ASSUME HashInv, stage = "done"
               PROVE  out = IF job = "hash" THEN StandardHash(data) ELSE StandardMac(data, key)
    BY DEF DigestIsStandard
  <2>1. /\ job \in {"hash", "outer"} /\ out = StandardHash(Current)
        /\ data \in Bytes /\ key \in Bytes
    BY DEF HashInv, DoneInv, TypeInv
  <2>2. CASE job = "hash"
    BY <2>1, <2>2 DEF Current
  <2>3. CASE job = "outer"
    BY <2>1, <2>3, MacIs DEF Current
  <2> QED BY <2>1, <2>2, <2>3
<1> QED BY <1>1, InitHashInv, HashStep, PTL DEF HashSpec

-----------------------------------------------------------------------------
(* The division, for every even Modulus                                    *)

\* tmp is the divisor, doubled a number of times: halving undoes doubling.
IsDoubling(f, k, from, to) ==
  /\ f \in [0..k -> Nat] /\ f[0] = from /\ f[k] = to
  /\ \A j \in 0..k : f[j] >= from
  /\ \A j \in 1..k : f[j] = 2 * f[j - 1]
Doubling(from, to) == \E k \in Nat : \E f \in [0..k -> Nat] : IsDoubling(f, k, from, to)

\* What is not in num any more is in quo.
DivisionInv ==
  /\ pc = "call" => num = arg
  /\ pc = "double" =>
       num = arg /\ quo = 0 /\ Doubling(dem, tmp) /\ tmp >= dem
  /\ pc = "subtract" =>
       /\ Doubling(dem, tmp) /\ tmp >= dem /\ num < 2 * tmp
       /\ arg = quo * tmp + num
  /\ Quotient

\* Operands for which the doubled quotient is still a word.
Small == dem > 1 \/ 2 * arg < Modulus
\* A number is itself doubled no time.
LEMMA DoublingStart == ASSUME NEW d \in Nat PROVE Doubling(d, d)
<1> USE UidivAssumption
<1> DEFINE f == [j \in 0..0 |-> d]
<1>1. IsDoubling(f, 0, d, d)
  BY DEF IsDoubling
<1>2. f \in [0..0 -> Nat]
  OBVIOUS
<1> QED BY <1>1, <1>2 DEF Doubling
\* Doubled once more.
LEMMA DoublingDoubles ==
  ASSUME NEW d \in Nat, NEW t \in Nat, Doubling(d, t), t >= d
  PROVE  Doubling(d, 2 * t)
<1> USE UidivAssumption
<1>1. PICK k \in Nat : \E f \in [0..k -> Nat] : IsDoubling(f, k, d, t)
  BY DEF Doubling
<1>2. PICK f \in [0..k -> Nat] : IsDoubling(f, k, d, t)
  BY <1>1
<1> DEFINE g == [j \in 0..(k + 1) |-> IF j = k + 1 THEN 2 * t ELSE f[j]]
<1>3. g \in [0..(k + 1) -> Nat]
  BY <1>2
<1>4. g[0] = d /\ g[k + 1] = 2 * t
  BY <1>2 DEF IsDoubling
<1>5. ASSUME NEW j \in 1..(k + 1) PROVE g[j] = 2 * g[j - 1]
  <2>1. CASE j = k + 1
    BY <2>1, <1>2 DEF IsDoubling
  <2>2. CASE j # k + 1
    BY <2>2, <1>2, j \in 1..k, j - 1 \in 0..k DEF IsDoubling
  <2> QED BY <2>1, <2>2
<1>6. ASSUME NEW j \in 0..(k + 1) PROVE g[j] >= d
  BY <1>2 DEF IsDoubling
<1>7. IsDoubling(g, k + 1, d, 2 * t)
  BY <1>3, <1>4, <1>5, <1>6 DEF IsDoubling
<1> QED BY <1>3, <1>7, k + 1 \in Nat DEF Doubling
\* What was doubled is halved, or is the divisor again.
LEMMA DoublingHalves ==
  ASSUME NEW d \in Nat \ {0}, NEW t \in Nat, Doubling(d, t)
  PROVE  \/ t = d
         \/ t = 2 * Shr(t) /\ Shr(t) >= d /\ Shr(t) \in Nat /\ Doubling(d, Shr(t))
<1> USE UidivAssumption
<1>1. PICK k \in Nat : \E f \in [0..k -> Nat] : IsDoubling(f, k, d, t)
  BY DEF Doubling
<1>2. PICK f \in [0..k -> Nat] : IsDoubling(f, k, d, t)
  BY <1>1
<1>3. CASE k = 0
  BY <1>2, <1>3 DEF IsDoubling
<1>4. CASE k # 0
  <2> DEFINE g == [j \in 0..(k - 1) |-> f[j]]
  <2>1. k \in 1..k /\ k - 1 \in 0..k
    BY <1>4
  <2>2. f[k - 1] \in Nat /\ t = 2 * f[k - 1]
    BY <1>2, <2>1 DEF IsDoubling
  <2>3. f[k - 1] = Shr(t)
    BY <2>2 DEF Shr
  <2>4. g \in [0..(k - 1) -> Nat]
    OBVIOUS
  <2>5. IsDoubling(g, k - 1, d, Shr(t))
    BY <1>2, <1>4, <2>3, <2>4 DEF IsDoubling
  <2>6. Doubling(d, Shr(t))
    <3>1. k - 1 \in Nat
      BY <1>4
    <3> HIDE DEF g
    <3> QED BY <3>1, <2>4, <2>5 DEF Doubling
  <2>7. Shr(t) >= d
    BY <1>2, <2>1, <2>3 DEF IsDoubling
  <2> QED BY <2>2, <2>3, <2>6, <2>7
<1> QED BY <1>3, <1>4
\* Every step of the division stays within the words.
LEMMA DivisionTypeStep == TypeOK /\ [Next]_vars => TypeOK'
<1> USE UidivAssumption
<1> SUFFICES ASSUME TypeOK, [Next]_vars PROVE TypeOK'
  OBVIOUS
<1>1. \A w \in Word : Shl(w) \in Word /\ Shr(w) \in Word
  BY DEF Word, Shl, Shr
<1>2. CASE Call
  BY <1>2 DEF TypeOK, Call, Init, Word
<1>3. CASE Double
  BY <1>1, <1>3 DEF TypeOK, Double, Word, Shl, Shr
<1>4. CASE Subtract
  BY <1>1, <1>4 DEF TypeOK, Subtract, Word, Shl, Shr
<1>5. CASE UNCHANGED vars
  BY <1>5 DEF TypeOK, vars
<1> QED BY <1>2, <1>3, <1>4, <1>5 DEF Next

\* Every number uidiv computes with is a word, and neither the divisor nor its
\* doublings are 0 in the loops.
THEOREM DivisionTypeCorrect == Spec => []TypeOK
<1> USE UidivAssumption
<1>1. Init => TypeOK
  BY DEF Init, TypeOK, Word
<1> QED BY <1>1, DivisionTypeStep, PTL DEF Spec
\* One turn of the first loop.
LEMMA DoubleStep ==
  ASSUME TypeOK, DivisionInv, Double
  PROVE  DivisionInv'
<1> USE UidivAssumption
<1> USE DEF TypeOK, Word
<1>1. pc = "double" /\ num = arg /\ quo = 0 /\ Doubling(dem, tmp) /\ tmp >= dem
  BY DEF DivisionInv, Double
<1>2. CASE tmp <= Shr(num) /\ tmp' = Shl(tmp) /\ UNCHANGED pc
  <2>1. tmp' = 2 * tmp
    BY <1>2 DEF Shl, Shr
  <2>2. Doubling(dem, 2 * tmp)
    BY <1>1, DoublingDoubles
  <2>3. Doubling(dem, tmp)'
    BY <2>1, <2>2 DEF Double, Doubling, IsDoubling
  <2> QED BY <1>1, <1>2, <2>1, <2>3 DEF DivisionInv, Double, Quotient
<1>3. CASE tmp > Shr(num) /\ pc' = "subtract" /\ UNCHANGED tmp
  <2>1. num < 2 * tmp
    BY <1>3 DEF Shr
  <2>2. Doubling(dem, tmp)'
    BY <1>1, <1>3 DEF Double, Doubling, IsDoubling
  <2> QED BY <1>1, <1>3, <2>1, <2>2 DEF DivisionInv, Double, Quotient
<1> QED BY <1>2, <1>3 DEF Double

\* One turn of the second loop. The doubled quotient is still a word.
LEMMA SubtractStep ==
  ASSUME TypeOK, DivisionInv, Small, Subtract
  PROVE  DivisionInv'
<1> USE UidivAssumption
<1> USE DEF TypeOK, Word
<1> DEFINE q == IF num >= tmp THEN quo + 1 ELSE quo
<1>1. /\ pc = "subtract" /\ Doubling(dem, tmp) /\ tmp >= dem /\ num < 2 * tmp
      /\ arg = quo * tmp + num /\ dem > 0
  BY DEF DivisionInv, Subtract
<1>2. q \in Nat /\ num' \in Nat /\ num' < tmp
  BY <1>1 DEF Subtract
<1>3. arg = q * tmp + num'
  <2>1. CASE num >= tmp
    <3>1. (quo + 1) * tmp = quo * tmp + tmp
      OBVIOUS
    <3> QED BY <2>1, <3>1, <1>1 DEF Subtract
  <2>2. CASE ~(num >= tmp)
    BY <2>2, <1>1 DEF Subtract
  <2> QED BY <2>1, <2>2
<1> HIDE DEF q
<1>4. 2 * q < Modulus
  <2>1. PICK product \in Nat : product = q * tmp
    BY <1>2
  <2>2. PICK n \in Nat : n = num'
    BY <1>2
  <2>3. arg = product + n
    BY <1>3, <2>1, <2>2
  <2>4. product <= arg
    BY <2>3
  <2>5. CASE tmp >= 2
    <3>1. q * tmp >= q * 2
      BY <2>5, <1>2
    <3>2. 2 * q <= product
      BY <1>2, <2>1, <3>1
    <3> QED BY <1>2, <2>1, <2>4, <3>2
  <2>6. CASE tmp = 1
    <3>1. 2 * arg < Modulus
      BY <2>6, <1>1 DEF Small
    <3>2. q * tmp = q
      BY <2>6, <1>2
    <3> QED BY <1>2, <2>1, <2>4, <3>1, <3>2
  <2> QED BY <2>5, <2>6, <1>1
<1>5. Shl(q) = 2 * q /\ Shr(Shl(q)) = q
  BY <1>2, <1>4 DEF Shl, Shr
<1>6. tmp' = Shr(tmp) /\ UNCHANGED <<arg, dem>>
  BY DEF Subtract
<1>7. \/ tmp' >= dem /\ quo' = 2 * q /\ UNCHANGED pc
      \/ tmp' < dem /\ quo' = q /\ pc' = "return"
  BY <1>5 DEF Subtract, q
<1>8. \/ tmp = dem
      \/ tmp = 2 * Shr(tmp) /\ Shr(tmp) >= dem /\ Shr(tmp) \in Nat /\ Doubling(dem, Shr(tmp))
  BY <1>1, DoublingHalves
<1>9. CASE tmp = dem
  <2>1. tmp' < dem
    BY <1>1, <1>6, <1>9 DEF Shr
  <2>2. quo' = q /\ pc' = "return"
    <3>1. tmp' \in Nat /\ dem \in Nat
      BY <1>6 DEF Shr
    <3> QED BY <1>7, <2>1, <3>1
  <2>3. arg' = quo' * dem' + num'
    BY <1>3, <1>6, <1>9, <2>2
  <2>4. num' \in 0..(dem' - 1)
    BY <1>2, <1>6, <1>9
  <2> QED BY <1>6, <2>2, <2>3, <2>4 DEF DivisionInv, Quotient
<1>10. CASE tmp = 2 * Shr(tmp) /\ Shr(tmp) >= dem /\ Shr(tmp) \in Nat /\ Doubling(dem, Shr(tmp))
  <2>1. quo' = 2 * q /\ pc' = "subtract"
    BY <1>1, <1>6, <1>7, <1>10
  <2>2. Doubling(dem, tmp)'
    BY <1>6, <1>10 DEF Doubling, IsDoubling
  <2>3. q * (2 * Shr(tmp)) = (2 * q) * Shr(tmp)
    BY <1>2, <1>10
  <2>4. arg' = quo' * tmp' + num'
    BY <1>3, <1>6, <1>10, <2>1, <2>3
  <2> QED BY <1>2, <1>6, <1>10, <2>1, <2>2, <2>4 DEF DivisionInv, Quotient
<1> QED BY <1>8, <1>9, <1>10

\* uidiv returns the quotient and the remainder, whatever the width of a word,
\* unless the divisor is 1 and the numerator is of the upper half.
THEOREM Division == Spec => []DivisionIsRight
<1> USE UidivAssumption
<1> DEFINE Inv == TypeOK /\ (Small => DivisionInv)
<1>1. Init => Inv
  BY DEF Init, TypeOK, Word, DivisionInv, Quotient
<1>2. Inv /\ [Next]_vars => Inv'
  <2> SUFFICES ASSUME Inv, [Next]_vars, Small' PROVE DivisionInv'
    BY DivisionTypeStep
  <2>1. Small
    BY DEF Small, Next, Call, Double, Subtract, vars
  <2>2. CASE Call
    <3>1. CASE dem = 0
      BY <2>2, <3>1 DEF Call, DivisionInv, Quotient
    <3>2. CASE dem # 0
      <4>1. Doubling(dem, dem)
        BY DoublingStart DEF TypeOK, Word
      <4>2. Doubling(dem, tmp)'
        BY <2>2, <4>1 DEF Call, Doubling, IsDoubling
      <4> QED BY <2>1, <2>2, <3>2, <4>2 DEF Call, DivisionInv, Quotient, TypeOK, Word
    <3> QED BY <3>1, <3>2
  <2>3. CASE Double
    BY <2>1, <2>3, DoubleStep
  <2>4. CASE Subtract
    BY <2>1, <2>4, SubtractStep
  <2>5. CASE UNCHANGED vars
    BY <2>1, <2>5 DEF vars, DivisionInv, Quotient, Doubling, IsDoubling
  <2> QED BY <2>2, <2>3, <2>4, <2>5 DEF Next
<1>3. Inv => DivisionIsRight
  BY DEF DivisionInv, DivisionIsRight, Small
<1> QED BY <1>1, <1>2, <1>3, PTL DEF Spec

\* So does every division of a behaviour of MCLibrary.
COROLLARY DivisionsAreRight == MCSpec => []DivisionIsRight
<1>1. MCInit => Init
  BY DEF MCInit, NoDivision
<1>2. [MCNext]_mcvars => [Next]_vars
  BY DEF MCNext, mcvars, vars, Divide, Hash, Test
<1>3. [][Next]_vars /\ Init => []DivisionIsRight
  BY Division DEF Spec
<1> QED BY <1>1, <1>2, <1>3, PTL DEF MCSpec

-----------------------------------------------------------------------------
(* The roundtrip test, for any contents of a sector and any pattern        *)

\* What is known at each step of the test: the original is the first content from
\* the write on; the sector is changed only by writes, and behind a restoration
\* that was reported it is the original unless a write was reported falsely.
TestKnown ==
  /\ step = "read" => sector = first /\ report = "none"
  /\ step \in {"write", "verify", "restore", "check"} => original = first /\ report = "none"
  /\ step = "restore" /\ ~failed => held
  /\ step = "check" => held /\ (sector = first \/ untrue)

TestInv == TestTypeOK /\ TestKnown /\ RoundtripRestores

\* The first states satisfy the invariant.
LEMMA TestInitInvariant == ASSUME TestInit PROVE TestInv
  BY RoundtripAssumption DEF TestInit, TestInv, TestTypeOK, TestKnown, RoundtripRestores, Reports

\* Every step of the test preserves it.
LEMMA TestStepInvariant == ASSUME TestInv, [TestNext]_testvars PROVE TestInv'
<1> USE DEF TestInv, TestTypeOK, TestKnown, RoundtripRestores, Reports
<1>1. CASE UNCHANGED testvars
  BY <1>1 DEF testvars
<1>2. CASE TestNext
  <2> PICK ok \in BOOLEAN :
        ReadOriginal(ok) \/ WritePattern(ok) \/ Verify(ok) \/ Restore(ok) \/ Check(ok)
    BY <1>2 DEF TestNext
  <2>1. CASE ReadOriginal(ok)
    BY <2>1 DEF ReadOriginal, Report
  <2>2. CASE WritePattern(ok)
    BY <2>2, RoundtripAssumption DEF WritePattern, emmc_write_sector
  <2>3. CASE Verify(ok)
    <3>1. failed' \in BOOLEAN /\ held' \in BOOLEAN
      BY <2>3 DEF Verify
    <3>2. readback' \in Blocks
      BY <2>3 DEF Verify
    <3>3. ~failed' => held'
      BY <2>3 DEF Verify
    <3> QED BY <2>3, <3>1, <3>2, <3>3 DEF Verify
  <2>4. CASE Restore(ok)
    BY <2>4 DEF Restore, emmc_write_sector, Report
  <2>5. CASE Check(ok)
    BY <2>5 DEF Check, Report
  <2> QED BY <2>1, <2>2, <2>3, <2>4, <2>5
<1> QED BY <1>1, <1>2

\* A test that reports success has stored and read back the pattern and restored the
\* sector, and the sector is lost only with the report that it could not be restored
\* or behind a write that was reported falsely.
THEOREM TestRestores == TestSpec => []RoundtripRestores
<1>1. TestInit => TestInv BY TestInitInvariant
<1>2. TestInv /\ [TestNext]_testvars => TestInv' BY TestStepInvariant
<1>3. TestInv => RoundtripRestores BY DEF TestInv
<1> QED BY <1>1, <1>2, <1>3, PTL DEF TestSpec

\* So does every test of a behaviour of MCLibrary.
COROLLARY RoundtripIsRight == MCSpec => []RoundtripRestores
<1>1. MCInit => TestInit
  BY DEF MCInit, NoTest
<1>2. [MCNext]_mcvars => [TestNext]_testvars
  BY DEF MCNext, mcvars, Divide, Hash, Test
<1> QED BY <1>1, <1>2, TestRestores, PTL DEF MCSpec, TestSpec

-----------------------------------------------------------------------------
(* The hash, of the messages of the behaviours                             *)

\* The messages are sequences of bytes.
LEMMA MessageType ==
  ASSUME NEW n \in Nat
  PROVE  Message(n) \in Bytes
<1>1. \A i \in 1..n : Message(n)[i] \in SUBSET Nat
  BY DEF Message, Bits
<1>2. Message(n) = [i \in 1..n |-> Message(n)[i]]
  BY DEF Message
<1> QED BY <1>1, <1>2, IsBytes

\* A behaviour of the module is, for the hash, one of HashSpec.
LEMMA SpecIsHash == MCSpec => HashSpec
<1>1. MCInit => HashInit
  <2>1. <<>> \in Bytes /\ Abc \in Bytes
    BY DEF Abc, Bytes, Bits
  <2>2. \A n \in Nat : Message(n) \in Bytes
    BY MessageType
  <2>3. Lengths \subseteq Nat /\ {0, 284} \subseteq Nat /\ {32, 64, 65} \subseteq Nat
    BY DEF Lengths
  <2> QED BY <2>1, <2>2, <2>3 DEF MCInit, HashInit, NoHash
<1>2. [MCNext]_mcvars => [HashNext]_hashvars
  BY DEF MCNext, mcvars, Divide, Hash, Test
<1> QED BY <1>1, <1>2, PTL DEF MCSpec, HashSpec

\* sha256_hash and hmac_sha256 return the digests of the standard.
THEOREM DigestsAreRight == MCSpec => []DigestIsOfMessage
<1>1. DigestIsStandard => DigestIsOfMessage
  BY DEF DigestIsOfMessage
<1> QED BY <1>1, SpecIsHash, DigestsAreStandard, PTL

-----------------------------------------------------------------------------
(* The clock                                                               *)

\* What a quotient is, and that nothing else is it.
LEMMA Quotients ==
  ASSUME NEW a \in Nat, NEW b \in Nat \ {0}
  PROVE  a \div b \in Nat /\ b * (a \div b) <= a /\ a < b * (a \div b) + b
OBVIOUS

\* The only number between the bounds is the quotient.
LEMMA QuotientIs ==
  ASSUME NEW a \in Nat, NEW b \in Nat \ {0}, NEW q \in Nat, b * q <= a, a < b * q + b
  PROVE  a \div b = q
OBVIOUS

\* Multiplying keeps the order.
LEMMA Grows ==
  ASSUME NEW a \in Nat \ {0}, NEW x \in Nat, NEW y \in Nat
  PROVE  (a * x <= a * y <=> x <= y) /\ (a * x < a * y <=> x < y)
OBVIOUS

\* Dividing by four and then by d is dividing by 4 * d.
LEMMA DividedTwice ==
  ASSUME NEW a \in Nat, NEW d \in Nat \ {0}
  PROVE  (a \div 4) \div d = a \div (4 * d)
<1> DEFINE k == a \div 4
<1>1. k \in Nat /\ 4 * k <= a /\ a < 4 * k + 4
  OBVIOUS
<1> HIDE DEF k
<1> DEFINE q == k \div d
<1>2. q \in Nat /\ d * q <= k /\ k < d * q + d
  <2> HIDE DEF q
  <2>1. \A x \in Nat, y \in Nat \ {0} :
          x \div y \in Nat /\ y * (x \div y) <= x /\ x < y * (x \div y) + y
    BY Quotients
  <2> QED BY <1>1, <2>1 DEF q
<1> HIDE DEF q
<1> DEFINE m == d * q
<1>3. m \in Nat /\ m <= k /\ k + 1 <= m + d
  <2>1. d * q \in Nat
    BY <1>2
  <2> QED BY <1>1, <1>2, <2>1
<1>4. (4 * d) * q = 4 * m
  BY <1>2
<1> HIDE DEF m
<1>5. 4 * m <= a /\ a < 4 * m + 4 * d
  BY <1>1, <1>3
<1>6. a \div (4 * d) = q
  <2> DEFINE f == 4 * d
  <2>1. f \in Nat \ {0} /\ f * q <= a /\ a < f * q + f
    BY <1>4, <1>5
  <2> HIDE DEF f
  <2>2. a \div f = q
    BY <1>2, <2>1, QuotientIs
  <2> QED BY <2>2 DEF f
<1> QED BY <1>6 DEF q, k

\* The divisor is the smallest that does not make the clock too fast.
LEMMA Divisor ==
  ASSUME NEW src \in Nat, NEW hz \in Nat \ {0}, src > 0
  PROVE  LET d == S!Divisor(src, hz)
         IN /\ d \in Nat \ {0} /\ src <= 4 * hz * d
            /\ \A e \in Nat : e < d => 4 * hz * e < src
<1> DEFINE b == 4 * hz
           d == (src + (b - 1)) \div b
<1>1. b \in Nat \ {0}
  OBVIOUS
<1>2. S!Divisor(src, hz) = d
  BY DEF S!Divisor
<1> HIDE DEF b
<1>3. d \in Nat /\ b * d <= src + (b - 1) /\ src + (b - 1) < b * d + b
  <2> DEFINE a == src + (b - 1)
  <2>1. a \in Nat
    BY <1>1
  <2> HIDE DEF a
  <2> QED BY <1>1, <2>1, Quotients DEF a
<1> HIDE DEF d
<1>4. d # 0
  BY <1>1, <1>3
<1>5. ASSUME NEW e \in Nat, e < d
      PROVE  b * e < src
  <2>1. PICK r \in Nat : d = e + 1 + r
    <3>1. d - e - 1 \in Nat /\ d = e + 1 + (d - e - 1)
      BY <1>3, <1>5
    <3> QED BY <3>1
  <2>2. b * d = b * e + b + b * r /\ b * r \in Nat /\ b * e \in Nat /\ b * d \in Nat
    BY <1>1, <2>1
  <2> QED BY <1>1, <1>3, <2>2
<1> QED BY <1>1, <1>2, <1>3, <1>4, <1>5 DEF b

\* The factors the one of c is compared with.
Factors(c) == {1, 2} \cup {4 * d : d \in 1..(c.div + 1)}

\* A clock with a divisor is as fast as it may be.
LEMMA Divided ==
  ASSUME NEW src \in Nat, NEW hz \in Nat \ {0}, hz < src \div 2,
         NEW c, c = [mode |-> 0, div |-> S!Divisor(src, hz),
                     sclk |-> (src \div 4) \div S!Divisor(src, hz)]
  PROVE  /\ c.sclk = src \div S!Factor(c) /\ c.sclk <= hz /\ c.div \in Nat \ {0}
         /\ \A f \in Factors(c) : f < S!Factor(c) => src > hz * f
         /\ 4 * hz * (c.div - 1) < src
<1> DEFINE d == S!Divisor(src, hz)
<1>1. src > 0 /\ 2 * hz < src
  OBVIOUS
<1>2. /\ d \in Nat \ {0} /\ src <= 4 * hz * d
      /\ \A e \in Nat : e < d => 4 * hz * e < src
  BY <1>1, Divisor
<1>3. c = [mode |-> 0, div |-> d, sclk |-> (src \div 4) \div d]
  OBVIOUS
<1> HIDE DEF d
<1>4. S!Factor(c) = 4 * d
  <2>1. c.mode = 0 /\ c.div = d /\ d # 0
    BY <1>2, <1>3
  <2> QED BY <2>1 DEF S!Factor
<1> DEFINE b == 4 * d
           q == src \div b
<1>5. c.sclk = q
  <2>1. c.sclk = (src \div 4) \div d
    BY <1>3
  <2> QED BY <1>2, <2>1, DividedTwice
<1>6. b \in Nat \ {0}
  BY <1>2
<1>7. src <= b * hz
  BY <1>2
<1> HIDE DEF b
<1>8. q \in Nat /\ b * q <= src
  BY <1>6, Quotients
<1> HIDE DEF q
<1>9. q <= hz
  <2> DEFINE x == b * q
             y == b * hz
  <2>1. x <= src /\ src <= y /\ x \in Nat /\ y \in Nat
    BY <1>6, <1>7, <1>8
  <2>2. x <= y <=> q <= hz
    BY <1>6, <1>8, Grows
  <2> HIDE DEF x, y
  <2> QED BY <2>1, <2>2
<1>10. ASSUME NEW f \in Factors(c), f < b
      PROVE  src > hz * f
  <2>1. CASE f \in {1, 2}
    BY <1>1, <2>1
  <2>2. CASE f \notin {1, 2}
    <3>1. PICK e \in 1..(d + 1) : f = 4 * e
      BY <1>3, <1>10, <2>2 DEF Factors
    <3>2. e \in Nat /\ e < d
      BY <1>2, <1>10, <3>1 DEF b
    <3>3. 4 * hz * e < src
      BY <1>2, <3>2
    <3>4. hz * (4 * e) = 4 * hz * e
      BY <3>2
    <3> QED BY <3>1, <3>3, <3>4
  <2> QED BY <2>1, <2>2
<1>11. 4 * hz * (d - 1) < src
  <2>1. d - 1 \in Nat /\ d - 1 < d
    BY <1>2
  <2> QED BY <1>2, <2>1
<1>12. c.div = d
  BY <1>3
<1> QED BY <1>2, <1>4, <1>5, <1>9, <1>10, <1>11, <1>12 DEF b, q

\* So is one without.
LEMMA Undivided ==
  ASSUME NEW src \in Nat, NEW hz \in Nat \ {0}, NEW c,
         \/ hz >= src /\ c = [mode |-> 1, div |-> 0, sclk |-> src]
         \/ hz < src /\ hz >= src \div 2 /\ c = [mode |-> 0, div |-> 0, sclk |-> src \div 2]
  PROVE  /\ c.sclk = src \div S!Factor(c) /\ c.sclk <= hz /\ c.div = 0
         /\ \A f \in Factors(c) : f < S!Factor(c) => src > hz * f
<1>1. CASE hz >= src /\ c = [mode |-> 1, div |-> 0, sclk |-> src]
  <2>1. S!Factor(c) = 1 /\ c.sclk = src /\ c.div = 0
    BY <1>1 DEF S!Factor
  <2>2. \A f \in Factors(c) : ~(f < 1)
    BY <2>1 DEF Factors
  <2>3. c.sclk = src \div S!Factor(c)
    BY <2>1
  <2>4. c.sclk <= hz
    BY <1>1, <2>1
  <2> QED BY <2>1, <2>2, <2>3, <2>4
<1>2. CASE hz < src /\ hz >= src \div 2 /\ c = [mode |-> 0, div |-> 0, sclk |-> src \div 2]
  <2>1. S!Factor(c) = 2 /\ c.sclk = src \div 2 /\ c.div = 0
    BY <1>2 DEF S!Factor
  <2>2. \A f \in Factors(c) : f < 2 => f = 1
    BY <2>1 DEF Factors
  <2> QED BY <1>2, <2>1, <2>2
<1> QED BY <1>1, <1>2

\* Twelve bits hold the divisor.
LEMMA FitsTwelveBits ==
  ASSUME NEW low \in Nat \ {0}, NEW hz \in Nat, low <= hz, NEW n \in Nat, NEW d \in Nat,
         4 * hz * (d - 1) < 4 * low * n
  PROVE  d <= n
<1> SUFFICES ASSUME d > n PROVE FALSE
  OBVIOUS
<1> DEFINE e == d - 1
<1>1. e \in Nat /\ n <= e
  OBVIOUS
<1>2. 4 * hz * e < 4 * low * n
  OBVIOUS
<1> HIDE DEF e
<1>3. low * n <= low * e /\ low * e <= hz * e
  BY <1>1
<1> QED BY <1>1, <1>2, <1>3

\* The clock of msdc_config_clock is the fastest that is not faster than asked for, and
\* its divisor fits the register, for every frequency asked for and every source clock
\* at which the sum that is divided stays below 2^32.
THEOREM ClockIsRight ==
  ASSUME NEW src \in Nat, NEW asked \in Nat, src + (4 * 200000000 - 1) < 4294967296
  PROVE  S!ClockFits(src, asked)
<1> DEFINE low == 260000
           top == 200000000
           c == S!msdc_config_clock(src, asked)
           hz == IF asked >= top THEN top ELSE IF asked < low THEN low ELSE asked
           limit == IF asked < low THEN low ELSE IF asked > top THEN top ELSE asked
<1>1. low \in Nat \ {0} /\ top \in Nat /\ low <= top
  OBVIOUS
<1>2. c = IF hz >= src THEN [mode |-> 1, div |-> 0, sclk |-> src]
          ELSE IF hz >= src \div 2 THEN [mode |-> 0, div |-> 0, sclk |-> src \div 2]
          ELSE [mode |-> 0, div |-> S!Divisor(src, hz),
                sclk |-> (src \div 4) \div S!Divisor(src, hz)]
  BY DEF S!msdc_config_clock
<1>3. S!ClockFits(src, asked) <=>
        /\ c.sclk = src \div S!Factor(c) /\ c.sclk <= limit
        /\ \A f \in Factors(c) : f < S!Factor(c) => src > limit * f
        /\ c.div < 4096
  BY DEF S!ClockFits, Factors
<1>4. src <= 4 * low * 4095
  BY SMT
<1> HIDE DEF low, top, c
<1>5. hz \in Nat \ {0} /\ hz = limit /\ low <= hz
  BY <1>1
<1> HIDE DEF hz, limit
<1>6. CASE hz >= src
  <2>1. c = [mode |-> 1, div |-> 0, sclk |-> src]
    BY <1>2, <1>6
  <2>2. /\ c.sclk = src \div S!Factor(c) /\ c.sclk <= hz /\ c.div = 0
        /\ \A f \in Factors(c) : f < S!Factor(c) => src > hz * f
    BY <1>5, <1>6, <2>1, Undivided
  <2> QED BY <1>3, <1>5, <2>2
<1>7. CASE hz < src /\ hz >= src \div 2
  <2>1. c = [mode |-> 0, div |-> 0, sclk |-> src \div 2]
    BY <1>2, <1>5, <1>7
  <2>2. /\ c.sclk = src \div S!Factor(c) /\ c.sclk <= hz /\ c.div = 0
        /\ \A f \in Factors(c) : f < S!Factor(c) => src > hz * f
    BY <1>5, <1>7, <2>1, Undivided
  <2> QED BY <1>3, <1>5, <2>2
<1>8. CASE hz < src /\ hz < src \div 2
  <2>1. c = [mode |-> 0, div |-> S!Divisor(src, hz),
             sclk |-> (src \div 4) \div S!Divisor(src, hz)]
    BY <1>2, <1>5, <1>8
  <2>2. /\ c.sclk = src \div S!Factor(c) /\ c.sclk <= hz /\ c.div \in Nat \ {0}
        /\ \A f \in Factors(c) : f < S!Factor(c) => src > hz * f
        /\ 4 * hz * (c.div - 1) < src
    BY <1>5, <1>8, <2>1, Divided
  <2>3. c.div < 4096
    <3> DEFINE d == c.div
               x == 4 * hz * (d - 1)
               y == 4 * low * 4095
    <3>1. d \in Nat \ {0} /\ x < src
      BY <2>2
    <3> HIDE DEF d
    <3>2. x \in Int /\ y \in Int /\ src <= y
      BY <1>1, <1>4, <1>5, <3>1
    <3>3. x < y
      <4> HIDE DEF x, y
      <4> QED BY <3>1, <3>2
    <3>4. d <= 4095
      BY <1>1, <1>5, <3>1, <3>3, FitsTwelveBits
    <3> QED BY <3>1, <3>4 DEF d
  <2> QED BY <1>3, <1>5, <2>2, <2>3
<1> QED BY <1>5, <1>6, <1>7, <1>8

-----------------------------------------------------------------------------
(* The voltage and the bus width                                           *)

\* A step of the search for the lowest bit.
Behind(x, s, k) == s + IF S!Low(S!ShiftRight(x, s), k) = {} THEN k ELSE 0

\* The lowest bit is one of n behind s.
Lowest(x, s, n) == s \in Nat /\ (\A b \in x : b >= s) /\ (\E b \in x : b < s + n)

\* A step keeps the lowest bit in sight.
LEMMA Halved ==
  ASSUME NEW x \in SUBSET Nat, NEW s, NEW k \in Nat, NEW n, n = k + k, Lowest(x, s, n)
  PROVE  Lowest(x, Behind(x, s, k), k)
<1>1. s \in Nat /\ (\A b \in x : b \in Nat /\ b >= s) /\ (\E b \in x : b < s + n)
  BY DEF Lowest
<1>2. S!Low(S!ShiftRight(x, s), k) = {} <=> \A b \in x : b >= s + k
  <2>1. ASSUME NEW b \in x
        PROVE  ~(b < s) /\ (b - s < k <=> b < s + k) /\ (~(b < s + k) <=> b >= s + k)
    <3>1. b \in Nat /\ b >= s /\ s \in Nat
      BY <1>1
    <3> QED BY <3>1
  <2>2. S!Low(x, s) = {}
    BY <2>1 DEF S!Low
  <2>3. S!ShiftRight(x, s) = {b - s : b \in x}
    BY <2>2 DEF S!ShiftRight
  <2> QED BY <2>1, <2>3 DEF S!Low
<1>3. CASE \A b \in x : b >= s + k
  <2>1. Behind(x, s, k) = s + k
    BY <1>2, <1>3 DEF Behind
  <2> QED BY <1>1, <1>3, <2>1 DEF Lowest
<1>4. CASE ~ \A b \in x : b >= s + k
  <2>1. Behind(x, s, k) = s
    BY <1>1, <1>2, <1>4 DEF Behind
  <2> QED BY <1>1, <1>4, <2>1 DEF Lowest
<1> QED BY <1>3, <1>4

\* uffs names the lowest bit of a word, counted from 1.
LEMMA LowestBit ==
  ASSUME NEW x \in SUBSET (0..31), x # {}
  PROVE  S!uffs(x) - 1 \in x /\ S!uffs(x) \in Nat /\ \A b \in x : b >= S!uffs(x) - 1
<1> DEFINE q16 == IF S!Low(x, 16) = {} THEN 16 ELSE 0
           q8 == Behind(x, q16, 8)
           q4 == Behind(x, q8, 4)
           q2 == Behind(x, q4, 2)
           q1 == Behind(x, q2, 1)
<1>1. S!uffs(x) = q1 + 1
  BY DEF S!uffs, Behind
<1>2. x \in SUBSET Nat /\ \A b \in x : b \in 0..31
  OBVIOUS
<1>3. Lowest(x, q16, 16)
  <2>1. CASE S!Low(x, 16) = {}
    <3>1. q16 = 16
      BY <2>1
    <3>2. \A b \in x : ~(b < 16)
      BY <2>1 DEF S!Low
    <3>3. \A b \in x : b >= 16 /\ b < 16 + 16
      BY <1>2, <3>2
    <3> QED BY <3>1, <3>3 DEF Lowest
  <2>2. CASE S!Low(x, 16) # {}
    <3>1. q16 = 0
      BY <2>2
    <3>2. \E b \in x : b < 16
      BY <2>2 DEF S!Low
    <3>3. \A b \in x : b >= 0
      BY <1>2
    <3> QED BY <3>1, <3>2, <3>3 DEF Lowest
  <2> QED BY <2>1, <2>2
<1> HIDE DEF q16, q8, q4, q2, q1
<1>4. Lowest(x, q8, 8)
  BY <1>2, <1>3, Halved DEF q8
<1>5. Lowest(x, q4, 4)
  BY <1>2, <1>4, Halved DEF q4
<1>6. Lowest(x, q2, 2)
  BY <1>2, <1>5, Halved DEF q2
<1>7. Lowest(x, q1, 1)
  BY <1>2, <1>6, Halved DEF q1
<1>8. q1 \in Nat /\ (\A b \in x : b >= q1) /\ q1 \in x
  BY <1>2, <1>7 DEF Lowest
<1> QED BY <1>1, <1>8

\* mmc_select_voltage chooses the lowest voltage both sides have, and at most its
\* neighbour with it, from any two OCRs.
THEOREM VoltageIsRight ==
  ASSUME NEW ocr_avail \in SUBSET (0..31), NEW ocr \in SUBSET (0..31)
  PROVE  S!VoltageFits(ocr_avail, ocr)
<1> DEFINE common == ocr \cap ocr_avail
           bit == S!uffs(common)
           v == S!mmc_select_voltage(ocr_avail, ocr)
<1>1. S!VoltageFits(ocr_avail, ocr) <=>
        v \subseteq common /\ (\A b \in common : \E low \in v : low <= b)
          /\ \A a, b \in v : a - b <= 1
  BY DEF S!VoltageFits
<1>2. CASE common = {}
  <2>1. v = {}
    BY <1>2 DEF S!mmc_select_voltage
  <2>2. \A a, b \in v : a - b <= 1
    BY <2>1
  <2> HIDE DEF v, common
  <2> QED BY <1>2, <1>1, <2>1, <2>2
<1>3. CASE common # {}
  <2>1. common \in SUBSET (0..31)
    OBVIOUS
  <2> HIDE DEF common
  <2>2. bit - 1 \in common /\ bit \in Nat /\ \A b \in common : b >= bit - 1
    BY <1>3, <2>1, LowestBit
  <2>3. v = common \cap {bit - 1, bit}
    <3>1. bit # 0
      BY <2>1, <2>2
    <3> QED BY <3>1 DEF S!mmc_select_voltage, common
  <2> HIDE DEF v, bit
  <2>4. \A b \in common : \E low \in v : low <= b
    BY <2>1, <2>2, <2>3
  <2>5. \A a, b \in v : a - b <= 1
    BY <2>2, <2>3
  <2>6. v \subseteq common
    BY <2>3
  <2> QED BY <1>1, <2>4, <2>5, <2>6
<1> QED BY <1>2, <1>3

\* msdc_config_bus changes no bit outside of the bus width, whatever the register holds.
THEOREM FieldIsRight ==
  ASSUME NEW reg \in SUBSET Nat, NEW width
  PROVE  S!FieldFits(reg, width)
<1> DEFINE set == S!msdc_config_bus(reg, width)
           field == S!SDC_CFG_BUSWIDTH
<1>1. S!FieldFits(reg, width) <=>
        set \ field = reg \ field /\ \A a, b \in set \cap field : a = b
  BY DEF S!FieldFits
<1>2. field = {16, 17}
  BY DEF S!SDC_CFG_BUSWIDTH
<1>3. S!uffs(field) = 17
  <2>1. field \in SUBSET (0..31) /\ field # {}
    BY <1>2
  <2>2. /\ S!uffs(field) - 1 \in field /\ S!uffs(field) \in Nat
        /\ \A b \in field : b >= S!uffs(field) - 1
    BY <2>1, LowestBit
  <2> DEFINE u == S!uffs(field)
  <2> HIDE DEF u
  <2>3. u - 1 \in {16, 17} /\ u \in Nat /\ 16 >= u - 1
    BY <1>2, <2>2 DEF u
  <2>4. u = 17
    BY <2>3
  <2> QED BY <2>4 DEF u
<1>4. PICK val \in {{0}, {1}, {}} : set = S!SetField(reg, field, val)
  BY DEF S!msdc_config_bus
<1>5. set = (reg \ {16, 17}) \cup {b + 17 - 1 : b \in val}
  BY <1>2, <1>3, <1>4 DEF S!SetField
<1>6. {b + 17 - 1 : b \in val} \in {{16}, {17}, {}}
  <2>1. CASE val = {0}
    BY <2>1
  <2>2. CASE val = {1}
    BY <2>2
  <2>3. CASE val = {}
    BY <2>3
  <2> QED BY <1>4, <2>1, <2>2, <2>3
<1> HIDE DEF set, field
<1>7. set \ {16, 17} = reg \ {16, 17} /\ set \cap {16, 17} \in {{16}, {17}, {}}
  BY <1>5, <1>6
<1>8. \A a, b \in set \cap field : a = b
  BY <1>2, <1>7
<1>9. set \ field = reg \ field
  BY <1>2, <1>7
<1> QED BY <1>8, <1>9, <1>1

-----------------------------------------------------------------------------
(* The commands                                                            *)

\* The word of a command whose response and data type are known.
LEMMA WordIs ==
  ASSUME NEW cmd, NEW r, r = D!ResponseType(cmd), NEW d, d = D!DataType(cmd),
         NEW n \in Nat, n = cmd.opcode, n # 12, n # 11,
         D!msdc_rsp[r] \in D!CardResponds(n), d # 0 <=> cmd.type = "ADTC",
         d = 2 <=> n \in {18, 25}
  PROVE  D!WordFits(cmd)
<1> DEFINE w == D!RawCommand(cmd)
<1>1. w = [opcode |-> n, rsptyp |-> D!msdc_rsp[r], dtype |-> d,
           rw |-> IF n \in {24, 25} THEN "write" ELSE "read", stop |-> FALSE,
           vol_swt |-> FALSE, blklen |-> 512]
  BY DEF D!RawCommand
<1>2. /\ w.rsptyp = D!msdc_rsp[r] /\ w.dtype = d /\ w.blklen = 512 /\ ~w.stop /\ ~w.vol_swt
      /\ w.rw = "write" <=> n \in {24, 25}
  BY <1>1
<1> HIDE DEF w
<1>3. D!WordFits(cmd) <=>
        /\ w.rsptyp \in D!CardResponds(n)
        /\ w.dtype # 0 <=> cmd.type = "ADTC"
        /\ w.dtype = 2 <=> n \in {18, 25}
        /\ w.dtype # 0 => w.blklen = 512 /\ (w.rw = "write" <=> n \in {24, 25})
        /\ ~w.stop /\ ~w.vol_swt
  BY DEF D!WordFits, w
<1> QED BY <1>2, <1>3

\* msdc_command_start tells the controller the response and the data phase that the
\* card has, for each command that mmc.c sends.
THEOREM CommandsAreRight ==
  ASSUME NEW cmd \in D!SentCommands
  PROVE  D!WordFits(cmd)
<1> USE DEF D!Command
<1>1. CASE cmd = D!Command(0, "NONE", "BC", 0)
  <2>1. D!ResponseType(cmd) = "NONE" /\ D!DataType(cmd) = 0 /\ cmd.opcode = 0 /\ cmd.type = "BC"
    BY <1>1 DEF D!ResponseType, D!DataType
  <2>2. D!msdc_rsp["NONE"] = 0 /\ 0 \in D!CardResponds(0)
    BY DEF D!msdc_rsp, D!CardResponds
  <2> QED BY <2>1, <2>2, WordIs
<1>2. CASE cmd = D!Command(1, "R3", "BCR", 0)
  <2>1. D!ResponseType(cmd) = "R3" /\ D!DataType(cmd) = 0 /\ cmd.opcode = 1 /\ cmd.type = "BCR"
    BY <1>2 DEF D!ResponseType, D!DataType
  <2>2. D!msdc_rsp["R3"] = 3 /\ 3 \in D!CardResponds(1)
    BY DEF D!msdc_rsp, D!CardResponds
  <2> QED BY <2>1, <2>2, WordIs
<1>3. CASE cmd = D!Command(2, "R2", "BCR", 0)
  <2>1. D!ResponseType(cmd) = "R2" /\ D!DataType(cmd) = 0 /\ cmd.opcode = 2 /\ cmd.type = "BCR"
    BY <1>3 DEF D!ResponseType, D!DataType
  <2>2. D!msdc_rsp["R2"] = 2 /\ 2 \in D!CardResponds(2)
    BY DEF D!msdc_rsp, D!CardResponds
  <2> QED BY <2>1, <2>2, WordIs
<1>4. CASE cmd = D!Command(3, "R1", "AC", 1)
  <2>1. D!ResponseType(cmd) = "R1" /\ D!DataType(cmd) = 0 /\ cmd.opcode = 3 /\ cmd.type = "AC"
    BY <1>4 DEF D!ResponseType, D!DataType
  <2>2. D!msdc_rsp["R1"] = 1 /\ 1 \in D!CardResponds(3)
    BY DEF D!msdc_rsp, D!CardResponds
  <2> QED BY <2>1, <2>2, WordIs
<1>5. CASE cmd = D!Command(6, "R1B", "AC", 1)
  <2>1. D!ResponseType(cmd) = "R1B" /\ D!DataType(cmd) = 0 /\ cmd.opcode = 6 /\ cmd.type = "AC"
    BY <1>5 DEF D!ResponseType, D!DataType
  <2>2. D!msdc_rsp["R1B"] = 7 /\ 7 \in D!CardResponds(6)
    BY DEF D!msdc_rsp, D!CardResponds
  <2> QED BY <2>1, <2>2, WordIs
<1>6. CASE cmd = D!Command(7, "R1", "AC", 1)
  <2>1. D!ResponseType(cmd) = "R1B" /\ D!DataType(cmd) = 0 /\ cmd.opcode = 7 /\ cmd.type = "AC"
    BY <1>6 DEF D!ResponseType, D!DataType
  <2>2. D!msdc_rsp["R1B"] = 7 /\ 7 \in D!CardResponds(7)
    BY DEF D!msdc_rsp, D!CardResponds
  <2> QED BY <2>1, <2>2, WordIs
<1>7. CASE cmd = D!Command(13, "R1", "AC", 1)
  <2>1. D!ResponseType(cmd) = "R1" /\ D!DataType(cmd) = 0 /\ cmd.opcode = 13 /\ cmd.type = "AC"
    BY <1>7 DEF D!ResponseType, D!DataType
  <2>2. D!msdc_rsp["R1"] = 1 /\ 1 \in D!CardResponds(13)
    BY DEF D!msdc_rsp, D!CardResponds
  <2> QED BY <2>1, <2>2, WordIs
<1>8. CASE cmd = D!Command(17, "R1", "ADTC", 0)
  <2>1. D!ResponseType(cmd) = "R1" /\ D!DataType(cmd) = 1 /\ cmd.opcode = 17 /\ cmd.type = "ADTC"
    BY <1>8 DEF D!ResponseType, D!DataType
  <2>2. D!msdc_rsp["R1"] = 1 /\ 1 \in D!CardResponds(17)
    BY DEF D!msdc_rsp, D!CardResponds
  <2> QED BY <2>1, <2>2, WordIs
<1>9. CASE cmd = D!Command(18, "R1", "ADTC", 0)
  <2>1. D!ResponseType(cmd) = "R1" /\ D!DataType(cmd) = 2 /\ cmd.opcode = 18 /\ cmd.type = "ADTC"
    BY <1>9 DEF D!ResponseType, D!DataType
  <2>2. D!msdc_rsp["R1"] = 1 /\ 1 \in D!CardResponds(18)
    BY DEF D!msdc_rsp, D!CardResponds
  <2> QED BY <2>1, <2>2, WordIs
<1>10. CASE cmd = D!Command(23, "R1", "AC", 1)
  <2>1. D!ResponseType(cmd) = "R1" /\ D!DataType(cmd) = 0 /\ cmd.opcode = 23 /\ cmd.type = "AC"
    BY <1>10 DEF D!ResponseType, D!DataType
  <2>2. D!msdc_rsp["R1"] = 1 /\ 1 \in D!CardResponds(23)
    BY DEF D!msdc_rsp, D!CardResponds
  <2> QED BY <2>1, <2>2, WordIs
<1>11. CASE cmd = D!Command(24, "R1", "ADTC", 0)
  <2>1. D!ResponseType(cmd) = "R1" /\ D!DataType(cmd) = 1 /\ cmd.opcode = 24 /\ cmd.type = "ADTC"
    BY <1>11 DEF D!ResponseType, D!DataType
  <2>2. D!msdc_rsp["R1"] = 1 /\ 1 \in D!CardResponds(24)
    BY DEF D!msdc_rsp, D!CardResponds
  <2> QED BY <2>1, <2>2, WordIs
<1>12. CASE cmd = D!Command(25, "R1", "ADTC", 0)
  <2>1. D!ResponseType(cmd) = "R1" /\ D!DataType(cmd) = 2 /\ cmd.opcode = 25 /\ cmd.type = "ADTC"
    BY <1>12 DEF D!ResponseType, D!DataType
  <2>2. D!msdc_rsp["R1"] = 1 /\ 1 \in D!CardResponds(25)
    BY DEF D!msdc_rsp, D!CardResponds
  <2> QED BY <2>1, <2>2, WordIs
<1> QED BY <1>1, <1>2, <1>3, <1>4, <1>5, <1>6, <1>7, <1>8, <1>9, <1>10,
       <1>11, <1>12 DEF D!SentCommands

-----------------------------------------------------------------------------
(* The inputs of the behaviours                                            *)

\* The input of a behaviour never changes.
LEMMA InputStays == MCSpec => [](input \in Calls \cup {[kind |-> "none"]})
<1>1. MCInit => input \in Calls \cup {[kind |-> "none"]}
  BY DEF MCInit, NoCall
<1>2. input \in Calls \cup {[kind |-> "none"]} /\ [MCNext]_mcvars
        => (input \in Calls \cup {[kind |-> "none"]})'
  BY DEF MCNext, Divide, Hash, Test, mcvars
<1> QED BY <1>1, <1>2, PTL DEF MCSpec

\* What the inputs of each kind of set-up are.
LEMMA CallsAre ==
  ASSUME NEW c \in Calls \cup {[kind |-> "none"]}
  PROVE  /\ c.kind = "clock" => c \in Clocks
         /\ c.kind = "voltage" => c \in Voltages
         /\ c.kind = "field" => c \in Fields
         /\ c.kind = "command" => c \in Commands
         /\ c.kind = "rpmb write" => c \in FrameWrites
         /\ c.kind = "poke" => c \in Pokes
         /\ c.kind = "strings" => c \in Comparisons
         /\ c.kind = "memory" => c \in Copies
         /\ c.kind = "rom" => c \in Roms
<1>1. c \in Numbers => c.kind = "number"
  BY DEF Numbers
<1>2. c \in Bases => c.kind = "stars"
  BY DEF Bases
<1>3. c \in Dumps => c.kind = "dump"
  BY DEF Dumps
<1>4. c \in Roms => c.kind = "rom"
  BY DEF Roms
<1>5. c \in Comparisons => c.kind = "strings"
  BY DEF Comparisons
<1>6. c \in Copies => c.kind = "memory"
  BY DEF Copies
<1>7. c \in Pokes => c.kind = "poke"
  BY DEF Pokes
<1>8. c \in Clocks => c.kind = "clock"
  BY DEF Clocks
<1>9. c \in Voltages => c.kind = "voltage"
  BY DEF Voltages
<1>10. c \in Fields => c.kind = "field"
  BY DEF Fields
<1>11. c \in Commands => c.kind = "command"
  BY DEF Commands
<1>12. c \in FrameReads => c.kind = "rpmb read"
  BY DEF FrameReads
<1>13. c \in FrameWrites => c.kind = "rpmb write"
  BY DEF FrameWrites
<1>14. c = [kind |-> "none"] => c.kind = "none"
  OBVIOUS
<1>15. c \in Numbers \/ c \in Bases \/ c \in Dumps \/ c \in Roms \/ c \in Comparisons
       \/ c \in Copies \/ c \in Pokes \/ c \in Clocks \/ c \in Voltages \/ c \in Fields
       \/ c \in Commands
       \/ c \in FrameReads \/ c \in FrameWrites \/ c = [kind |-> "none"]
  BY DEF Calls, SetUps
<1> QED BY <1>1, <1>2, <1>3, <1>4, <1>5, <1>6, <1>7, <1>8, <1>9, <1>10,
       <1>11, <1>12, <1>13, <1>14, <1>15

\* The set-ups are such as the theorems above are about.
LEMMA SetUpsAre ==
  ASSUME NEW c
  PROVE  /\ c \in Clocks => c.src \in SourceClocks /\ c.hz \in Frequencies
         /\ c \in Voltages => c.avail \in SUBSET (0..31) /\ c.ocr \in SUBSET (0..31)
         /\ c \in Fields => c.reg \in SUBSET Nat
         /\ c \in Commands => c.cmd \in D!SentCommands
<1>1. c \in Clocks => c.src \in SourceClocks /\ c.hz \in Frequencies
  BY DEF Clocks
<1>2. c \in Voltages => c.avail \in SUBSET (0..31) /\ c.ocr \in SUBSET (0..31)
  BY DEF Voltages
<1>3. c \in Fields => c.reg \in SUBSET Nat
  BY DEF Fields
<1>4. c \in Commands => c.cmd \in D!SentCommands
  BY DEF Commands
<1> QED BY <1>1, <1>2, <1>3, <1>4

\* Every source clock is one that ClockIsRight speaks of.
LEMMA ClocksAre ==
  /\ \A src \in SourceClocks : src \in Nat /\ src + (4 * 200000000 - 1) < 4294967296
  /\ \A hz \in Frequencies : hz \in Nat
BY SMT DEF SourceClocks, Frequencies

\* The controller is set up as asked by every call of a behaviour.
THEOREM SetUpIsRight == MCSpec => []SetUpFits
<1>1. input \in Calls \cup {[kind |-> "none"]} => SetUpFits
  <2> SUFFICES ASSUME input \in Calls \cup {[kind |-> "none"]} PROVE SetUpFits
    OBVIOUS
  <2>1. CASE input.kind = "clock"
    <3>1. input.src \in SourceClocks /\ input.hz \in Frequencies
      BY <2>1, CallsAre, SetUpsAre
    <3>2. S!ClockFits(input.src, input.hz)
      BY SMT, <3>1, ClocksAre, ClockIsRight
    <3> QED BY <2>1, <3>2 DEF SetUpFits
  <2>2. CASE input.kind = "voltage"
    <3>1. input.avail \in SUBSET (0..31) /\ input.ocr \in SUBSET (0..31)
      BY <2>2, CallsAre, SetUpsAre
    <3>2. S!VoltageFits(input.avail, input.ocr)
      BY <3>1, VoltageIsRight
    <3> QED BY <2>2, <3>2 DEF SetUpFits
  <2>3. CASE input.kind = "field"
    <3>1. input.reg \in SUBSET Nat
      BY <2>3, CallsAre, SetUpsAre
    <3>2. S!FieldFits(input.reg, input.width)
      BY <3>1, FieldIsRight
    <3> QED BY <2>3, <3>2 DEF SetUpFits
  <2>4. CASE input.kind = "command"
    <3>1. input.cmd \in D!SentCommands
      BY <2>4, CallsAre, SetUpsAre
    <3>2. D!WordFits(input.cmd)
      BY <3>1, CommandsAreRight
    <3> QED BY <2>4, <3>2 DEF SetUpFits
  <2> QED BY <2>1, <2>2, <2>3, <2>4 DEF SetUpFits
<1> QED BY <1>1, InputStays, PTL
=============================================================================
