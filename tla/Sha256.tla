------------------------------- MODULE Sha256 -------------------------------
(***************************************************************************)
(* crypto/sha256.c and crypto/hmac-sha256.c of the original payload, which *)
(* make the MAC of an RPMB write.  A word or a byte is the set of its bits *)
(* that are 1, a message a sequence of bytes, a hash state eight words.    *)
(***************************************************************************)
EXTENDS Integers, Sequences

Bits(n) == {b \in 0..15 : (n \div 2^b) % 2 = 1}
FromHalves(pair) == {b + 16 : b \in Bits(pair[1])} \cup Bits(pair[2])
Words(pairs) == [i \in DOMAIN pairs |-> FromHalves(pairs[i])]

Xor(x, y) == (x \ y) \cup (y \ x)
ROTR32(x, n) == {(b - n) % 32 : b \in x}
SHR32(x, n) == {b - n : b \in {c \in x : c >= n}}

\* x + y modulo 2^32: a bit is carried into b from the last place below it where both
\* have a 1, if every place since has one.
Add(x, y) ==
  LET carries == {b \in 1..31 :
                    \E k \in 0..(b - 1) : k \in x \cap y /\ (k + 1)..(b - 1) \subseteq x \cup y}
  IN Xor(Xor(x, y), carries)

-----------------------------------------------------------------------------
(* The compression                                                         *)

Initial == Words(
  <<<<\h6a09, \he667>>, <<\hbb67, \hae85>>, <<\h3c6e, \hf372>>, <<\ha54f, \hf53a>>, <<\h510e, \h527f>>, <<\h9b05, \h688c>>,
    <<\h1f83, \hd9ab>>, <<\h5be0, \hcd19>>>>)

K == Words(
  <<<<\h428a, \h2f98>>, <<\h7137, \h4491>>, <<\hb5c0, \hfbcf>>, <<\he9b5, \hdba5>>, <<\h3956, \hc25b>>, <<\h59f1, \h11f1>>,
    <<\h923f, \h82a4>>, <<\hab1c, \h5ed5>>, <<\hd807, \haa98>>, <<\h1283, \h5b01>>, <<\h2431, \h85be>>, <<\h550c, \h7dc3>>,
    <<\h72be, \h5d74>>, <<\h80de, \hb1fe>>, <<\h9bdc, \h06a7>>, <<\hc19b, \hf174>>, <<\he49b, \h69c1>>, <<\hefbe, \h4786>>,
    <<\h0fc1, \h9dc6>>, <<\h240c, \ha1cc>>, <<\h2de9, \h2c6f>>, <<\h4a74, \h84aa>>, <<\h5cb0, \ha9dc>>, <<\h76f9, \h88da>>,
    <<\h983e, \h5152>>, <<\ha831, \hc66d>>, <<\hb003, \h27c8>>, <<\hbf59, \h7fc7>>, <<\hc6e0, \h0bf3>>, <<\hd5a7, \h9147>>,
    <<\h06ca, \h6351>>, <<\h1429, \h2967>>, <<\h27b7, \h0a85>>, <<\h2e1b, \h2138>>, <<\h4d2c, \h6dfc>>, <<\h5338, \h0d13>>,
    <<\h650a, \h7354>>, <<\h766a, \h0abb>>, <<\h81c2, \hc92e>>, <<\h9272, \h2c85>>, <<\ha2bf, \he8a1>>, <<\ha81a, \h664b>>,
    <<\hc24b, \h8b70>>, <<\hc76c, \h51a3>>, <<\hd192, \he819>>, <<\hd699, \h0624>>, <<\hf40e, \h3585>>, <<\h106a, \ha070>>,
    <<\h19a4, \hc116>>, <<\h1e37, \h6c08>>, <<\h2748, \h774c>>, <<\h34b0, \hbcb5>>, <<\h391c, \h0cb3>>, <<\h4ed8, \haa4a>>,
    <<\h5b9c, \hca4f>>, <<\h682e, \h6ff3>>, <<\h748f, \h82ee>>, <<\h78a5, \h636f>>, <<\h84c8, \h7814>>, <<\h8cc7, \h0208>>,
    <<\h90be, \hfffa>>, <<\ha450, \h6ceb>>, <<\hbef9, \ha3f7>>, <<\hc671, \h78f2>>>>)

S0(x) == Xor(Xor(ROTR32(x, 2), ROTR32(x, 13)), ROTR32(x, 22))
S1(x) == Xor(Xor(ROTR32(x, 6), ROTR32(x, 11)), ROTR32(x, 25))
s0(x) == Xor(Xor(ROTR32(x, 7), ROTR32(x, 18)), SHR32(x, 3))
s1(x) == Xor(Xor(ROTR32(x, 17), ROTR32(x, 19)), SHR32(x, 10))
Ch(x, y, z) == Xor(z, x \cap Xor(y, z))
Maj(x, y, z) == (x \cap y) \cup (z \cap (x \cup y))

\* The word of round i, from a ring of the last sixteen.
blk2(W, i) ==
  Add(Add(W[i % 16], s1(W[(i - 2) % 16])), Add(W[(i - 7) % 16], s0(W[(i - 15) % 16])))

Registers == [v : [1..8 -> SUBSET (0..31)], W : [0..15 -> SUBSET (0..31)]]

\* R: the names of the registers move on by one each round.
Round[s \in Registers, i \in 0..63] ==
  LET w == IF i < 16 THEN s.W[i] ELSE blk2(s.W, i)
      v == s.v
      t == Add(Add(v[8], S1(v[5])), Add(Ch(v[5], v[6], v[7]), Add(K[i + 1], w)))
      h == Add(t, Add(S0(v[1]), Maj(v[1], v[2], v[3])))
  IN [v |-> <<h, v[1], v[2], v[3], Add(v[4], t), v[5], v[6], v[7]>>,
      W |-> [s.W EXCEPT ![i % 16] = w]]

sha256_transform(state, data) ==
  LET after[n \in 0..64] ==
        IF n = 0 THEN [v |-> state, W |-> data] ELSE Round[after[n - 1], n - 1]
      end == after[64]
  IN [i \in 1..8 |-> Add(state[i], end.v[i])]

\* sha256_write_byte_block: the buffer as sixteen words, the first byte highest.
WriteBlock(p) ==
  LET word(i) == UNION {{b + (8 * (3 - k)) : b \in p.buffer[(4 * i) + k]} : k \in 0..3}
  IN [p EXCEPT !.state = sha256_transform(@, [i \in 0..15 |-> word(i)])]

-----------------------------------------------------------------------------
(* Messages.  The buffer is not initialized: its bytes are all ones here.  *)

VARIABLES
  job,    \* "hash" of a message, or what hmac_sha256 is at: "key", "inner", "outer"
  stage,  \* "update", "final", or "done" for the whole job
  todo,   \* bytes sha256_update still takes, or sha256_final still puts
  p, pos, \* sha256_t; curBufferPos of sha256_final
  key,    \* the key given to hmac_sha256
  kx,     \* the key as it is used
  data, out

hashvars == <<job, stage, todo, p, pos, key, kx, data, out>>

sha256_init == [state |-> Initial, count |-> 0, buffer |-> [i \in 0..63 |-> 0..7]]

\* A byte of the message; a full buffer is compressed.
Update ==
  /\ stage = "update" /\ todo # <<>>
  /\ LET q == [p EXCEPT !.buffer[p.count % 64] = Head(todo), !.count = @ + 1]
     IN p' = IF q.count % 64 = 0 THEN WriteBlock(q) ELSE q
  /\ todo' = Tail(todo)
  /\ UNCHANGED <<job, stage, pos, key, kx, data, out>>

\* Mutant: the length comes in the block of the 1 bit, whether it fits or not.
Zeros_SameBlock(at) == [i \in 1..(IF at < 56 THEN 56 - at ELSE 0) |-> {}]

\* The zeros between the 1 bit and the length.
Zeros(at) == [i \in 1..((56 - at) % 64) |-> {}]

\* The length in bits, in eight bytes, of a message of less than 2^21 bytes.
Length(count) ==
  [i \in 1..8 |-> IF i < 6 THEN {} ELSE Bits((8 * count) \div 2^(8 * (8 - i))) \cap (0..7)]

Final ==
  /\ stage = "update" /\ todo = <<>> /\ stage' = "final"
  /\ pos' = p.count % 64
  /\ todo' = <<{7}>> \o Zeros((p.count % 64) + 1) \o Length(p.count)
  /\ UNCHANGED <<job, p, key, kx, data, out>>

\* A byte of the padding, for which a full buffer is compressed first.
Pad ==
  /\ stage = "final" /\ todo # <<>>
  /\ LET q == IF pos = 64 THEN WriteBlock(p) ELSE p
     IN p' = [q EXCEPT !.buffer[pos % 64] = Head(todo)]
  /\ pos' = (pos % 64) + 1 /\ todo' = Tail(todo)
  /\ UNCHANGED <<job, stage, key, kx, data, out>>

Digest(state) ==
  [i \in 1..32 |->
     LET low == 8 * (3 - ((i - 1) % 4))
     IN {b - low : b \in state[((i - 1) \div 4) + 1] \cap (low..(low + 7))}]

KeyPad(k, pad) ==
  [i \in 1..64 |-> IF i <= Len(k) THEN Xor(Bits(pad), k[i]) ELSE Bits(pad)]

\* The next hash of hmac_sha256.
Begin(j, message) ==
  job' = j /\ stage' = "update" /\ todo' = message /\ p' = sha256_init

\* The digest; the HMAC goes from the key to the inner and the outer hash.
End ==
  /\ stage = "final" /\ todo = <<>>
  /\ LET digest == Digest(WriteBlock(p).state)
     IN /\ out' = digest
        /\ \/ /\ job \in {"hash", "outer"} /\ stage' = "done" /\ p' = sha256_init
              /\ UNCHANGED <<job, todo, kx>>
           \/ /\ job = "key" /\ kx' = digest
              /\ Begin("inner", KeyPad(digest, 54) \o data)
           \/ /\ job = "inner" /\ UNCHANGED kx
              /\ Begin("outer", KeyPad(kx, 92) \o digest)
  /\ UNCHANGED <<pos, key, data>>

\* hmac_sha256 is called: a key longer than a block is hashed first.
InitMac(message, k) ==
  /\ data = message /\ key = k /\ kx = k
  /\ pos = 0 /\ out = <<>> /\ stage = "update" /\ p = sha256_init
  /\ IF Len(k) > 64 THEN job = "key" /\ todo = k
     ELSE job = "inner" /\ todo = KeyPad(k, 54) \o message

\* sha256_hash is called.
InitHash(message) ==
  /\ data = message /\ key = <<>> /\ kx = <<>>
  /\ pos = 0 /\ out = <<>> /\ stage = "update" /\ p = sha256_init
  /\ job = "hash" /\ todo = message

HashNext == Update \/ Final \/ Pad \/ End

-----------------------------------------------------------------------------
(* The standard: the message padded and cut into blocks of 64 bytes (FIPS  *)
(* 180), and the HMAC of RFC 2104                                          *)

\* A 1 bit, zeros and the length fill the last block.
Padded(m) ==
  m \o <<{7}>> \o [i \in 1..((-(Len(m) + 9)) % 64) |-> {}] \o Length(Len(m))

\* The n-th block of a padded message, as sixteen words.
Block(w, n) ==
  LET word(i) == UNION {{b + (8 * (4 - k)) : b \in w[(64 * (n - 1)) + (4 * i) + k]} : k \in 1..4}
  IN [i \in 0..15 |-> word(i)]

\* The state after n blocks.
After(w, n) ==
  LET after[k \in Nat] ==
        IF k = 0 THEN Initial ELSE sha256_transform(after[k - 1], Block(w, k))
  IN after[n]

StandardHash(m) == LET w == Padded(m) IN Digest(After(w, Len(w) \div 64))

ShortKey(k) == IF Len(k) <= 64 THEN k ELSE StandardHash(k)

StandardMac(m, k) ==
  LET padded == ShortKey(k) \o [i \in 1..(64 - Len(ShortKey(k))) |-> {}]
      masked(pad) == [i \in 1..64 |-> Xor(padded[i], Bits(pad))]
  IN StandardHash(masked(92) \o StandardHash(masked(54) \o m))

\* What is done is the standard's hash or MAC of what was given.
DigestIsStandard ==
  stage = "done" => out = IF job = "hash" THEN StandardHash(data) ELSE StandardMac(data, key)
=============================================================================
