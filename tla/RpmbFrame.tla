----------------------------- MODULE RpmbFrame -----------------------------
(***************************************************************************)
(* The RPMB frames of drivers/mmc.c: how the requests of the three callers *)
(* become frames and what is taken from the card's.  Bytes are numbers; an *)
(* integer is the sequence of its bytes in memory, lowest first; a pointer *)
(* that is NULL is a field the request does not have.                      *)
(***************************************************************************)
EXTENDS Integers, SequencesExt

GET_WRITE_COUNTER == 2
WRITE_DATA == 3
READ_DATA == 4
RESULT_READ == 5

TYPE_BEG == 510
RES_BEG == 508
BLKS_BEG == 506
ADDR_BEG == 504
WCOUNTER_BEG == 500
NONCE_BEG == 484
DATA_BEG == 228
MAC_BEG == 196

Bytes(v, n) == [k \in 1..n |-> (v \div 256^(k - 1)) % 256]
Zeros(n) == [k \in 1..n |-> 0]

\* be16_to_cpup, be32_to_cpup and the ways back.
Swapped(int) == Reverse(int)

memcpy(frame, at, bytes) ==
  [i \in DOMAIN frame |->
     IF i \in (at + 1)..(at + Len(bytes)) THEN bytes[i - at] ELSE frame[i]]

Field(frame, at, n) == SubSeq(frame, at + 1, at + n)

\* byteswap, in place.
byteswap(buf) ==
  [i \in DOMAIN buf |-> buf[Len(buf) - i + 1]]

-----------------------------------------------------------------------------
(* The requests                                                            *)

Count == [type |-> GET_WRITE_COUNTER, blk_cnt |-> 0, result |-> Bytes(0, 2),
          wc |-> Bytes(0, 4), nonce |-> Zeros(16)]

ReadAt(addr) == [type |-> READ_DATA, blk_cnt |-> 1, result |-> Bytes(0, 2),
                 nonce |-> Zeros(16), addr |-> addr, data |-> Zeros(256)]

\* The block goes to the card backwards.
WriteOf(buf, wc) ==
  [type |-> WRITE_DATA, blk_cnt |-> 1, result |-> Bytes(0, 2), nonce |-> Zeros(16),
   addr |-> 0, data |-> byteswap(buf), wc |-> wc, mac |-> Zeros(32)]

Must(type) ==
  CASE type = GET_WRITE_COUNTER -> {"nonce", "wc"}
    [] type = READ_DATA -> {"data", "nonce"}
    [] type = WRITE_DATA -> {"data", "wc", "mac"}

mmc_rpmb_request_check(req) ==
  /\ {"result"} \cup Must(req.type) \subseteq DOMAIN req
  /\ req.type # GET_WRITE_COUNTER => req.blk_cnt # 0

-----------------------------------------------------------------------------
(* The frames                                                              *)

\* Mutant: the write counter is copied as it is in memory.
mmc_rpmb_pre_frame_Little(req) ==
  LET typed == memcpy(Zeros(512), TYPE_BEG, Swapped(Bytes(req.type, 2)))
      addressed == memcpy(typed, ADDR_BEG, Swapped(Bytes(req.addr, 2)))
      counted == memcpy(memcpy(addressed, BLKS_BEG, Swapped(Bytes(req.blk_cnt, 2))),
                        WCOUNTER_BEG, req.wc)
  IN CASE req.type = GET_WRITE_COUNTER -> memcpy(typed, NONCE_BEG, req.nonce)
       [] req.type = READ_DATA -> memcpy(addressed, NONCE_BEG, req.nonce)
       [] req.type = WRITE_DATA ->
            memcpy(memcpy(counted, DATA_BEG, req.data), MAC_BEG, req.mac)

\* The frame of a request that passes the check, from one that is clear.
mmc_rpmb_pre_frame(req) ==
  LET typed == memcpy(Zeros(512), TYPE_BEG, Swapped(Bytes(req.type, 2)))
      addressed == memcpy(typed, ADDR_BEG, Swapped(Bytes(req.addr, 2)))
      counted == memcpy(memcpy(addressed, BLKS_BEG, Swapped(Bytes(req.blk_cnt, 2))),
                        WCOUNTER_BEG, Swapped(req.wc))
  IN CASE req.type = GET_WRITE_COUNTER -> memcpy(typed, NONCE_BEG, req.nonce)
       [] req.type = READ_DATA -> memcpy(addressed, NONCE_BEG, req.nonce)
       [] req.type = WRITE_DATA ->
            memcpy(memcpy(counted, DATA_BEG, req.data), MAC_BEG, req.mac)

\* The cleared frame that asks for the result of a write.
ResultRequest == memcpy(Zeros(512), TYPE_BEG + 1, <<RESULT_READ>>)

\* The hash itself is in Sha256; here a digest is what it was made of.
hmac_sha256(message, key) == [k \in 1..32 |-> <<"mac", k, key, message>>]

\* Over the end of the frame, from the data on.
rpmb_calc_mac(frame, key) ==
  memcpy(frame, MAC_BEG, hmac_sha256(Field(frame, DATA_BEG, 512 - DATA_BEG), key))

\* What mmc_rpmb_post_frame stores through the pointers of a request.
mmc_rpmb_post_frame(req, frame) ==
  LET stores ==
        [result |-> Swapped(Field(frame, RES_BEG, 2)),
         wc |-> Swapped(Field(frame, WCOUNTER_BEG, 4)),
         nonce |-> Field(frame, NONCE_BEG, 16),
         data |-> Field(frame, DATA_BEG, 256),
         mac |-> Field(frame, MAC_BEG, 32)]
      stored ==
        {"result"} \cup (IF req.type = READ_DATA THEN {"data", "nonce"} ELSE {"wc"})
          \cup (IF req.type = GET_WRITE_COUNTER THEN {"nonce"} ELSE {})
          \cup (DOMAIN req \cap {"mac"})
  IN [f \in DOMAIN req |-> IF f \in stored THEN stores[f] ELSE req[f]]

-----------------------------------------------------------------------------
(* Correctness, with the frame of the standard: big-endian integers behind *)
(* the data                                                                *)

Standard(f) ==
  Zeros(196) \o f.mac \o f.data \o f.nonce \o Reverse(f.wc) \o Reverse(Bytes(f.addr, 2))
    \o Reverse(Bytes(f.blk_cnt, 2)) \o Reverse(f.result) \o Reverse(Bytes(f.type, 2))

Clear == [mac |-> Zeros(32), data |-> Zeros(256), nonce |-> Zeros(16), wc |-> Bytes(0, 4),
          addr |-> 0, blk_cnt |-> 0, result |-> Bytes(0, 2), type |-> 0]

\* The request passes the check and its frame says what it asks for.
RequestFits(req) ==
  /\ mmc_rpmb_request_check(req)
  /\ mmc_rpmb_pre_frame(req) =
       Standard([f \in DOMAIN Clear |->
                   IF f \in DOMAIN req /\ ~(f = "data" /\ req.type = READ_DATA)
                        /\ ~(f = "blk_cnt" /\ req.type # WRITE_DATA)
                   THEN req[f] ELSE Clear[f]])

\* The counter the card names goes into the write as it is, the MAC of the write
\* covers all of the frame that has content, its result is asked for, a block read is
\* the block written, and the result that is printed is the card's.
WriteFits(buf, wc, key, result) ==
  LET counted == mmc_rpmb_post_frame(Count, Standard([Clear EXCEPT !.type = 512, !.wc = wc]))
      req == WriteOf(buf, counted.wc)
      frame == rpmb_calc_mac(mmc_rpmb_pre_frame(req), key)
      response == Standard([Clear EXCEPT !.type = 1024, !.data = Field(frame, DATA_BEG, 256)])
      sent == SubSeq(Standard([f \in DOMAIN Clear |-> IF f = "nonce" THEN Zeros(16) ELSE req[f]]),
                     229, 512)
  IN /\ counted.wc = wc /\ RequestFits(req)
     /\ Field(frame, WCOUNTER_BEG, 4) = Reverse(wc)
     /\ Field(frame, MAC_BEG, 32) = hmac_sha256(sent, key)
     /\ ResultRequest = Standard([Clear EXCEPT !.type = RESULT_READ])
     /\ byteswap(mmc_rpmb_post_frame(ReadAt(0), response).data) = buf
     /\ mmc_rpmb_post_frame(req, Standard([Clear EXCEPT !.type = 768, !.result = result])).result
          = result
=============================================================================
