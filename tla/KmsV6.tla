------------------------------- MODULE KmsV6 -------------------------------
(***************************************************************************)
(* One V5 or V6 activation, from the client's request to what the client   *)
(* reads of the answer (crates/vlmcsd-protocol/src/v6.rs and the end of    *)
(* crates/vlmcsd-client/src/main.rs), over AES-CBC in place, one block per *)
(* step (aes_encrypt_cbc, aes_decrypt_cbc in crates/vlmcsd-crypto).        *)
(*                                                                         *)
(* The two sides use the loops differently.  The client encrypts the       *)
(* request under an IV and sends the IV in front, in the clear; the server *)
(* decrypts the IV along with the rest and without an IV of its own.  The  *)
(* server encrypts an answer whose first block is an IV it has chosen, and *)
(* the client decrypts it as a whole and drops that block.                 *)
(*                                                                         *)
(* Sizes are scaled down and what the cipher, SHA-256 and HMAC compute is  *)
(* left open.  The version in front of both messages is never encrypted    *)
(* and is the variable v6.                                                 *)
(***************************************************************************)
EXTENDS Integers, Sequences

CONSTANTS
  B,             \* AES_BLOCK_BYTES
  Bytes,         \* values of a byte; sizes and padding are among them
  RequestSize,   \* Request::WIRE_SIZE
  RequestPad,    \* the 4 that create_response_v6 adds to it
  TailSize,      \* what follows the ePID in a response: CMID to the intervals
  HwId,          \* DEFAULT_HWID
  Requests,      \* requests the client may send
  Answers,       \* responses create_response_base may return
  Randoms,       \* blocks get_16_random_bytes may return
  Enc(_, _),     \* encrypt_block under the V6 or the V5 key
  Dec(_, _),     \* decrypt_block
  XorByte(_, _),
  Sha(_),        \* sha256 of a block
  Hmac(_)        \* create_v6_hmac of what is to be encrypted

Blocks == [1..B -> Bytes]
NoIv   == <<>>

ASSUME SizeAssumption ==
  /\ B \in Nat \ {0, 1} /\ 1..B \subseteq Bytes /\ Bytes \subseteq Nat
  /\ RequestSize \in Nat /\ RequestPad \in 1..B
  /\ (RequestSize + RequestPad) % B = 0
  /\ TailSize \in Nat

ASSUME CipherAssumption ==
  /\ \A k \in BOOLEAN, b \in Blocks :
       /\ Enc(k, b) \in Blocks /\ Dec(k, b) \in Blocks
       /\ Dec(k, Enc(k, b)) = b /\ Enc(k, Dec(k, b)) = b
  /\ \A x, y \in Bytes :
       XorByte(x, y) \in Bytes /\ XorByte(XorByte(x, y), y) = x

ASSUME InputAssumption ==
  /\ Requests \subseteq [1..RequestSize -> Bytes]
  /\ Randoms \subseteq Blocks
  /\ HwId \in Seq(Bytes)
  /\ \A b \in Blocks : Sha(b) \in Seq(Bytes) /\ Len(Sha(b)) = 2 * B
  /\ \A a \in Answers :
       /\ a \in [pid : Seq(Bytes), rest : [1..TailSize -> Bytes]]
       /\ Len(a.pid) \in Bytes

VARIABLES
  v6,        \* VersionInfo::major_ver > 5
  pc,        \* who does what: see PcValues
  chain,     \* the iv argument of the loop that runs: Some(block) or None
  data,      \* the buffer the loop works on, as blocks
  offset,    \* data[1..offset] is encrypted
  plain,     \* history: what that buffer holds when it is decrypted
  request,   \* what the client asks for
  iv,        \* the IV the client sent
  seen,      \* what the server takes for the request
  sent,      \* the response the server has computed
  opened,    \* the answer as the client has decrypted it, padding removed
  got        \* what the client reads from it

inputs  == <<v6, request, iv>>
results == <<seen, sent, opened, got>>
vars    == <<inputs, results, pc, chain, data, offset, plain>>

PcValues == {"encrypt_request", "decrypt_request", "encrypt_answer",
             "decrypt_answer", "done", "error"}
NoAnswer == [pid |-> <<>>, rest |-> <<>>]

TypeOK ==
  /\ v6 \in BOOLEAN
  /\ pc \in PcValues
  /\ chain \in Blocks \cup {NoIv} /\ iv \in Blocks
  /\ data \in Seq(Blocks) /\ plain \in Seq(Blocks)
  /\ Len(data) = Len(plain)
  /\ offset \in 0..Len(data)
  /\ request \in [1..RequestSize -> Bytes]
  /\ seen \in [1..RequestSize -> Bytes] \cup {<<>>}
  /\ sent \in Answers \cup {NoAnswer}
  /\ opened \in Seq(Bytes)
  /\ got.pid \in Seq(Bytes) /\ got.rest \in Seq(Bytes)

-----------------------------------------------------------------------------
(* Bytes and blocks. *)

Xor(a, b) == [j \in 1..B |-> XorByte(a[j], b[j])]

\* chunks of a buffer whose length is a multiple of B
Chunk(bytes) ==
  [i \in 1..(Len(bytes) \div B) |-> [j \in 1..B |-> bytes[(i - 1) * B + j]]]

Flat(blocks) ==
  [n \in 1..(Len(blocks) * B) |-> blocks[((n - 1) \div B) + 1][((n - 1) % B) + 1]]

\* Mutant: a buffer that ends on a block boundary gets no padding.
PadMut(bytes) ==
  LET p == (B - (Len(bytes) % B)) % B
  IN  bytes \o [j \in 1..p |-> p]

\* aes_encrypt_cbc pads first, with a whole block when none is needed.
Pad(bytes) ==
  LET p == B - (Len(bytes) % B)
  IN  bytes \o [j \in 1..p |-> p]

\* decrypt_response_v6: the last byte is a size, and the padding is uniform.
PaddingValid(bytes) ==
  /\ bytes # <<>>
  /\ bytes[Len(bytes)] \in 1..B
  /\ \A j \in (Len(bytes) - bytes[Len(bytes)] + 1)..Len(bytes) :
       bytes[j] = bytes[Len(bytes)]

Unpad(bytes) == SubSeq(bytes, 1, Len(bytes) - bytes[Len(bytes)])

-----------------------------------------------------------------------------
(* The loops.  Block i is combined with the block before it as it stands in *)
(* the buffer, so encryption goes up and decryption goes down.              *)

Chained(i, b) ==
  IF i > 1 THEN Xor(b, data[i - 1])
  ELSE IF chain = NoIv THEN b ELSE Xor(b, chain)

\* Mutant: decryption goes up as well.
DecryptBlockMut ==
  /\ pc \in {"decrypt_request", "decrypt_answer"} /\ offset > 0
  /\ LET i == Len(data) - offset + 1
     IN  data' = [data EXCEPT ![i] = Chained(i, Dec(v6, data[i]))]
  /\ offset' = offset - 1
  /\ UNCHANGED <<inputs, results, pc, chain, plain>>

DecryptBlock ==
  /\ pc \in {"decrypt_request", "decrypt_answer"} /\ offset > 0
  /\ data' = [data EXCEPT ![offset] = Chained(offset, Dec(v6, data[offset]))]
  /\ offset' = offset - 1
  /\ UNCHANGED <<inputs, results, pc, chain, plain>>

EncryptBlock ==
  /\ pc \in {"encrypt_request", "encrypt_answer"} /\ offset < Len(data)
  /\ data' = [data EXCEPT ![offset + 1] =
                Enc(v6, Chained(offset + 1, data[offset + 1]))]
  /\ offset' = offset + 1
  /\ UNCHANGED <<inputs, results, pc, chain, plain>>

-----------------------------------------------------------------------------
(* The messages. *)

\* create_request_v6, up to its call of aes_encrypt_cbc.
Init ==
  /\ v6 \in BOOLEAN
  /\ request \in Requests /\ iv \in Randoms
  /\ pc = "encrypt_request" /\ chain = iv
  /\ data = Chunk(Pad(request)) /\ plain = data /\ offset = 0
  /\ seen = <<>> /\ sent = NoAnswer /\ opened = <<>> /\ got = NoAnswer

\* The IV goes in front of the request, and the server decrypts both.
SendRequest ==
  /\ pc = "encrypt_request" /\ offset = Len(data)
  /\ pc' = "decrypt_request" /\ chain' = NoIv
  /\ data' = <<iv>> \o data
  /\ plain' = <<Dec(v6, iv)>> \o plain
  /\ offset' = Len(data')
  /\ UNCHANGED <<inputs, results>>

\* Mutant: the decrypted IV is taken for the beginning of the request.
RecoveredIvMut(bytes) == SubSeq(bytes, 1, RequestSize)

Recovered(bytes) == SubSeq(bytes, B + 1, B + RequestSize)

ResponseToWire(a) == <<Len(a.pid)>> \o a.pid \o a.rest

\* Mutant: the random block is sent as it was hashed.
SealedMut(a, request_iv, response_iv, random) ==
  response_iv \o ResponseToWire(a) \o random \o Sha(random)

\* The part V5 and V6 have in common.
Sealed(a, request_iv, response_iv, random) ==
  response_iv \o ResponseToWire(a) \o Xor(random, request_iv) \o Sha(random)

WithHmac(bytes) == bytes \o Hmac(bytes)

\* create_response_v6, up to its call of aes_encrypt_cbc.  It would refuse a
\* shorter message, which create_request_v6 does not produce.  Two calls for random
\* bytes within one tick of the clock may return the same.
AnswerRequest ==
  /\ pc = "decrypt_request" /\ offset = 0
  /\ Len(data) * B >= B + RequestSize + RequestPad
  /\ LET request_iv == data[1]
     IN  \E a \in Answers, random \in Randoms :
         \E response_iv \in IF v6 THEN Randoms ELSE {request_iv} :
           LET base == Sealed(a, request_iv, response_iv, random)
               all  == IF v6 THEN WithHmac(base \o HwId \o request_iv) ELSE base
           IN  /\ data' = Chunk(Pad(all))
               /\ sent' = a
  /\ seen' = Recovered(Flat(data))
  /\ plain' = data' /\ offset' = 0
  /\ pc' = "encrypt_answer"
  /\ UNCHANGED <<inputs, chain, opened, got>>

SendAnswer ==
  /\ pc = "encrypt_answer" /\ offset = Len(data)
  /\ pc' = "decrypt_answer"
  /\ UNCHANGED <<inputs, results, chain, data, offset, plain>>

\* process_response drops the IV before it parses.
AfterIv(bytes) == SubSeq(bytes, B + 1, Len(bytes))

Readable(bytes) ==
  /\ PaddingValid(bytes)
  /\ LET body == AfterIv(Unpad(bytes))
     IN  body # <<>> /\ Len(body) >= 1 + body[1] + TailSize

Parsed(bytes) ==
  LET p == bytes[1]
  IN  [pid |-> SubSeq(bytes, 2, 1 + p),
       rest |-> SubSeq(bytes, 2 + p, 1 + p + TailSize)]

\* decrypt_response_v6, once the loop is done, process_response and
\* parse_and_display_response.
ReadAnswer ==
  /\ pc = "decrypt_answer" /\ offset = 0
  /\ LET bytes == Flat(data)
     IN  IF Readable(bytes)
         THEN /\ opened' = Unpad(bytes)
              /\ got' = Parsed(AfterIv(Unpad(bytes)))
              /\ pc' = "done"
         ELSE pc' = "error" /\ UNCHANGED <<opened, got>>
  /\ UNCHANGED <<inputs, chain, data, offset, plain, seen, sent>>

Finished == pc \in {"done", "error"} /\ UNCHANGED vars

Next ==
  \/ EncryptBlock \/ SendRequest \/ DecryptBlock \/ AnswerRequest
  \/ SendAnswer \/ ReadAnswer \/ Finished

Spec == Init /\ [][Next]_vars

-----------------------------------------------------------------------------
(* Properties. *)

\* When a loop of decryption ends the buffer holds what was in it before the
\* other side encrypted it, behind the decrypted IV in the server's case: each
\* loop has met every block of cipher before it was overwritten.
BlocksRestored ==
  (pc \in {"decrypt_request", "decrypt_answer"} /\ offset = 0) => data = plain

\* The server reads the request that was sent, whatever the IV, although it
\* decrypts from another point than the client encrypted from.
RequestUnderstood == seen \in {<<>>, request}

\* The client accepts the answer and reads the ePID and the numbers the server
\* computed, for every length of ePID and so every length of padding.
AnswerUnderstood ==
  pc # "error" /\ (pc = "done" => got = sent)

\* What a KMS client verifies with the IV of its own request: the hash of the
\* random block, the IV a V5 answer repeats, and for V6 the IV it carries and
\* the MAC over everything before it.
AnswerVerifiable ==
  pc = "done" =>
    LET own     == Dec(v6, iv)
        w       == B + Len(ResponseToWire(sent))
        at(o, n) == SubSeq(opened, o + 1, o + n)
        last    == Len(opened) - B
    IN  /\ Sha(Xor(at(w, B), own)) = at(w + B, 2 * B)
        /\ ~v6 => at(0, B) = own
        /\ v6 => /\ at(last - B, B) = own
                 /\ Hmac(at(0, last)) = at(last, B)
=============================================================================
