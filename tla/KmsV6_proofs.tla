--------------------------- MODULE KmsV6_proofs ---------------------------
(***************************************************************************)
(* Proofs about KmsV6, for any size of block, request and answer and for   *)
(* any block cipher.                                                       *)
(***************************************************************************)
EXTENDS KmsV6, TLAPS

\* What create_v6_hmac returns; TLC cannot look at all messages.
HmacIsABlock == \A s \in Seq(Bytes) : Hmac(s) \in Blocks

-----------------------------------------------------------------------------
(* Blocks. *)

LEMMA XorFacts ==
  ASSUME NEW a \in Blocks, NEW b \in Blocks
  PROVE  Xor(a, b) \in Blocks /\ Xor(Xor(a, b), b) = a
  BY CipherAssumption DEF Xor, Blocks

LEMMA BlockIsBytes ==
  ASSUME NEW b \in Blocks
  PROVE  b \in Seq(Bytes)
  BY SizeAssumption DEF Blocks

\* Each chunk lies within the buffer.
LEMMA ChunkType ==
  ASSUME NEW s \in Seq(Bytes)
  PROVE  Chunk(s) \in Seq(Blocks)
<1> DEFINE n == Len(s) \div B
<1>1. B \in Nat /\ B > 0 /\ Len(s) \in Nat
  BY SizeAssumption
<1>2. n \in Nat /\ n * B <= Len(s)
  BY <1>1
<1>3. ASSUME NEW i \in 1..n, NEW j \in 1..B
      PROVE  s[(i - 1) * B + j] \in Bytes
  <2>1. (i - 1) * B \in Nat
    BY <1>1, <1>2
  <2>2. (i - 1) * B + B = i * B
    BY <1>1, <1>2
  <2>3. i * B <= n * B
    BY <1>1, <1>2
  <2>4. (i - 1) * B + j \in 1..Len(s)
    BY <1>1, <1>2, <2>1, <2>2, <2>3
  <2> QED
    BY <2>4
<1> HIDE DEF n
<1>4. ASSUME NEW i \in 1..n
      PROVE  [j \in 1..B |-> s[(i - 1) * B + j]] \in Blocks
  BY <1>3 DEF Blocks
<1>5. Chunk(s) = [i \in 1..n |-> [j \in 1..B |-> s[(i - 1) * B + j]]]
  BY DEF Chunk, n
<1>6. ASSUME NEW f, NEW m \in Nat, f = [i \in 1..m |-> f[i]],
             \A i \in 1..m : f[i] \in Blocks
      PROVE  f \in Seq(Blocks)
  BY <1>6
<1>7. \A i \in 1..n : Chunk(s)[i] \in Blocks
  BY <1>4, <1>5
<1>8. Chunk(s) = [i \in 1..n |-> Chunk(s)[i]]
  BY <1>5
<1> QED
  BY <1>2, <1>6, <1>7, <1>8

LEMMA PadType ==
  ASSUME NEW s \in Seq(Bytes)
  PROVE  Pad(s) \in Seq(Bytes)
<1> DEFINE p == B - (Len(s) % B)
<1>1. p \in 1..B
  BY SizeAssumption
<1>2. [j \in 1..p |-> p] \in Seq(Bytes)
  BY <1>1, SizeAssumption
<1> QED
  BY <1>2 DEF Pad

LEMMA WireType ==
  ASSUME NEW a \in Answers
  PROVE  ResponseToWire(a) \in Seq(Bytes)
<1>1. a.pid \in Seq(Bytes) /\ Len(a.pid) \in Bytes /\ a.rest \in [1..TailSize -> Bytes]
  BY InputAssumption
<1>2. a.rest \in Seq(Bytes) /\ <<Len(a.pid)>> \in Seq(Bytes)
  BY <1>1, SizeAssumption
<1> QED
  BY <1>1, <1>2 DEF ResponseToWire

\* What the server puts into an answer.
LEMMA SealedType ==
  ASSUME HmacIsABlock, NEW a \in Answers, NEW request_iv \in Blocks,
         NEW response_iv \in Blocks, NEW random \in Blocks
  PROVE  /\ Sealed(a, request_iv, response_iv, random) \in Seq(Bytes)
         /\ WithHmac(Sealed(a, request_iv, response_iv, random)
                       \o HwId \o request_iv) \in Seq(Bytes)
<1>1. ResponseToWire(a) \in Seq(Bytes)
  BY WireType
<1>2. /\ response_iv \in Seq(Bytes) /\ request_iv \in Seq(Bytes)
      /\ Xor(random, request_iv) \in Seq(Bytes)
  BY BlockIsBytes, XorFacts
<1>3. Sha(random) \in Seq(Bytes) /\ HwId \in Seq(Bytes)
  BY InputAssumption
<1>4. Sealed(a, request_iv, response_iv, random) \in Seq(Bytes)
  BY <1>1, <1>2, <1>3 DEF Sealed
<1> DEFINE before == Sealed(a, request_iv, response_iv, random) \o HwId \o request_iv
<1>5. before \in Seq(Bytes)
  BY <1>2, <1>3, <1>4
<1> HIDE DEF before
<1>6. Hmac(before) \in Seq(Bytes)
  BY <1>5, BlockIsBytes DEF HmacIsABlock
<1>7. WithHmac(before) \in Seq(Bytes)
  BY <1>5, <1>6 DEF WithHmac
<1> QED
  BY <1>4, <1>7 DEF before

-----------------------------------------------------------------------------
(* The loops. *)

\* Up to offset the buffer holds the cipher of plain, each block chained to the
\* cipher before it; above offset it holds plain itself.  Encryption and
\* decryption move offset through the same states in opposite directions.
ChainInv ==
  /\ v6 \in BOOLEAN
  /\ iv \in Blocks
  /\ pc \in PcValues
  /\ chain \in Blocks \cup {NoIv}
  /\ pc = "encrypt_request" => chain = iv
  /\ pc # "encrypt_request" => chain = NoIv
  /\ data \in Seq(Blocks) /\ plain \in Seq(Blocks)
  /\ Len(data) = Len(plain)
  /\ offset \in 0..Len(data)
  /\ \A i \in 1..Len(data) :
       data[i] = IF i <= offset THEN Enc(v6, Chained(i, plain[i])) ELSE plain[i]

LEMMA NoIvIsNoBlock == NoIv \notin Blocks
  BY SizeAssumption DEF NoIv, Blocks

\* A block that is chained in and out again.
LEMMA ChainedFacts ==
  ASSUME ChainInv, NEW i \in 1..Len(data), NEW b \in Blocks
  PROVE  Chained(i, b) \in Blocks /\ Chained(i, Chained(i, b)) = b
<1>1. CASE i > 1
  <2>1. data[i - 1] \in Blocks
    BY <1>1 DEF ChainInv
  <2> QED
    BY <1>1, <2>1, XorFacts DEF Chained
<1>2. CASE ~(i > 1)
  BY <1>2, XorFacts DEF Chained, ChainInv
<1> QED
  BY <1>1, <1>2

LEMMA ChainInit == Init => ChainInv
<1> SUFFICES ASSUME Init PROVE ChainInv
  OBVIOUS
<1>1. request \in Seq(Bytes) /\ iv \in Blocks
  BY InputAssumption, SizeAssumption DEF Init
<1>2. data \in Seq(Blocks)
  BY <1>1, PadType, ChunkType DEF Init
<1> QED
  BY <1>1, <1>2 DEF Init, ChainInv, PcValues

\* Encryption of the block above offset, with everything below it in cipher.
LEMMA ChainEncrypt == ChainInv /\ EncryptBlock => ChainInv'
<1> SUFFICES ASSUME ChainInv, EncryptBlock PROVE ChainInv'
  OBVIOUS
<1> DEFINE k == offset + 1
<1>1. /\ k \in 1..Len(data) /\ offset' = k /\ offset \in Nat
      /\ data' = [data EXCEPT ![k] = Enc(v6, Chained(k, data[k]))]
      /\ UNCHANGED <<v6, iv, pc, chain, plain>>
  BY DEF ChainInv, EncryptBlock, inputs
<1>2. data[k] = plain[k] /\ plain[k] \in Blocks
  BY <1>1 DEF ChainInv
<1>3. Enc(v6, Chained(k, data[k])) \in Blocks
  BY <1>1, <1>2, ChainedFacts, CipherAssumption DEF ChainInv
<1>4. data' \in Seq(Blocks) /\ Len(data') = Len(data)
  BY <1>1, <1>3 DEF ChainInv
<1>5. ASSUME NEW i \in 1..Len(data), i <= k
      PROVE  Chained(i, plain[i])' = Chained(i, plain[i])
  BY <1>1, <1>5 DEF Chained, ChainInv
<1>6. ASSUME NEW i \in 1..Len(data)
      PROVE  data'[i] = IF i <= k THEN Enc(v6, Chained(i, plain[i]))' ELSE plain[i]
  <2>1. CASE i = k
    BY <1>1, <1>2, <1>5, <2>1 DEF ChainInv
  <2>2. CASE i < k
    BY <1>1, <1>5, <2>2 DEF ChainInv
  <2>3. CASE i > k
    BY <1>1, <2>3 DEF ChainInv
  <2> QED
    BY <1>1, <2>1, <2>2, <2>3
<1> HIDE DEF k
<1> QED
  BY <1>1, <1>4, <1>6 DEF ChainInv

\* Decryption of the block at offset: the block before it is still cipher.
LEMMA ChainDecrypt == ChainInv /\ DecryptBlock => ChainInv'
<1> SUFFICES ASSUME ChainInv, DecryptBlock PROVE ChainInv'
  OBVIOUS
<1>1. /\ offset \in 1..Len(data) /\ offset' = offset - 1
      /\ data' = [data EXCEPT ![offset] = Chained(offset, Dec(v6, data[offset]))]
      /\ UNCHANGED <<v6, iv, pc, chain, plain>>
  BY DEF ChainInv, DecryptBlock, inputs
<1>2. plain[offset] \in Blocks /\ data[offset] = Enc(v6, Chained(offset, plain[offset]))
  BY <1>1 DEF ChainInv
<1>3. Chained(offset, Dec(v6, data[offset])) = plain[offset]
  <2>1. Chained(offset, plain[offset]) \in Blocks
    BY <1>1, <1>2, ChainedFacts
  <2>2. Dec(v6, data[offset]) = Chained(offset, plain[offset])
    BY <1>2, <2>1, CipherAssumption DEF ChainInv
  <2> QED
    BY <1>1, <1>2, <2>2, ChainedFacts
<1>4. data' = [data EXCEPT ![offset] = plain[offset]]
  BY <1>1, <1>3
<1>5. data' \in Seq(Blocks) /\ Len(data') = Len(data)
  BY <1>1, <1>2, <1>4 DEF ChainInv
<1>6. ASSUME NEW i \in 1..Len(data), i < offset
      PROVE  Chained(i, plain[i])' = Chained(i, plain[i])
  BY <1>1, <1>4, <1>6 DEF Chained, ChainInv
<1>7. ASSUME NEW i \in 1..Len(data)
      PROVE  data'[i] = IF i <= offset - 1 THEN Enc(v6, Chained(i, plain[i]))'
                        ELSE plain[i]
  <2>1. CASE i = offset
    BY <1>1, <1>4, <2>1 DEF ChainInv
  <2>2. CASE i < offset
    BY <1>1, <1>4, <1>6, <2>2 DEF ChainInv
  <2>3. CASE i > offset
    BY <1>1, <1>4, <2>3 DEF ChainInv
  <2> QED
    BY <1>1, <2>1, <2>2, <2>3
<1> QED
  BY <1>1, <1>5, <1>7 DEF ChainInv

\* In front of the request the IV is a block of cipher like the others: the
\* cipher of its own decryption.
LEMMA ChainSend == ChainInv /\ SendRequest => ChainInv'
<1> SUFFICES ASSUME ChainInv, SendRequest PROVE ChainInv'
  OBVIOUS
<1>1. /\ pc = "encrypt_request" /\ offset = Len(data)
      /\ pc' = "decrypt_request" /\ chain' = NoIv /\ chain = iv
      /\ data' = <<iv>> \o data /\ plain' = <<Dec(v6, iv)>> \o plain
      /\ offset' = Len(data') /\ UNCHANGED <<v6, iv>>
  BY DEF ChainInv, SendRequest, inputs
<1>2. iv \in Blocks /\ Dec(v6, iv) \in Blocks /\ Enc(v6, Dec(v6, iv)) = iv
  BY CipherAssumption DEF ChainInv
<1>3. /\ data' \in Seq(Blocks) /\ plain' \in Seq(Blocks)
      /\ Len(data') = Len(data) + 1 /\ Len(plain') = Len(data')
      /\ data'[1] = iv /\ plain'[1] = Dec(v6, iv)
      /\ \A i \in 2..Len(data') : data'[i] = data[i - 1] /\ plain'[i] = plain[i - 1]
  BY <1>1, <1>2 DEF ChainInv
<1>4. ASSUME NEW i \in 1..Len(data')
      PROVE  data'[i] = Enc(v6, Chained(i, plain[i]))'
  <2>1. CASE i = 1
    BY <1>1, <1>2, <1>3, <2>1 DEF Chained
  <2>2. CASE i > 1
    <3> DEFINE j == i - 1
    <3>1. /\ j \in 1..Len(data) /\ i \in 2..Len(data')
          /\ data[j] = Enc(v6, Chained(j, plain[j]))
      BY <1>1, <1>3, <2>2 DEF ChainInv
    <3>2. data'[i - 1] = IF j > 1 THEN data[j - 1] ELSE iv
      BY <1>3, <3>1
    <3>3. Chained(i, plain[i])' = Chained(j, plain[j])
      BY <1>1, <1>3, <2>2, <3>1, <3>2, NoIvIsNoBlock DEF Chained, ChainInv
    <3> QED
      BY <1>1, <1>3, <3>1, <3>3
  <2> QED
    BY <2>1, <2>2
<1> QED
  BY <1>1, <1>2, <1>3, <1>4 DEF ChainInv, PcValues

LEMMA ChainAnswer == HmacIsABlock /\ ChainInv /\ AnswerRequest => ChainInv'
<1> SUFFICES ASSUME HmacIsABlock, ChainInv, AnswerRequest PROVE ChainInv'
  OBVIOUS
<1>1. /\ offset' = 0 /\ plain' = data' /\ pc' = "encrypt_answer"
      /\ UNCHANGED <<v6, iv, chain>> /\ chain = NoIv
  BY DEF ChainInv, AnswerRequest, inputs
<1>2. data[1] \in Blocks
  <2>1. Len(data) # 0
    BY SizeAssumption DEF AnswerRequest, ChainInv
  <2> QED
    BY <2>1 DEF ChainInv
<1>3. data' \in Seq(Blocks)
  <2>1. PICK a \in Answers, random \in Randoms :
          \E response_iv \in IF v6 THEN Randoms ELSE {data[1]} :
            LET base == Sealed(a, data[1], response_iv, random)
                all  == IF v6 THEN WithHmac(base \o HwId \o data[1]) ELSE base
            IN  data' = Chunk(Pad(all))
    BY DEF AnswerRequest
  <2>2. PICK response_iv \in IF v6 THEN Randoms ELSE {data[1]} :
          LET base == Sealed(a, data[1], response_iv, random)
              all  == IF v6 THEN WithHmac(base \o HwId \o data[1]) ELSE base
          IN  data' = Chunk(Pad(all))
    BY <2>1
  <2>3. random \in Blocks /\ response_iv \in Blocks
    BY <1>2, InputAssumption
  <2> QED
    BY <1>2, <2>2, <2>3, SealedType, PadType, ChunkType
<1> QED
  BY <1>1, <1>3 DEF ChainInv, PcValues

LEMMA ChainNext == HmacIsABlock /\ ChainInv /\ [Next]_vars => ChainInv'
<1> SUFFICES ASSUME HmacIsABlock, ChainInv, [Next]_vars PROVE ChainInv'
  OBVIOUS
<1>1. CASE UNCHANGED vars
  BY <1>1 DEF vars, inputs, ChainInv, Chained
<1>2. CASE SendAnswer \/ ReadAnswer
  <2>1. /\ pc \in {"encrypt_answer", "decrypt_answer"}
        /\ pc' \in {"decrypt_answer", "done", "error"}
        /\ UNCHANGED <<v6, iv, chain, data, offset, plain>>
    BY <1>2 DEF SendAnswer, ReadAnswer, inputs
  <2> QED
    BY <2>1 DEF ChainInv, Chained, PcValues
<1> QED
  BY <1>1, <1>2, ChainEncrypt, ChainDecrypt, ChainSend, ChainAnswer
     DEF Next, Finished

LEMMA ChainRestores == ChainInv => BlocksRestored
<1> SUFFICES ASSUME ChainInv, offset = 0 PROVE data = plain
  BY DEF BlocksRestored
<1>1. /\ data \in Seq(Blocks) /\ plain \in Seq(Blocks) /\ Len(data) = Len(plain)
      /\ \A i \in 1..Len(data) : data[i] = plain[i]
  BY DEF ChainInv
<1> QED
  BY <1>1

\* Each side gets back, block by block, what the other encrypted, although one
\* of them treats the IV as a block of the message: for any cipher, any length
\* and any choice of random blocks.
THEOREM CbcRestores ==
  ASSUME HmacIsABlock
  PROVE  Spec => []BlocksRestored
<1>1. ChainInv => BlocksRestored
  BY ChainRestores
<1>2. ChainInv /\ [Next]_vars => ChainInv'
  BY ChainNext
<1> QED
  BY <1>1, <1>2, ChainInit, PTL DEF Spec

-----------------------------------------------------------------------------
(* What the server reads. *)

LEMMA Division ==
  ASSUME NEW n \in Nat
  PROVE  /\ B \in Nat \ {0}
         /\ n \div B \in Nat /\ n % B \in 0..(B - 1)
         /\ n = (n \div B) * B + (n % B)
  BY SizeAssumption

LEMMA Multiple ==
  ASSUME NEW k \in Nat
  PROVE  k * B \in Nat /\ (k * B) % B = 0 /\ (k * B) \div B = k
  BY SizeAssumption

\* Byte m of a buffer is found again in its chunks.
LEMMA ChunkIndex ==
  ASSUME NEW s \in Seq(Bytes), Len(s) % B = 0, NEW m \in 1..Len(s)
  PROVE  /\ ((m - 1) \div B) + 1 \in 1..Len(Chunk(s))
         /\ ((m - 1) % B) + 1 \in 1..B
         /\ Chunk(s)[((m - 1) \div B) + 1][((m - 1) % B) + 1] = s[m]
<1> DEFINE q == (m - 1) \div B
           r == (m - 1) % B
           n == Len(s) \div B
<1>1. n \in Nat /\ Len(s) = n * B
  <2>1. Len(s) \in Nat
    OBVIOUS
  <2>2. n \in Nat /\ Len(s) = n * B + (Len(s) % B) /\ n * B \in Nat
    BY <2>1, Division, Multiple
  <2> QED
    BY <2>2
<1>2. q \in Nat /\ r \in 0..(B - 1) /\ m - 1 = q * B + r /\ q * B \in Nat
  <2>1. m - 1 \in Nat
    OBVIOUS
  <2> QED
    BY <2>1, Division, Multiple
<1>3. B \in Nat \ {0}
  BY SizeAssumption
<1>4. Chunk(s) = [i \in 1..n |-> [j \in 1..B |-> s[(i - 1) * B + j]]]
  BY DEF Chunk
<1> HIDE DEF q, r, n
<1>5. q < n
  <2> SUFFICES ASSUME q >= n PROVE FALSE
    BY <1>1, <1>2
  <2>1. q * B >= n * B
    BY <1>1, <1>2, <1>3
  <2> QED
    BY <1>1, <1>2, <2>1
<1>6. q + 1 \in 1..n /\ r + 1 \in 1..B /\ ((q + 1) - 1) * B + (r + 1) = m
  BY <1>1, <1>2, <1>3, <1>5
<1>7. Chunk(s)[q + 1] = [j \in 1..B |-> s[((q + 1) - 1) * B + j]]
  BY <1>4, <1>6
<1>8. Chunk(s)[q + 1][r + 1] = s[m]
  BY <1>6, <1>7
<1>9. Len(Chunk(s)) = n
  BY <1>1, <1>4
<1> QED
  BY <1>6, <1>8, <1>9 DEF q, r

\* Padding ends on a block boundary and leaves the bytes where they were.
LEMMA PadFacts ==
  ASSUME NEW s \in Seq(Bytes)
  PROVE  /\ Pad(s) \in Seq(Bytes) /\ Len(Pad(s)) % B = 0 /\ Len(Pad(s)) > Len(s)
         /\ \A m \in 1..Len(s) : Pad(s)[m] = s[m]
<1> DEFINE q == Len(s) \div B
           r == Len(s) % B
           p == B - r
<1>1. /\ Len(s) \in Nat /\ B \in Nat \ {0}
      /\ q \in Nat /\ r \in 0..(B - 1) /\ Len(s) = q * B + r /\ q * B \in Nat
  <2>1. Len(s) \in Nat
    OBVIOUS
  <2> QED
    BY <2>1, Division, Multiple
<1>2. Pad(s) = s \o [j \in 1..p |-> p]
  BY DEF Pad
<1> HIDE DEF q, r
<1>3. p \in 1..B
  BY <1>1
<1>4. (Len(s) + p) % B = 0
  <2>1. (q + 1) * B = q * B + B
    BY <1>1
  <2>2. Len(s) + p = (q + 1) * B
    BY <1>1, <2>1
  <2> QED
    BY <1>1, <2>2, Multiple
<1> HIDE DEF p
<1>5. [j \in 1..p |-> p] \in Seq(Bytes) /\ Len([j \in 1..p |-> p]) = p
  BY <1>1, <1>3, SizeAssumption
<1>6. ASSUME NEW t \in Seq(Bytes)
      PROVE  Len(s \o t) = Len(s) + Len(t) /\ \A m \in 1..Len(s) : (s \o t)[m] = s[m]
  OBVIOUS
<1>7. Len(Pad(s)) = Len(s) + p /\ \A m \in 1..Len(s) : Pad(s)[m] = s[m]
  BY <1>2, <1>5, <1>6
<1> QED
  BY <1>1, <1>3, <1>4, <1>7, PadType

LEMMA NextBlock ==
  ASSUME NEW n \in Nat
  PROVE  (n + B) \div B = (n \div B) + 1 /\ (n + B) % B = n % B
<1> DEFINE q == n \div B
           r == n % B
<1>1. /\ B \in Nat \ {0} /\ q \in Nat /\ r \in 0..(B - 1)
      /\ n = q * B + r /\ q * B \in Nat
  BY Division, Multiple
<1>2. ASSUME NEW k \in Nat
      PROVE  (k * B + r) \div B = k /\ (k * B + r) % B = r
  BY <1>1
<1> HIDE DEF q, r
<1>3. (q + 1) * B = q * B + B
  BY <1>1
<1>4. n + B = (q + 1) * B + r
  BY <1>1, <1>3
<1> QED
  BY <1>1, <1>2, <1>4 DEF q, r

LEMMA ChunkLength ==
  ASSUME NEW s \in Seq(Bytes), Len(s) % B = 0
  PROVE  Len(Chunk(s)) \in Nat /\ Len(s) = Len(Chunk(s)) * B
<1> DEFINE n == Len(s) \div B
<1>1. Len(s) \in Nat
  OBVIOUS
<1>2. n \in Nat /\ Len(s) = n * B
  <2>1. n \in Nat /\ Len(s) = n * B + (Len(s) % B) /\ n * B \in Nat
    BY <1>1, Division, Multiple
  <2> QED
    BY <2>1
<1>3. Chunk(s) = [i \in 1..n |-> [j \in 1..B |-> s[(i - 1) * B + j]]]
  BY DEF Chunk
<1> HIDE DEF n
<1> QED
  BY <1>2, <1>3

\* The request is what follows the first block, whatever that block is.
LEMMA RecoveredRequest ==
  ASSUME NEW b \in Blocks, NEW s \in [1..RequestSize -> Bytes]
  PROVE  Recovered(Flat(<<b>> \o Chunk(Pad(s)))) = s
<1> DEFINE c == Chunk(Pad(s))
           all == <<b>> \o c
           f == Flat(all)
<1>1. /\ RequestSize \in Nat /\ B \in Nat \ {0}
      /\ s \in Seq(Bytes) /\ Len(s) = RequestSize
  BY SizeAssumption
<1>2. /\ Pad(s) \in Seq(Bytes) /\ Len(Pad(s)) % B = 0 /\ Len(Pad(s)) > RequestSize
      /\ \A m \in 1..RequestSize : Pad(s)[m] = s[m]
  BY <1>1, PadFacts
<1>3. c \in Seq(Blocks) /\ Len(c) \in Nat /\ Len(Pad(s)) = Len(c) * B
  BY <1>2, ChunkType, ChunkLength
<1> HIDE DEF c
<1>4. Len(all) = Len(c) + 1 /\ \A i \in 1..Len(c) : all[i + 1] = c[i]
  BY <1>3
<1> HIDE DEF all
<1>5. Len(all) * B = Len(Pad(s)) + B
  BY <1>1, <1>3, <1>4
<1>6. ASSUME NEW m \in 1..RequestSize PROVE f[B + m] = s[m]
  <2> DEFINE q == (m - 1) \div B
             r == (m - 1) % B
  <2>1. m \in 1..Len(Pad(s)) /\ m - 1 \in Nat
    BY <1>1, <1>2
  <2>2. q + 1 \in 1..Len(c) /\ c[q + 1][r + 1] = Pad(s)[m]
    BY <1>2, <2>1, ChunkIndex DEF c
  <2>3. ((m - 1) + B) \div B = q + 1 /\ ((m - 1) + B) % B = r
    BY <2>1, NextBlock
  <2>4. (B + m) - 1 = (m - 1) + B
    BY <1>1
  <2>5. B + m \in 1..(Len(all) * B)
    BY <1>1, <1>5, <2>1
  <2>6. f[B + m] = all[(((B + m) - 1) \div B) + 1][(((B + m) - 1) % B) + 1]
    BY <2>5 DEF Flat
  <2> HIDE DEF q, r, f
  <2>7. f[B + m] = all[(q + 1) + 1][r + 1]
    BY <2>3, <2>4, <2>6
  <2> QED
    BY <1>2, <1>4, <2>2, <2>7
<1> HIDE DEF f
<1>7. SubSeq(f, B + 1, B + RequestSize) = [m \in 1..RequestSize |-> f[B + m]]
  <2>1. ASSUME NEW x \in Nat, NEW y \in Nat
        PROVE  SubSeq(f, x + 1, x + y) = [m \in 1..y |-> f[x + m]]
    OBVIOUS
  <2> QED
    BY <1>1, <2>1
<1>8. SubSeq(f, B + 1, B + RequestSize) = s
  BY <1>1, <1>6, <1>7
<1> QED
  BY <1>8 DEF Recovered, f, all, c

-----------------------------------------------------------------------------

\* What is encrypted or decrypted on the way to the server is the padded request.
ReadInv ==
  /\ ChainInv
  /\ request \in [1..RequestSize -> Bytes]
  /\ pc = "encrypt_request" => plain = Chunk(Pad(request))
  /\ pc = "decrypt_request" => plain = <<Dec(v6, iv)>> \o Chunk(Pad(request))
  /\ seen \in {<<>>, request}

LEMMA ReadNext == HmacIsABlock /\ ReadInv /\ [Next]_vars => ReadInv'
<1> SUFFICES ASSUME HmacIsABlock, ReadInv, [Next]_vars PROVE ReadInv'
  OBVIOUS
<1>1. ChainInv /\ ChainInv'
  BY ChainNext DEF ReadInv
<1>2. CASE UNCHANGED vars
  BY <1>1, <1>2 DEF vars, inputs, results, ReadInv
<1>3. CASE EncryptBlock \/ DecryptBlock
  BY <1>1, <1>3 DEF EncryptBlock, DecryptBlock, inputs, results, ReadInv
<1>4. CASE SendRequest
  BY <1>1, <1>4 DEF SendRequest, inputs, results, ReadInv
<1>5. CASE AnswerRequest
  <2>1. /\ pc = "decrypt_request" /\ offset = 0 /\ pc' = "encrypt_answer"
        /\ seen' = Recovered(Flat(data)) /\ request' = request
    BY <1>5 DEF AnswerRequest, inputs
  <2>2. data = plain
    BY <1>1, <2>1, ChainRestores DEF BlocksRestored
  <2>3. data = <<Dec(v6, iv)>> \o Chunk(Pad(request))
    BY <2>1, <2>2 DEF ReadInv
  <2>4. Dec(v6, iv) \in Blocks
    BY <1>1, CipherAssumption DEF ChainInv
  <2>5. seen' = request
    BY <2>1, <2>3, <2>4, RecoveredRequest DEF ReadInv
  <2> QED
    BY <1>1, <2>1, <2>5 DEF ReadInv
<1>6. CASE SendAnswer \/ ReadAnswer
  BY <1>1, <1>6 DEF SendAnswer, ReadAnswer, inputs, results, ReadInv
<1> QED
  BY <1>2, <1>3, <1>4, <1>5, <1>6 DEF Next, Finished

\* The server reads the request that was sent: for any cipher, any size of the
\* request, any IV, and also when padding takes a block of its own.
THEOREM ServerReadsRequest ==
  ASSUME HmacIsABlock
  PROVE  Spec => []RequestUnderstood
<1>1. Init => ReadInv
  BY ChainInit, InputAssumption DEF Init, ReadInv
<1>2. ReadInv => RequestUnderstood
  BY DEF ReadInv, RequestUnderstood
<1>3. ReadInv /\ [Next]_vars => ReadInv'
  BY ReadNext
<1> QED
  BY <1>1, <1>2, <1>3, PTL DEF Spec

-----------------------------------------------------------------------------
(* What the client reads. *)

\* A part of a message, by its place.
LEMMA Part ==
  ASSUME NEW x \in Seq(Bytes), NEW y \in Seq(Bytes), NEW z \in Seq(Bytes)
  PROVE  /\ x \o y \o z \in Seq(Bytes)
         /\ Len(x) \in Nat /\ Len(y) \in Nat /\ Len(z) \in Nat
         /\ Len(x \o y \o z) = Len(x) + Len(y) + Len(z)
         /\ SubSeq(x \o y \o z, Len(x) + 1, Len(x) + Len(y)) = y
<1> DEFINE s == x \o y \o z
<1>1. /\ s \in Seq(Bytes) /\ Len(x) \in Nat /\ Len(y) \in Nat /\ Len(z) \in Nat
      /\ Len(s) = Len(x) + Len(y) + Len(z)
  OBVIOUS
<1>2. \A m \in 1..Len(y) : s[Len(x) + m] = y[m]
  OBVIOUS
<1>3. ASSUME NEW a \in Nat, NEW b \in Nat
      PROVE  SubSeq(s, a + 1, a + b) = [m \in 1..b |-> s[a + m]]
  <2> HIDE DEF s
  <2> QED
    BY <1>1
<1> HIDE DEF s
<1>4. SubSeq(s, Len(x) + 1, Len(x) + Len(y)) = [m \in 1..Len(y) |-> s[Len(x) + m]]
  BY <1>1, <1>3
<1>5. y = [m \in 1..Len(y) |-> y[m]]
  OBVIOUS
<1>6. SubSeq(s, Len(x) + 1, Len(x) + Len(y)) = y
  BY <1>2, <1>4, <1>5
<1> QED
  BY <1>1, <1>6 DEF s

\* Flattening undoes chunking.
LEMMA FlatChunk ==
  ASSUME NEW s \in Seq(Bytes), Len(s) % B = 0
  PROVE  Flat(Chunk(s)) = s
<1>1. Len(Chunk(s)) * B = Len(s) /\ Len(s) \in Nat
  BY ChunkLength
<1>2. \A m \in 1..Len(s) : Chunk(s)[((m - 1) \div B) + 1][((m - 1) % B) + 1] = s[m]
  BY ChunkIndex
<1>3. Flat(Chunk(s)) = [m \in 1..Len(s) |-> Chunk(s)[((m - 1) \div B) + 1][((m - 1) % B) + 1]]
  BY <1>1 DEF Flat
<1>4. Flat(Chunk(s)) = [m \in 1..Len(s) |-> s[m]]
  BY <1>2, <1>3, Zenon
<1>5. s = [m \in 1..Len(s) |-> s[m]]
  OBVIOUS
<1> QED
  BY <1>4, <1>5

\* The padding is found to be right, and removed.
LEMMA PadUnpad ==
  ASSUME NEW s \in Seq(Bytes)
  PROVE  PaddingValid(Pad(s)) /\ Unpad(Pad(s)) = s
<1> DEFINE r == Len(s) % B
           p == B - r
           t == [j \in 1..p |-> p]
           u == s \o t
<1>1. Len(s) \in Nat /\ B \in Nat \ {0} /\ r \in 0..(B - 1)
  BY Division
<1> HIDE DEF r
<1>2. p \in 1..B /\ p \in Nat /\ p > 0
  BY <1>1
<1> HIDE DEF p
<1>3. t \in Seq(Bytes) /\ Len(t) = p /\ \A j \in 1..p : t[j] = p
  BY <1>1, <1>2, SizeAssumption
<1> HIDE DEF t
<1>4. /\ u \in Seq(Bytes) /\ Len(u) = Len(s) + p
      /\ \A j \in 1..p : u[Len(s) + j] = p
      /\ SubSeq(u, 1, Len(s)) = s
  <2>1. u \in Seq(Bytes) /\ Len(u) = Len(s) + p /\ \A j \in 1..p : u[Len(s) + j] = t[j]
    BY <1>2, <1>3
  <2>2. SubSeq(<<>> \o s \o t, Len(<<>>) + 1, Len(<<>>) + Len(s)) = s /\ <<>> \in Seq(Bytes)
    BY <1>3, Part
  <2>3. <<>> \o s \o t = u /\ Len(<<>>) = 0
    BY <1>3
  <2> QED
    BY <1>1, <1>3, <2>1, <2>2, <2>3
<1> HIDE DEF u
<1>5. u[Len(u)] = p /\ Len(u) - p = Len(s) /\ u # <<>>
  BY <1>1, <1>2, <1>4
<1>6. \A j \in (Len(u) - p + 1)..Len(u) : u[j] = p
  <2> SUFFICES ASSUME NEW j \in (Len(u) - p + 1)..Len(u) PROVE u[j] = p
    OBVIOUS
  <2>1. j - Len(s) \in 1..p /\ Len(s) + (j - Len(s)) = j
    BY <1>1, <1>2, <1>4
  <2> QED
    BY <1>4, <2>1
<1>7. PaddingValid(u) /\ Unpad(u) = s
  BY <1>2, <1>4, <1>5, <1>6 DEF PaddingValid, Unpad
<1>8. Pad(s) = u
  BY DEF Pad, u, t, p, r
<1> QED
  BY <1>7, <1>8

LEMMA Assoc ==
  ASSUME NEW x \in Seq(Bytes), NEW y \in Seq(Bytes), NEW z \in Seq(Bytes)
  PROVE  (x \o y) \o z = x \o (y \o z)
  OBVIOUS

LEMMA Ends ==
  ASSUME NEW x \in Seq(Bytes), NEW y \in Seq(Bytes)
  PROVE  /\ x \o y \in Seq(Bytes) /\ Len(x) \in Nat /\ Len(y) \in Nat
         /\ Len(x \o y) = Len(x) + Len(y)
         /\ SubSeq(x \o y, 1, Len(x)) = x
         /\ SubSeq(x \o y, Len(x) + 1, Len(x) + Len(y)) = y
<1> DEFINE e == <<>>
<1>1. e \in Seq(Bytes) /\ Len(e) = 0 /\ e \o x = x
  OBVIOUS
<1>2. (x \o y) \o e = x \o y
  OBVIOUS
<1> HIDE DEF e
<1>3. /\ Len(x) \in Nat /\ Len(y) \in Nat /\ x \o y \in Seq(Bytes)
      /\ Len(x \o y) = Len(x) + Len(y)
  OBVIOUS
<1>4. SubSeq(x \o y, Len(x) + 1, Len(x) + Len(y)) = y
  BY <1>1, <1>2, Part
<1>5. SubSeq((e \o x) \o y, Len(e) + 1, Len(e) + Len(x)) = x
  BY <1>1, Part
<1>6. SubSeq(x \o y, 0 + 1, 0 + Len(x)) = x
  BY <1>1, <1>5
<1> QED
  BY <1>3, <1>4, <1>6

\* What the client cuts out of a response, whatever follows it.
LEMMA ParsedAnswer ==
  ASSUME NEW a \in Answers, NEW z \in Seq(Bytes)
  PROVE  LET body == ResponseToWire(a) \o z
         IN  /\ body # <<>> /\ Len(body) >= 1 + body[1] + TailSize
             /\ Parsed(body) = a
<1> DEFINE size == <<Len(a.pid)>>
           p    == Len(a.pid)
           body == ResponseToWire(a) \o z
<1>1. /\ a = [pid |-> a.pid, rest |-> a.rest] /\ a.pid \in Seq(Bytes)
      /\ a.rest \in [1..TailSize -> Bytes] /\ p \in Bytes /\ TailSize \in Nat
  BY InputAssumption, SizeAssumption
<1>2. /\ a.rest \in Seq(Bytes) /\ Len(a.rest) = TailSize /\ p \in Nat
      /\ size \in Seq(Bytes) /\ Len(size) = 1
  BY <1>1
<1>3. /\ a.rest \o z \in Seq(Bytes) /\ size \o a.pid \in Seq(Bytes)
      /\ Len(size \o a.pid) = 1 + p
  BY <1>1, <1>2, Ends
<1>4. body = size \o a.pid \o a.rest \o z
  BY DEF ResponseToWire
<1>5. body = size \o a.pid \o (a.rest \o z)
  BY <1>2, <1>3, <1>4, Assoc
<1>6. SubSeq(body, 2, 1 + p) = a.pid
  <2>1. SubSeq(body, Len(size) + 1, Len(size) + Len(a.pid)) = a.pid
    BY <1>1, <1>2, <1>3, <1>5, Part
  <2> HIDE DEF size, body, p
  <2>2. Len(a.pid) = p
    BY DEF p
  <2> QED
    BY <1>2, <2>1, <2>2
<1>7. /\ SubSeq(body, 1 + p + 1, 1 + p + TailSize) = a.rest
      /\ body \in Seq(Bytes) /\ Len(body) = 1 + p + TailSize + Len(z) /\ Len(z) \in Nat
  <2> DEFINE front == size \o a.pid
  <2> HIDE DEF front
  <2>1. body = front \o a.rest \o z
    BY <1>4 DEF front
  <2>2. front \in Seq(Bytes) /\ Len(front) = 1 + p
    BY <1>3 DEF front
  <2> HIDE DEF body
  <2>3. /\ SubSeq(body, Len(front) + 1, Len(front) + Len(a.rest)) = a.rest
        /\ body \in Seq(Bytes) /\ Len(body) = Len(front) + Len(a.rest) + Len(z)
        /\ Len(z) \in Nat
    BY <1>2, <2>1, <2>2, Part
  <2> HIDE DEF p
  <2> QED
    BY <1>2, <2>2, <2>3
<1>8. body[1] = p
  <2> DEFINE t == a.rest \o z
  <2> HIDE DEF t, size, body
  <2>1. body = size \o (a.pid \o t) /\ a.pid \o t \in Seq(Bytes)
    <3>1. t \in Seq(Bytes) /\ body = size \o a.pid \o t
      BY <1>3, <1>5 DEF t
    <3> HIDE DEF p
    <3>2. a.pid \in Seq(Bytes) /\ size \in Seq(Bytes)
      BY <1>1, <1>2
    <3>3. a.pid \o t \in Seq(Bytes)
      BY <3>1, <3>2, Ends
    <3>4. (size \o a.pid) \o t = size \o (a.pid \o t)
      BY <3>1, <3>2, Assoc, Zenon
    <3> QED
      BY <3>1, <3>3, <3>4, Zenon
  <2>2. ASSUME NEW u \in Seq(Bytes) PROVE (size \o u)[1] = p
    BY <1>1, <1>2 DEF size
  <2> QED
    BY <2>1, <2>2
<1> HIDE DEF body, size, p
<1>9. 1 + p + 1 = 2 + p
  BY <1>2
<1>10. Parsed(body) = [pid |-> SubSeq(body, 2, 1 + p), rest |-> SubSeq(body, 2 + p, 1 + p + TailSize)]
  BY <1>8 DEF Parsed
<1>11. Parsed(body) = a
  BY <1>1, <1>6, <1>7, <1>9, <1>10
<1>12. body # <<>> /\ Len(body) >= 1 + body[1] + TailSize
  BY <1>1, <1>2, <1>7, <1>8
<1> QED
  BY <1>11, <1>12 DEF body

\* The parts of an answer are where a client looks for them, whatever follows them.
HasParts(m, a, request_iv, response_iv, random, t) ==
  LET w    == B + Len(ResponseToWire(a))
      tail == Xor(random, request_iv) \o (Sha(random) \o t)
  IN  /\ m \in Seq(Bytes) /\ tail \in Seq(Bytes)
      /\ Len(ResponseToWire(a)) \in Nat
      /\ SubSeq(m, 1, B) = response_iv
      /\ AfterIv(m) = ResponseToWire(a) \o tail
      /\ SubSeq(m, w + 1, w + B) = Xor(random, request_iv)
      /\ SubSeq(m, w + B + 1, w + B + 2 * B) = Sha(random)

LEMMA SealedParts ==
  ASSUME NEW a \in Answers, NEW request_iv \in Blocks,
         NEW response_iv \in Blocks, NEW random \in Blocks, NEW t \in Seq(Bytes)
  PROVE  HasParts(Sealed(a, request_iv, response_iv, random) \o t,
                  a, request_iv, response_iv, random, t)
<1> DEFINE wire == ResponseToWire(a)
           x    == Xor(random, request_iv)
           h    == Sha(random)
           w    == B + Len(wire)
           m    == Sealed(a, request_iv, response_iv, random) \o t
<1>1. B \in Nat /\ wire \in Seq(Bytes)
  BY WireType, SizeAssumption
<1>2. x \in Seq(Bytes) /\ Len(x) = B /\ response_iv \in Seq(Bytes) /\ Len(response_iv) = B
  <2>1. x \in Blocks
    BY XorFacts
  <2> HIDE DEF x
  <2>2. ASSUME NEW b \in Blocks PROVE b \in Seq(Bytes) /\ Len(b) = B
    BY <1>1, BlockIsBytes DEF Blocks
  <2> QED
    BY <2>1, <2>2
<1>3. h \in Seq(Bytes) /\ Len(h) = 2 * B
  BY InputAssumption
<1>4. m = ((response_iv \o wire) \o x) \o h \o t
  BY DEF Sealed
<1> HIDE DEF wire, x, h, m
<1>5. /\ response_iv \o wire \in Seq(Bytes) /\ Len(response_iv \o wire) = w
      /\ Len(wire) \in Nat
  BY <1>1, <1>2, Ends
<1> DEFINE r1 == response_iv \o wire
           r2 == r1 \o x
<1>6. r2 \in Seq(Bytes) /\ Len(r2) = w + B
  <2>1. r1 \in Seq(Bytes) /\ Len(r1) = w
    BY <1>5
  <2> HIDE DEF r1, w
  <2>2. r1 \o x \in Seq(Bytes) /\ Len(r1 \o x) = Len(r1) + Len(x)
    BY <1>2, <2>1, Ends
  <2> QED
    BY <1>2, <2>1, <2>2
<1>7. h \o t \in Seq(Bytes) /\ x \o (h \o t) \in Seq(Bytes)
  BY <1>2, <1>3, Ends
<1>8. m \in Seq(Bytes) /\ SubSeq(m, w + B + 1, w + B + 2 * B) = h
  <2> HIDE DEF r2, w
  <2>1. m = r2 \o h \o t
    BY <1>4 DEF r2
  <2>2. m \in Seq(Bytes) /\ SubSeq(m, Len(r2) + 1, Len(r2) + Len(h)) = h
    BY <1>3, <1>6, <2>1, Part
  <2> QED
    BY <1>3, <1>6, <2>2
<1>9. m = r1 \o x \o (h \o t)
  <2> HIDE DEF r2
  <2>1. m = (r2 \o h) \o t
    BY <1>4 DEF r2
  <2>2. (r2 \o h) \o t = r2 \o (h \o t)
    BY <1>3, <1>6, Assoc
  <2> QED
    BY <2>1, <2>2 DEF r2
<1>10. SubSeq(m, w + 1, w + B) = x
  <2> HIDE DEF r1, w
  <2>1. r1 \in Seq(Bytes) /\ Len(r1) = w
    BY <1>5 DEF r1
  <2>2. SubSeq(m, Len(r1) + 1, Len(r1) + Len(x)) = x
    BY <1>2, <1>7, <1>9, <2>1, Part
  <2> QED
    BY <1>2, <2>1, <2>2
<1> DEFINE tail == x \o (h \o t)
<1> DEFINE ht == h \o t
<1>11. m = response_iv \o (wire \o tail)
  <2>1. r1 \in Seq(Bytes) /\ ht \in Seq(Bytes)
    BY <1>5, <1>7
  <2> HIDE DEF r1, ht
  <2>2. (r1 \o x) \o ht = r1 \o (x \o ht)
    BY <1>2, <2>1, Assoc
  <2>3. m = r1 \o tail
    BY <1>9, <2>2 DEF ht
  <2> HIDE DEF tail
  <2>4. (response_iv \o wire) \o tail = response_iv \o (wire \o tail)
    BY <1>1, <1>2, <1>7, Assoc DEF tail
  <2> QED
    BY <2>3, <2>4 DEF r1
<1> HIDE DEF tail
<1>12. tail \in Seq(Bytes) /\ wire \o tail \in Seq(Bytes)
  BY <1>1, <1>7, Ends DEF tail
<1>13. SubSeq(m, 1, B) = response_iv /\ AfterIv(m) = wire \o tail
  <2> DEFINE rest == wire \o tail
  <2> HIDE DEF rest
  <2>1. rest \in Seq(Bytes) /\ m = response_iv \o rest
    BY <1>11, <1>12 DEF rest
  <2>2. /\ Len(m) = Len(response_iv) + Len(rest)
        /\ SubSeq(m, 1, Len(response_iv)) = response_iv
        /\ SubSeq(m, Len(response_iv) + 1, Len(response_iv) + Len(rest)) = rest
    <3>1. response_iv \in Seq(Bytes) /\ rest \in Seq(Bytes)
      BY <1>2, <2>1
    <3>2. /\ Len(response_iv \o rest) = Len(response_iv) + Len(rest)
          /\ SubSeq(response_iv \o rest, 1, Len(response_iv)) = response_iv
          /\ SubSeq(response_iv \o rest, Len(response_iv) + 1,
                    Len(response_iv) + Len(rest)) = rest
      BY <3>1, Ends
    <3> QED
      BY <2>1, <3>2, Zenon
  <2>3. /\ SubSeq(m, 1, B) = response_iv
        /\ SubSeq(m, B + 1, Len(m)) = rest
    BY <1>2, <2>2
  <2> QED
    BY <2>3 DEF AfterIv, rest
<1> QED
  BY <1>5, <1>8, <1>10, <1>12, <1>13 DEF wire, x, h, m, w, tail, HasParts

\* The IV of the request as the server has it: decrypted.
Own == Dec(v6, iv)

\* The plain text of an answer.
Message(a, response_iv, random) ==
  LET base == Sealed(a, Own, response_iv, random)
  IN  IF v6 THEN WithHmac(base \o HwId \o Own) ELSE base

\* m answers the request with a, under some choice of random bytes.
AnswersWith(a, m) ==
  \E response_iv \in Blocks, random \in Blocks :
    (~v6 => response_iv = Own) /\ m = Message(a, response_iv, random)

\* What a client verifies in m, the properties' AnswerVerifiable.
Verifies(a, m) ==
  LET w        == B + Len(ResponseToWire(a))
      at(o, n) == SubSeq(m, o + 1, o + n)
      last     == Len(m) - B
  IN  /\ Sha(Xor(at(w, B), Own)) = at(w + B, 2 * B)
      /\ ~v6 => at(0, B) = Own
      /\ v6 => /\ at(last - B, B) = Own
               /\ Hmac(at(0, last)) = at(last, B)

\* The IV and the MAC at the end of a V6 answer.
LEMMA HmacParts ==
  ASSUME HmacIsABlock, NEW base \in Seq(Bytes), NEW own \in Blocks
  PROVE  LET m    == WithHmac(base \o HwId \o own)
             last == Len(m) - B
         IN  /\ SubSeq(m, (last - B) + 1, (last - B) + B) = own
             /\ Hmac(SubSeq(m, 0 + 1, 0 + last)) = SubSeq(m, last + 1, last + B)
<1> DEFINE front  == base \o HwId
           before == front \o own
           mac    == Hmac(before)
           m      == before \o mac
<1>1. /\ front \in Seq(Bytes) /\ own \in Seq(Bytes) /\ Len(own) = B
      /\ B \in Nat
  <2>1. HwId \in Seq(Bytes) /\ B \in Nat
    BY InputAssumption, SizeAssumption
  <2> QED
    BY <2>1, Ends, BlockIsBytes DEF Blocks
<1> HIDE DEF front
<1>2. /\ before \in Seq(Bytes) /\ Len(before) = Len(front) + B /\ Len(front) \in Nat
      /\ SubSeq(before, Len(front) + 1, Len(front) + Len(own)) = own
  BY <1>1, Ends
<1>3. mac \in Seq(Bytes) /\ Len(mac) = B
  <2> HIDE DEF before
  <2>1. mac \in Blocks
    BY <1>2 DEF HmacIsABlock
  <2> HIDE DEF mac
  <2> QED
    BY <1>1, <2>1, BlockIsBytes DEF Blocks
<1> HIDE DEF mac
<1>4. SubSeq(m, Len(front) + 1, Len(front) + Len(own)) = own
  BY <1>1, <1>3, Part
<1> HIDE DEF before
<1>5. /\ Len(m) = Len(before) + Len(mac)
      /\ SubSeq(m, 1, Len(before)) = before
      /\ SubSeq(m, Len(before) + 1, Len(before) + Len(mac)) = mac
  BY <1>2, <1>3, Ends
<1> HIDE DEF m
<1> DEFINE last == Len(m) - B
<1>6. last = Len(before) /\ last - B = Len(front)
  BY <1>1, <1>2, <1>3, <1>5
<1> HIDE DEF last
<1>7. SubSeq(m, (last - B) + 1, (last - B) + B) = own
  BY <1>1, <1>4, <1>6
<1>8. SubSeq(m, 0 + 1, 0 + last) = before /\ SubSeq(m, last + 1, last + B) = mac
  BY <1>1, <1>2, <1>3, <1>5, <1>6
<1>9. Hmac(before) = mac /\ m = WithHmac(base \o HwId \o own)
  BY DEF mac, m, before, front, WithHmac
<1> QED
  BY <1>7, <1>8, <1>9 DEF last

\* Every answer of the server verifies and parses to what was answered.
LEMMA MessageReads ==
  ASSUME HmacIsABlock, v6 \in BOOLEAN, iv \in Blocks,
         NEW a \in Answers, NEW m, AnswersWith(a, m)
  PROVE  /\ m \in Seq(Bytes)
         /\ AfterIv(m) # <<>> /\ Len(AfterIv(m)) >= 1 + AfterIv(m)[1] + TailSize
         /\ Parsed(AfterIv(m)) = a
         /\ Verifies(a, m)
<1>1. PICK response_iv \in Blocks, random \in Blocks :
        (~v6 => response_iv = Own) /\ m = Message(a, response_iv, random)
  BY DEF AnswersWith
<1>2. Own \in Blocks
  BY CipherAssumption DEF Own
<1> DEFINE base == Sealed(a, Own, response_iv, random)
           w    == B + Len(ResponseToWire(a))
<1>3. \E t \in Seq(Bytes) : m = base \o t
  <2>1. CASE ~v6
    <3>1. m = base \o <<>> /\ <<>> \in Seq(Bytes)
      <4>1. base \in Seq(Bytes)
        BY <1>2, SealedType
      <4> HIDE DEF base
      <4>2. base \o <<>> = base
        BY <4>1
      <4> QED
        BY <1>1, <2>1, <4>2 DEF Message, base
    <3> QED
      BY <3>1
  <2>2. CASE v6
    <3> DEFINE mac == Hmac(base \o HwId \o Own)
    <3>1. base \in Seq(Bytes) /\ HwId \in Seq(Bytes) /\ Own \in Seq(Bytes)
      BY <1>2, SealedType, InputAssumption, BlockIsBytes
    <3>2. m = ((base \o HwId) \o Own) \o mac
      BY <1>1, <2>2 DEF Message, WithHmac
    <3> HIDE DEF base
    <3>3. base \o HwId \in Seq(Bytes) /\ (base \o HwId) \o Own \in Seq(Bytes)
      BY <3>1, Ends
    <3>4. mac \in Seq(Bytes)
      BY <3>3, BlockIsBytes DEF HmacIsABlock
    <3> HIDE DEF mac
    <3>5. HwId \o Own \in Seq(Bytes) /\ (HwId \o Own) \o mac \in Seq(Bytes)
      BY <3>1, <3>4, Ends
    <3>6. (base \o HwId) \o Own = base \o (HwId \o Own)
      BY <3>1, Assoc
    <3> DEFINE end == HwId \o Own
    <3> HIDE DEF end
    <3>7. (base \o end) \o mac = base \o (end \o mac)
      BY <3>1, <3>4, <3>5, Assoc DEF end
    <3> QED
      BY <3>2, <3>5, <3>6, <3>7 DEF end
  <2> QED
    BY <2>1, <2>2
<1>4. PICK t \in Seq(Bytes) : m = base \o t
  BY <1>3
<1> DEFINE tail == Xor(random, Own) \o (Sha(random) \o t)
<1>5. /\ m \in Seq(Bytes) /\ tail \in Seq(Bytes)
      /\ SubSeq(m, 1, B) = response_iv
      /\ AfterIv(m) = ResponseToWire(a) \o tail
      /\ SubSeq(m, w + 1, w + B) = Xor(random, Own)
      /\ SubSeq(m, w + B + 1, w + B + 2 * B) = Sha(random)
  <2>1. HasParts(base \o t, a, Own, response_iv, random, t)
    BY <1>2, SealedParts
  <2> QED
    BY <1>4, <2>1 DEF HasParts
<1> HIDE DEF tail
<1>6. /\ AfterIv(m) # <<>> /\ Len(AfterIv(m)) >= 1 + AfterIv(m)[1] + TailSize
      /\ Parsed(AfterIv(m)) = a
  BY <1>5, ParsedAnswer
<1>7. Xor(Xor(random, Own), Own) = random
  BY <1>2, XorFacts
<1>8. ~v6 => SubSeq(m, 0 + 1, 0 + B) = Own
  BY <1>1, <1>5, SizeAssumption
<1>9. ASSUME v6
      PROVE  LET last == Len(m) - B
             IN  /\ SubSeq(m, (last - B) + 1, (last - B) + B) = Own
                 /\ Hmac(SubSeq(m, 0 + 1, 0 + last)) = SubSeq(m, last + 1, last + B)
  <2>1. base \in Seq(Bytes)
    BY <1>2, SealedType
  <2>2. m = WithHmac(base \o HwId \o Own)
    BY <1>1, <1>9 DEF Message
  <2> HIDE DEF base
  <2> QED
    BY <1>2, <2>1, <2>2, HmacParts
<1>10. Verifies(a, m)
  <2>1. Sha(Xor(SubSeq(m, w + 1, w + B), Own)) = SubSeq(m, w + B + 1, w + B + 2 * B)
    BY <1>5, <1>7
  <2> QED
    BY <1>8, <1>9, <2>1 DEF Verifies
<1> QED
  BY <1>5, <1>6, <1>10

\* What is encrypted on the way to the client is the padded answer to its request.
AnswerInv ==
  /\ ReadInv
  /\ pc # "error"
  /\ pc \in {"encrypt_answer", "decrypt_answer"} =>
       sent \in Answers /\ \E m : AnswersWith(sent, m) /\ plain = Chunk(Pad(m))
  /\ pc = "done" => sent \in Answers /\ AnswersWith(sent, opened) /\ got = sent
  /\ pc \in {"encrypt_request", "decrypt_request"} => sent = NoAnswer
  /\ pc # "done" => opened = <<>> /\ got = NoAnswer

LEMMA AnswerSent == HmacIsABlock /\ AnswerInv /\ AnswerRequest => AnswerInv'
<1> SUFFICES ASSUME HmacIsABlock, AnswerInv, AnswerRequest PROVE AnswerInv'
  OBVIOUS
<1>1. ReadInv' /\ ChainInv
  BY ReadNext DEF AnswerInv, ReadInv, Next
<1>2. /\ pc = "decrypt_request" /\ offset = 0 /\ pc' = "encrypt_answer"
      /\ v6' = v6 /\ iv' = iv /\ plain' = data' /\ opened' = opened /\ got' = got
  BY DEF AnswerRequest, inputs
<1>3. data[1] = Own /\ Own \in Blocks
  <2>1. data = plain
    BY <1>1, <1>2, ChainRestores DEF BlocksRestored
  <2>2. data = <<Own>> \o Chunk(Pad(request))
    BY <1>2, <2>1 DEF AnswerInv, ReadInv, Own
  <2>3. Own \in Blocks
    BY <1>1, CipherAssumption DEF ChainInv, Own
  <2>4. Chunk(Pad(request)) \in Seq(Blocks)
    BY PadType, ChunkType, SizeAssumption DEF AnswerInv, ReadInv
  <2> QED
    BY <2>2, <2>3, <2>4
<1>4. PICK a \in Answers, random \in Randoms :
        \E response_iv \in IF v6 THEN Randoms ELSE {Own} :
          /\ sent' = a
          /\ data' = Chunk(Pad(Message(a, response_iv, random)))
  BY <1>3 DEF AnswerRequest, Message
<1>5. PICK response_iv \in IF v6 THEN Randoms ELSE {Own} :
        data' = Chunk(Pad(Message(a, response_iv, random)))
  BY <1>4
<1>6. PICK m : m = Message(a, response_iv, random)
  OBVIOUS
<1>7. AnswersWith(a, m)
  <2>1. response_iv \in Blocks /\ random \in Blocks /\ (~v6 => response_iv = Own)
    BY <1>3, InputAssumption
  <2> QED
    BY <1>6, <2>1 DEF AnswersWith
<1>8. AnswersWith(a, m)'
  BY <1>2, <1>7 DEF AnswersWith, Message, Own
<1>9. sent' = a /\ plain' = Chunk(Pad(m))
  BY <1>2, <1>4, <1>5, <1>6
<1>10. AnswersWith(sent, m)'
  BY <1>8, <1>9 DEF AnswersWith
<1> QED
  BY <1>1, <1>2, <1>9, <1>10 DEF AnswerInv

LEMMA AnswerRead == HmacIsABlock /\ AnswerInv /\ ReadAnswer => AnswerInv'
<1> SUFFICES ASSUME HmacIsABlock, AnswerInv, ReadAnswer PROVE AnswerInv'
  OBVIOUS
<1>1. ReadInv' /\ ChainInv
  BY ReadNext DEF AnswerInv, ReadInv, Next
<1>2. /\ pc = "decrypt_answer" /\ offset = 0
      /\ v6' = v6 /\ iv' = iv /\ sent' = sent /\ sent \in Answers
  BY DEF ReadAnswer, inputs, AnswerInv
<1>3. PICK m : AnswersWith(sent, m) /\ plain = Chunk(Pad(m))
  BY <1>2 DEF AnswerInv
<1>4. v6 \in BOOLEAN /\ iv \in Blocks
  BY <1>1 DEF ChainInv
<1>5. /\ m \in Seq(Bytes)
      /\ AfterIv(m) # <<>> /\ Len(AfterIv(m)) >= 1 + AfterIv(m)[1] + TailSize
      /\ Parsed(AfterIv(m)) = sent
  BY <1>2, <1>3, <1>4, MessageReads
<1>6. Flat(data) = Pad(m)
  <2>1. data = Chunk(Pad(m))
    BY <1>1, <1>2, <1>3, ChainRestores DEF BlocksRestored
  <2> QED
    BY <1>5, <2>1, PadFacts, FlatChunk
<1>7. PaddingValid(Flat(data)) /\ Unpad(Flat(data)) = m
  BY <1>5, <1>6, PadUnpad
<1>8. Readable(Flat(data))
  BY <1>5, <1>7 DEF Readable
<1>9. pc' = "done" /\ opened' = m /\ got' = sent
  BY <1>5, <1>7, <1>8 DEF ReadAnswer
<1>10. AnswersWith(sent, opened)'
  BY <1>2, <1>3, <1>9 DEF AnswersWith, Message, Own
<1> QED
  BY <1>1, <1>2, <1>9, <1>10 DEF AnswerInv

LEMMA AnswerNext == HmacIsABlock /\ AnswerInv /\ [Next]_vars => AnswerInv'
<1> SUFFICES ASSUME HmacIsABlock, AnswerInv, [Next]_vars PROVE AnswerInv'
  OBVIOUS
<1>1. ReadInv'
  BY ReadNext DEF AnswerInv
<1>2. ASSUME UNCHANGED <<v6, iv, sent, opened, got, plain>>,
             \/ pc' = pc
             \/ pc = "encrypt_answer" /\ pc' = "decrypt_answer"
             \/ pc = "encrypt_request" /\ pc' = "decrypt_request"
      PROVE  AnswerInv'
  <2>1. \A a, m : AnswersWith(a, m)' = AnswersWith(a, m)
    BY <1>2 DEF AnswersWith, Message, Own
  <2>2. pc' # "error"
    BY <1>2 DEF AnswerInv
  <2>3. pc' \in {"encrypt_answer", "decrypt_answer"} =>
          sent' \in Answers /\ (\E m : AnswersWith(sent, m) /\ plain = Chunk(Pad(m)))'
    BY <1>2, <2>1 DEF AnswerInv
  <2>4. pc' = "done" => (sent \in Answers /\ AnswersWith(sent, opened) /\ got = sent)'
    BY <1>2, <2>1 DEF AnswerInv
  <2>5. /\ pc' \in {"encrypt_request", "decrypt_request"} => sent' = NoAnswer
        /\ pc' # "done" => opened' = <<>> /\ got' = NoAnswer
    BY <1>2 DEF AnswerInv
  <2> QED
    BY <1>1, <2>2, <2>3, <2>4, <2>5 DEF AnswerInv
<1>3. CASE UNCHANGED vars
  BY <1>2, <1>3 DEF vars, inputs, results
<1>4. CASE EncryptBlock \/ DecryptBlock \/ SendAnswer
  BY <1>2, <1>4 DEF EncryptBlock, DecryptBlock, SendAnswer, inputs, results
<1>5. CASE SendRequest
  <2>1. /\ pc = "encrypt_request" /\ pc' = "decrypt_request"
        /\ UNCHANGED <<sent, opened, got>>
    BY <1>5 DEF SendRequest, results
  <2> QED
    BY <1>1, <2>1 DEF AnswerInv
<1> QED
  BY <1>3, <1>4, <1>5, AnswerSent, AnswerRead DEF Next, Finished

LEMMA AnswerAlways ==
  ASSUME HmacIsABlock
  PROVE  Spec => []AnswerInv
<1>1. Init => AnswerInv
  BY ChainInit, InputAssumption DEF Init, ReadInv, AnswerInv
<1>2. AnswerInv /\ [Next]_vars => AnswerInv'
  BY AnswerNext
<1> QED
  BY <1>1, <1>2, PTL DEF Spec

\* Types, for messages of any length.
THEOREM V6Type ==
  ASSUME HmacIsABlock
  PROVE  Spec => []TypeOK
<1>1. AnswerInv => TypeOK
  <2> SUFFICES ASSUME AnswerInv PROVE TypeOK
    OBVIOUS
  <2>1. ChainInv /\ request \in [1..RequestSize -> Bytes] /\ seen \in {<<>>, request}
    BY DEF AnswerInv, ReadInv
  <2>2. /\ sent \in Answers \cup {NoAnswer} /\ opened \in Seq(Bytes)
        /\ got \in Answers \cup {NoAnswer}
    <3>1. CASE pc = "done"
      <4>1. sent \in Answers /\ AnswersWith(sent, opened) /\ got = sent
        BY <3>1 DEF AnswerInv
      <4>2. opened \in Seq(Bytes)
        BY <2>1, <4>1, MessageReads DEF ChainInv
      <4> QED
        BY <4>1, <4>2
    <3>2. CASE pc # "done"
      BY <2>1, <3>2 DEF AnswerInv, ChainInv, PcValues
    <3> QED
      BY <3>1, <3>2
  <2>3. ASSUME NEW a \in Answers \cup {NoAnswer}
        PROVE  a.pid \in Seq(Bytes) /\ a.rest \in Seq(Bytes)
    <3>1. CASE a \in Answers
      BY <3>1, InputAssumption, SizeAssumption
    <3>2. CASE a = NoAnswer
      BY <3>2 DEF NoAnswer
    <3> QED
      BY <3>1, <3>2
  <2> QED
    BY <2>1, <2>2, <2>3 DEF TypeOK, ChainInv
<1> QED
  BY <1>1, AnswerAlways, PTL

\* The client accepts every answer and reads what the server answered: for any
\* length of ePID, any size of block and so every padding, and any random bytes.
THEOREM ClientReadsAnswer ==
  ASSUME HmacIsABlock
  PROVE  Spec => []AnswerUnderstood
<1>1. AnswerInv => AnswerUnderstood
  BY DEF AnswerInv, AnswerUnderstood
<1> QED
  BY <1>1, AnswerAlways, PTL

\* A client that checks hash, IV and MAC of the answer finds them right.
THEOREM AnswerCanBeVerified ==
  ASSUME HmacIsABlock
  PROVE  Spec => []AnswerVerifiable
<1>1. AnswerInv => AnswerVerifiable
  <2> SUFFICES ASSUME AnswerInv, pc = "done" PROVE AnswerVerifiable
    BY DEF AnswerVerifiable
  <2>1. v6 \in BOOLEAN /\ iv \in Blocks /\ sent \in Answers /\ AnswersWith(sent, opened)
    BY DEF AnswerInv, ReadInv, ChainInv
  <2>2. Verifies(sent, opened)
    BY <2>1, MessageReads
  <2> QED
    BY <2>2 DEF Verifies, AnswerVerifiable, Own
<1> QED
  BY <1>1, AnswerAlways, PTL
=============================================================================
