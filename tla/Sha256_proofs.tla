--------------------------- MODULE Sha256_proofs ---------------------------
(***************************************************************************)
(* Proofs about Sha256, for any size of block, of length field and of      *)
(* message, and for any compression function.                              *)
(***************************************************************************)
EXTENDS Sha256, TLAPS

-----------------------------------------------------------------------------
(* Remainders. *)

LEMMA ModIs ==
  ASSUME NEW q \in Nat, NEW r \in 0..(B - 1)
  PROVE  (q * B + r) % B = r
<1>1. B \in Nat /\ B > 0
  BY HashAssumption
<1> DEFINE x == q * B + r
<1>2. x \in Nat /\ (x % B) \in 0..(B - 1) /\ x = B * (x \div B) + (x % B)
  BY <1>1
<1>3. x \div B \in Nat
  BY <1>1
<1> DEFINE d == x \div B
<1> HIDE DEF x
<1>4. x = q * B + r
  BY DEF x
<1>5. q = d
  <2>1. q < d => q * B + B <= d * B
    BY <1>1, <1>3
  <2>2. d < q => d * B + B <= q * B
    BY <1>1, <1>3
  <2> QED
    BY <1>1, <1>2, <1>3, <1>4, <2>1, <2>2
<1> QED
  BY <1>1, <1>2, <1>4, <1>5 DEF x

LEMMA DivMod ==
  ASSUME NEW n \in Nat
  PROVE  /\ (n % B) \in 0..(B - 1)
         /\ \E q \in Nat : n = q * B + (n % B)
<1>1. B \in Nat /\ B > 0
  BY HashAssumption
<1>2. n = (n \div B) * B + (n % B) /\ n \div B \in Nat /\ (n % B) \in 0..(B - 1)
  BY <1>1
<1> QED
  BY <1>2

\* What is added to a length, without and with a carry into the next block.
LEMMA ModAdd ==
  ASSUME NEW n \in Nat, NEW k \in Nat
  PROVE  /\ (n % B) + k < B => (n + k) % B = (n % B) + k
         /\ ((n % B) + k >= B /\ (n % B) + k < 2 * B) => (n + k) % B = (n % B) + k - B
<1>1. B \in Nat /\ B > 0
  BY HashAssumption
<1>2. PICK q \in Nat : n = q * B + (n % B)
  BY DivMod
<1>3. (n % B) \in Nat
  BY DivMod
<1>4. ASSUME (n % B) + k < B PROVE (n + k) % B = (n % B) + k
  <2>1. n + k = q * B + ((n % B) + k) /\ (n % B) + k \in 0..(B - 1)
    BY <1>1, <1>2, <1>3, <1>4
  <2> QED
    BY <2>1, ModIs
<1>5. ASSUME (n % B) + k >= B, (n % B) + k < 2 * B PROVE (n + k) % B = (n % B) + k - B
  <2>1. n + k = (q + 1) * B + ((n % B) + k - B) /\ (n % B) + k - B \in 0..(B - 1)
    BY <1>1, <1>2, <1>3, <1>5
  <2> QED
    BY <2>1, ModIs
<1> QED
  BY <1>4, <1>5

\* Whole blocks in front of m bytes do not change the remainder of m.
LEMMA ModWhole ==
  ASSUME NEW n \in Nat, (n % B) = 0, NEW m \in Nat
  PROVE  (n + m) % B = (m % B)
<1>1. PICK q \in Nat : n = q * B + (n % B)
  BY DivMod
<1>2. PICK d \in Nat : m = d * B + (m % B)
  BY DivMod
<1>3. B \in Nat /\ (m % B) \in 0..(B - 1)
  BY HashAssumption, DivMod
<1>4. n + m = (q + d) * B + (m % B)
  BY <1>1, <1>2, <1>3
<1>5. ((q + d) * B + (m % B)) % B = m % B
  BY <1>3, ModIs
<1> QED
  BY <1>4, <1>5

-----------------------------------------------------------------------------
(* Types of the operators. *)

LEMMA Sizes ==
  /\ B \in Nat /\ B > 0 /\ L \in 1..(B - 1)
  /\ Byte \subseteq Nat /\ {0, Mark, Ipad, Opad} \subseteq Byte
  BY HashAssumption DEF Byte

LEMMA BlockIsBytes ==
  ASSUME NEW b \in Block
  PROVE  b \in Seq(Byte) /\ Len(b) = B
  BY Sizes DEF Block

LEMMA CopiedType ==
  ASSUME buffer \in Block, NEW data \in Seq(Byte), NEW at \in Nat
  PROVE  Copied(data, at) \in Block
<1>1. ASSUME NEW i \in 1..B, i \in (at + 1)..(at + Len(data))
      PROVE  data[i - at] \in Byte
  <2>1. i - at \in 1..Len(data)
    BY <1>1, Sizes
  <2> QED
    BY <2>1
<1> QED
  BY <1>1 DEF Copied, Block

LEMMA PadTypes ==
  /\ ZeroBlock \in Block
  /\ \A s \in Seq(Byte) : ZeroPadded(s) \in Block
  /\ \A b \in Block : Xored(Ipad, b) \in Block /\ Xored(Opad, b) \in Block
<1>1. ASSUME NEW s \in Seq(Byte) PROVE ZeroPadded(s) \in Block
  BY Sizes DEF ZeroPadded, Block
<1>2. ASSUME NEW b \in Block
      PROVE  Xored(Ipad, b) \in Block /\ Xored(Opad, b) \in Block
  BY HashAssumption DEF Xored, Block
<1> QED
  BY <1>1, <1>2, Sizes DEF ZeroBlock, Block

LEMMA LengthFieldType ==
  ASSUME NEW n \in Nat
  PROVE  LengthField(n) \in Seq(Byte) /\ Len(LengthField(n)) = L
<1>1. Base \in Nat \ {0} /\ L \in Nat
  BY HashAssumption, Sizes
<1>2. \A j \in 1..L : LengthField(n)[j] \in Byte
  BY <1>1 DEF LengthField, Byte
<1> QED
  BY <1>1, <1>2 DEF LengthField

\* What has been copied in comes out behind what was there.
LEMMA CopiedPrefix ==
  ASSUME buffer \in Block, NEW data \in Seq(Byte), NEW at \in Nat,
         at + Len(data) <= B
  PROVE  SubSeq(Copied(data, at), 1, at + Len(data)) = SubSeq(buffer, 1, at) \o data
<1> DEFINE n == at + Len(data)
           new == Copied(data, at)
           old == SubSeq(buffer, 1, at)
<1>1. n \in Nat /\ at <= B /\ n <= B /\ B \in Nat
  BY Sizes
<1>2. new \in Seq(Byte) /\ Len(new) = B /\ buffer \in Seq(Byte) /\ Len(buffer) = B
  BY CopiedType, BlockIsBytes
<1>3. old \in Seq(Byte) /\ Len(old) = at /\ \A i \in 1..at : old[i] = buffer[i]
  BY <1>1, <1>2
<1>4. /\ SubSeq(new, 1, n) \in Seq(Byte) /\ Len(SubSeq(new, 1, n)) = n
      /\ \A i \in 1..n : SubSeq(new, 1, n)[i] = new[i]
  BY <1>1, <1>2
<1>5. \A i \in 1..n : new[i] = IF i <= at THEN buffer[i] ELSE data[i - at]
  BY <1>1 DEF Copied
<1> HIDE DEF old, new
<1>6. /\ old \o data \in Seq(Byte) /\ Len(old \o data) = n
      /\ \A i \in 1..n : (old \o data)[i] = IF i <= at THEN old[i] ELSE data[i - at]
  BY <1>3
<1>7. \A i \in 1..n : SubSeq(new, 1, n)[i] = (old \o data)[i]
  BY <1>3, <1>4, <1>5, <1>6
<1> QED
  BY <1>4, <1>6, <1>7 DEF n, new, old

-----------------------------------------------------------------------------
(* Updates. *)

\* NothingLost with what holds inside an update that has filled the buffer.
StreamInv ==
  /\ TypeOK
  /\ NothingLost
  /\ pc = "blocks" => len = Len(fed) /\ absorbed \o rest = fed

LEMMA BufLenFacts ==
  ASSUME TypeOK
  PROVE  /\ BufLen \in 0..(B - 1) /\ Room \in 1..B /\ BufLen + Room = B
         /\ SubSeq(buffer, 1, BufLen) \in Seq(Byte)
         /\ Len(SubSeq(buffer, 1, BufLen)) = BufLen
<1>1. BufLen \in 0..(B - 1)
  BY DivMod DEF BufLen, TypeOK
<1>2. buffer \in Seq(Byte) /\ Len(buffer) = B
  BY BlockIsBytes DEF TypeOK
<1> QED
  BY <1>1, <1>2, Sizes DEF Room

\* Concatenation is associative, and cutting and joining are inverse.
LEMMA Join ==
  ASSUME NEW a \in Seq(Byte), NEW b \in Seq(Byte), NEW c \in Seq(Byte)
  PROVE  (a \o b) \o c = a \o (b \o c)
<1>1. /\ (a \o b) \o c \in Seq(Byte) /\ a \o (b \o c) \in Seq(Byte)
      /\ Len((a \o b) \o c) = Len(a \o (b \o c))
  OBVIOUS
<1>2. \A i \in 1..Len(a \o (b \o c)) : ((a \o b) \o c)[i] = (a \o (b \o c))[i]
  OBVIOUS
<1> QED
  BY <1>1, <1>2

LEMMA TwoPieces ==
  ASSUME NEW a \in Seq(Byte), NEW b \in Seq(Byte)
  PROVE  a \o b \in Seq(Byte) /\ Len(a \o b) = Len(a) + Len(b)
  OBVIOUS

LEMMA SameBytes ==
  ASSUME NEW s \in Seq(Byte), NEW t \in Seq(Byte), Len(s) = Len(t),
         \A i \in 1..Len(s) : s[i] = t[i]
  PROVE  s = t
  OBVIOUS

LEMMA Cut ==
  ASSUME NEW s \in Seq(Byte), NEW n \in 0..Len(s)
  PROVE  /\ SubSeq(s, 1, n) \in Seq(Byte) /\ Len(SubSeq(s, 1, n)) = n
         /\ SubSeq(s, n + 1, Len(s)) \in Seq(Byte)
         /\ Len(SubSeq(s, n + 1, Len(s))) = Len(s) - n
         /\ SubSeq(s, 1, n) \o SubSeq(s, n + 1, Len(s)) = s
<1> DEFINE a == SubSeq(s, 1, n)
           b == SubSeq(s, n + 1, Len(s))
<1>0. Len(s) \in Nat /\ n \in Nat
  OBVIOUS
<1>1. a \in Seq(Byte) /\ Len(a) = n /\ \A i \in 1..n : a[i] = s[i]
  OBVIOUS
<1>2. /\ b \in Seq(Byte) /\ Len(b) = Len(s) - n
      /\ \A i \in 1..(Len(s) - n) : b[i] = s[n + i]
  OBVIOUS
<1> HIDE DEF a, b
<1>3. a \o b \in Seq(Byte) /\ Len(a \o b) = Len(s)
  <2>1. a \o b \in Seq(Byte) /\ Len(a \o b) = Len(a) + Len(b)
    BY <1>1, <1>2, TwoPieces
  <2> QED
    BY <1>0, <1>1, <1>2, <2>1
<1>4. ASSUME NEW i \in 1..Len(s) PROVE (a \o b)[i] = s[i]
  <2>1. CASE i <= n
    BY <1>1, <1>2, <2>1
  <2>2. CASE i > n
    <3>1. i - n \in 1..(Len(s) - n) /\ (a \o b)[i] = b[i - n]
      BY <1>1, <1>2, <2>2
    <3> DEFINE j == i - n
    <3>2. j \in 1..(Len(s) - n) /\ b[j] = s[n + j]
      BY <1>2, <3>1
    <3>3. n + j = i
      BY <1>0
    <3> QED
      BY <3>1, <3>2, <3>3
  <2>3. i <= n \/ i > n
    BY <1>0
  <2> QED
    BY <2>1, <2>2, <2>3
<1>5. a \o b = s
  BY <1>3, <1>4, SameBytes
<1> QED
  BY <1>1, <1>2, <1>5 DEF a, b

LEMMA StreamInit == Init => StreamInv
<1> SUFFICES ASSUME Init PROVE StreamInv
  OBVIOUS
<1>1. key \in Seq(Byte) /\ msg \in Seq(Byte)
  BY HashAssumption DEF Init
<1>2. actual_key \in Block
  BY <1>1, PadTypes DEF Init
<1>3. rest \in Seq(Byte)
  <2>1. CASE stage = "sha256"
    BY <2>1, <1>1, Cut DEF Init
  <2>2. CASE stage = "key"
    BY <2>2, <1>1 DEF Init
  <2>3. CASE stage = "ipad"
    BY <2>3, <1>2, PadTypes, BlockIsBytes DEF Init
  <2> QED
    BY <2>1, <2>2, <2>3 DEF Init
<1>4. 0 % B = 0 /\ 0 \in Nat
  BY ModIs, Sizes
<1>5. TypeOK
  BY <1>1, <1>2, <1>3, <1>4, PadTypes, Sizes DEF Init, TypeOK, Stages
<1>6. <<>> \o SubSeq(buffer, 1, 0) = <<>>
  BY <1>5, BlockIsBytes DEF TypeOK
<1>7. NothingLost
  BY <1>4, <1>6 DEF Init, NothingLost, BufLen
<1> QED
  BY <1>5, <1>7 DEF StreamInv, Init

LEMMA StreamShort == StreamInv /\ ShortUpdate => StreamInv'
<1> SUFFICES ASSUME StreamInv, ShortUpdate PROVE StreamInv'
  OBVIOUS
<1> DEFINE old == SubSeq(buffer, 1, BufLen)
<1>1. /\ TypeOK /\ len = Len(fed) /\ absorbed \o old = fed
      /\ Len(rest) < Room /\ pc' = "updated" /\ rest' = <<>>
      /\ len' = len + Len(rest) /\ fed' = fed \o rest
      /\ buffer' = Copied(rest, BufLen)
      /\ UNCHANGED <<key, msg, stage, actual_key, out, hashed, absorbed>>
  BY DEF StreamInv, NothingLost, ShortUpdate, Take, call
<1>2. /\ absorbed \in Seq(Byte) /\ rest \in Seq(Byte) /\ Len(rest) \in Nat
      /\ fed \in Seq(Byte) /\ len \in Nat /\ buffer \in Block
  BY <1>1 DEF TypeOK
<1>3. /\ BufLen \in Nat /\ BufLen + Len(rest) < B /\ BufLen + Len(rest) <= B
      /\ old \in Seq(Byte)
  BY <1>1, <1>2, BufLenFacts
<1>4. buffer' \in Block
  BY <1>1, <1>2, <1>3, CopiedType
<1>5. len' \in Nat /\ fed' \in Seq(Byte) /\ len' = Len(fed')
  BY <1>1, <1>2
<1>6. TypeOK'
  BY <1>1, <1>4, <1>5 DEF TypeOK
<1>7. BufLen' = BufLen + Len(rest)
  BY <1>1, <1>2, <1>3, ModAdd DEF BufLen
<1>8. SubSeq(buffer', 1, BufLen') = old \o rest
  <2>1. SubSeq(Copied(rest, BufLen), 1, BufLen + Len(rest)) = old \o rest
    BY <1>2, <1>3, CopiedPrefix
  <2> QED
    BY <1>1, <1>7, <2>1
<1> HIDE DEF old
<1>9. absorbed \o (old \o rest) = fed \o rest
  BY <1>1, <1>2, <1>3, Join
<1>10. NothingLost'
  BY <1>1, <1>5, <1>8, <1>9 DEF NothingLost
<1> QED
  BY <1>1, <1>6, <1>10 DEF StreamInv

LEMMA WholeBlock ==
  ASSUME NEW s \in Seq(Byte), Len(s) % B = 0, NEW b \in Seq(Byte), Len(b) = B
  PROVE  s \o b \in Seq(Byte) /\ Len(s \o b) % B = 0
<1>1. Len(s \o b) = Len(s) + B /\ s \o b \in Seq(Byte) /\ Len(s) \in Nat
  OBVIOUS
<1>2. B % B = 0
  <2>1. (1 * B + 0) % B = 0
    BY ModIs, Sizes
  <2> QED
    BY <2>1, Sizes
<1>3. (Len(s) + B) % B = B % B
  BY <1>1, ModWhole, Sizes
<1> QED
  BY <1>1, <1>2, <1>3

LEMMA StreamFill == StreamInv /\ FillBuffer => StreamInv'
<1> SUFFICES ASSUME StreamInv, FillBuffer PROVE StreamInv'
  OBVIOUS
<1> DEFINE old == SubSeq(buffer, 1, BufLen)
<1>1. /\ TypeOK /\ len = Len(fed) /\ absorbed \o old = fed
      /\ Len(rest) >= Room /\ pc' = "blocks"
      /\ len' = len + Len(rest) /\ fed' = fed \o rest
      /\ UNCHANGED <<key, msg, stage, actual_key, out, hashed>>
  BY DEF StreamInv, NothingLost, FillBuffer, Take, call
<1>2. /\ absorbed \in Seq(Byte) /\ rest \in Seq(Byte) /\ Len(rest) \in Nat
      /\ fed \in Seq(Byte) /\ len \in Nat /\ buffer \in Block
      /\ Len(absorbed) % B = 0
  BY <1>1 DEF TypeOK
<1>3. len' \in Nat /\ fed' \in Seq(Byte) /\ len' = Len(fed')
  BY <1>1, <1>2
<1>4. BufLen \in Nat /\ Room \in 1..B /\ BufLen + Room = B /\ old \in Seq(Byte)
  BY <1>1, BufLenFacts
<1>5. CASE Room < B
  <2> DEFINE a == SubSeq(rest, 1, Room)
             b == SubSeq(rest, Room + 1, Len(rest))
  <2>1. buffer' = Copied(a, BufLen) /\ absorbed' = absorbed \o buffer' /\ rest' = b
    BY <1>5 DEF FillBuffer
  <2>2. Room \in 0..Len(rest)
    BY <1>1, <1>2, <1>4, Sizes
  <2>3. /\ a \in Seq(Byte) /\ Len(a) = Room /\ b \in Seq(Byte) /\ a \o b = rest
    BY <1>2, <2>2, Cut
  <2> HIDE DEF a, b
  <2>4. buffer' \in Block /\ buffer' \in Seq(Byte) /\ Len(buffer') = B
    BY <1>2, <1>4, <2>1, <2>3, CopiedType, BlockIsBytes
  <2>5. buffer' = old \o a
    <3>1. BufLen + Len(a) <= B /\ BufLen + Len(a) = B
      BY <1>4, <2>3, Sizes
    <3>2. SubSeq(Copied(a, BufLen), 1, BufLen + Len(a)) = old \o a
      BY <1>2, <1>4, <2>3, <3>1, CopiedPrefix
    <3>3. SubSeq(buffer', 1, B) = buffer'
      BY <2>4
    <3> QED
      BY <2>1, <3>1, <3>2, <3>3
  <2> HIDE DEF old
  <2>6. absorbed' \in Seq(Byte) /\ Len(absorbed') % B = 0
    BY <1>2, <2>1, <2>4, WholeBlock
  <2>7. absorbed' \o rest' = fed'
    <3>1. (absorbed \o buffer') \o b = absorbed \o (buffer' \o b)
      <4>1. absorbed \in Seq(Byte) /\ buffer' \in Seq(Byte) /\ b \in Seq(Byte)
        BY <1>2, <2>3, <2>4
      <4> HIDE DEF old
      <4> QED
        BY <4>1, Join
    <3>2. (old \o a) \o b = old \o (a \o b)
      BY <1>4, <2>3, Join
    <3>3. (absorbed \o old) \o rest = absorbed \o (old \o rest)
      BY <1>2, <1>4, Join
    <3>4. buffer' \o b = old \o rest
      BY <2>3, <2>5, <3>2
    <3>5. absorbed' \o rest' = absorbed \o (buffer' \o b)
      BY <2>1, <3>1
    <3> QED
      BY <1>1, <3>3, <3>4, <3>5
  <2>8. TypeOK'
    BY <1>1, <1>3, <2>1, <2>3, <2>4, <2>6 DEF TypeOK
  <2> QED
    BY <1>1, <1>3, <2>7, <2>8 DEF StreamInv, NothingLost
<1>6. CASE Room = B
  <2>1. buffer' = buffer /\ absorbed' = absorbed /\ rest' = rest
    BY <1>6, Sizes DEF FillBuffer
  <2>2. BufLen = 0
    BY <1>4, <1>6, Sizes
  <2>3. old = <<>>
    BY <2>2, <1>2, BlockIsBytes
  <2>4. absorbed = fed
    <3>1. absorbed \o <<>> = absorbed
      BY <1>2
    <3> HIDE DEF old
    <3> QED
      BY <1>1, <2>3, <3>1
  <2>5. TypeOK'
    BY <1>1, <1>3, <2>1 DEF TypeOK
  <2>6. absorbed' \o rest' = fed'
    BY <1>1, <2>1, <2>4
  <2> QED
    BY <1>1, <1>3, <2>5, <2>6 DEF StreamInv, NothingLost
<1> QED
  BY <1>4, <1>5, <1>6, Sizes

LEMMA StreamBlock == StreamInv /\ ProcessBlock => StreamInv'
<1> SUFFICES ASSUME StreamInv, ProcessBlock PROVE StreamInv'
  OBVIOUS
<1> DEFINE a == SubSeq(rest, 1, B)
           b == SubSeq(rest, B + 1, Len(rest))
<1>1. /\ TypeOK /\ len = Len(fed) /\ absorbed \o rest = fed
      /\ pc = "blocks" /\ Len(rest) >= B
      /\ absorbed' = absorbed \o a /\ rest' = b
      /\ UNCHANGED <<key, msg, stage, pc, actual_key, out, hashed, len, buffer, fed>>
  BY DEF StreamInv, ProcessBlock, call
<1>2. /\ absorbed \in Seq(Byte) /\ rest \in Seq(Byte) /\ Len(absorbed) % B = 0
      /\ B \in 0..Len(rest)
  BY <1>1, Sizes DEF TypeOK
<1>3. a \in Seq(Byte) /\ Len(a) = B /\ b \in Seq(Byte) /\ a \o b = rest
  BY <1>2, Cut
<1> HIDE DEF a, b
<1>4. absorbed' \in Seq(Byte) /\ Len(absorbed') % B = 0
  BY <1>1, <1>2, <1>3, WholeBlock
<1>5. (absorbed \o a) \o b = absorbed \o (a \o b)
  BY <1>2, <1>3, Join
<1>6. TypeOK'
  BY <1>1, <1>3, <1>4 DEF TypeOK
<1> QED
  BY <1>1, <1>3, <1>5, <1>6 DEF StreamInv, NothingLost

LEMMA StreamTail == StreamInv /\ KeepTail => StreamInv'
<1> SUFFICES ASSUME StreamInv, KeepTail PROVE StreamInv'
  OBVIOUS
<1>1. /\ TypeOK /\ len = Len(fed) /\ absorbed \o rest = fed
      /\ Len(rest) < B /\ pc' = "updated" /\ rest' = <<>>
      /\ buffer' = Copied(rest, 0)
      /\ UNCHANGED <<key, msg, stage, actual_key, out, hashed, len, absorbed, fed>>
  BY DEF StreamInv, KeepTail, call
<1>2. /\ absorbed \in Seq(Byte) /\ Len(absorbed) \in Nat /\ Len(absorbed) % B = 0
      /\ rest \in Seq(Byte) /\ Len(rest) \in 0..(B - 1) /\ 0 + Len(rest) <= B
      /\ buffer \in Block
  BY <1>1, Sizes DEF TypeOK
<1>3. len = Len(absorbed) + Len(rest)
  BY <1>1, <1>2
<1>4. Len(rest) % B = Len(rest)
  <2>1. (0 * B + Len(rest)) % B = Len(rest)
    BY <1>2, ModIs
  <2>2. 0 * B + Len(rest) = Len(rest)
    BY <1>2, Sizes
  <2> QED
    BY <2>1, <2>2
<1>5. BufLen' = Len(rest)
  BY <1>1, <1>2, <1>3, <1>4, ModWhole DEF BufLen
<1>6. buffer' \in Block
  BY <1>1, <1>2, CopiedType
<1>7. SubSeq(buffer', 1, BufLen') = rest
  <2>1. SubSeq(Copied(rest, 0), 1, 0 + Len(rest)) = SubSeq(buffer, 1, 0) \o rest
    BY <1>2, CopiedPrefix
  <2>2. SubSeq(buffer, 1, 0) = <<>>
    BY <1>2, BlockIsBytes
  <2>3. <<>> \o rest = rest /\ 0 + Len(rest) = Len(rest)
    BY <1>2
  <2> QED
    BY <1>1, <1>5, <2>1, <2>2, <2>3
<1>8. TypeOK'
  BY <1>1, <1>6 DEF TypeOK
<1>9. NothingLost'
  BY <1>1, <1>7 DEF NothingLost
<1> QED
  BY <1>1, <1>8, <1>9 DEF StreamInv

-----------------------------------------------------------------------------
(* The padding. *)

Zeros(n) == [i \in 1..n |-> 0]

LEMMA PadGap ==
  ASSUME NEW n \in Nat
  PROVE  Gap(n) = IF (n % B) < B - L THEN B - L - 1 - (n % B)
                                     ELSE 2 * B - L - 1 - (n % B)
<1> DEFINE b == n % B
           g == IF b < B - L THEN B - L - 1 - b ELSE 2 * B - L - 1 - b
           Fits(k) == (n + 1 + k + L) % B = 0
<1>1. b \in 0..(B - 1) /\ B \in Nat /\ L \in 1..(B - 1)
  BY DivMod, Sizes
<1>2. PICK q \in Nat : n = q * B + b
  BY DivMod
<1> HIDE DEF b
<1>3. g \in 0..(B - 1)
  BY <1>1
<1>4. Fits(g)
  <2>1. CASE b < B - L
    <3>1. n + 1 + g + L = (q + 1) * B + 0
      BY <1>1, <1>2, <2>1
    <3>2. ((q + 1) * B + 0) % B = 0
      BY <1>1, ModIs
    <3> QED
      BY <3>1, <3>2
  <2>2. CASE b >= B - L
    <3>1. n + 1 + g + L = (q + 2) * B + 0
      BY <1>1, <1>2, <2>2
    <3>2. ((q + 2) * B + 0) % B = 0
      BY <1>1, ModIs
    <3> QED
      BY <3>1, <3>2
  <2>3. b < B - L \/ b >= B - L
    BY <1>1
  <2> QED
    BY <2>1, <2>2, <2>3
<1> HIDE DEF g
<1>5. ASSUME NEW j \in 0..(B - 1), NEW k \in 0..(B - 1), Fits(j), Fits(k), j < k
      PROVE  FALSE
  <2>1. /\ n + 1 + j + L \in Nat /\ k - j \in Nat /\ k - j < B /\ k - j > 0
        /\ (n + 1 + j + L) + (k - j) = n + 1 + k + L
    BY <1>1, <1>5
  <2>2. ((n + 1 + j + L) + (k - j)) % B = k - j
    <3>1. ((n + 1 + j + L) % B) + (k - j) < B /\ ((n + 1 + j + L) % B) + (k - j) = k - j
      BY <1>5, <2>1
    <3> QED
      BY <2>1, <3>1, ModAdd
  <2> QED
    BY <1>5, <2>1, <2>2
<1>6. \A k \in 0..(B - 1) : Fits(k) => k = g
  BY <1>1, <1>3, <1>4, <1>5
<1>7. (CHOOSE k \in 0..(B - 1) : Fits(k)) = g
  BY <1>3, <1>4, <1>6
<1> QED
  BY <1>7 DEF Gap, g, b

\* The bytes kept, the mark and zeros behind it.
LEMMA MarkedPrefix ==
  ASSUME TypeOK, NEW n \in (BufLen + 1)..B
  PROVE  SubSeq(Marked, 1, n)
           = (SubSeq(buffer, 1, BufLen) \o <<Mark>>) \o Zeros(n - BufLen - 1)
<1> DEFINE old == SubSeq(buffer, 1, BufLen)
           s   == SubSeq(Marked, 1, n)
           om  == old \o <<Mark>>
           z   == Zeros(n - BufLen - 1)
<1>1. BufLen \in 0..(B - 1) /\ B \in Nat /\ n \in Nat /\ n <= B /\ n - BufLen - 1 \in Nat
  BY BufLenFacts, Sizes
<1>2. buffer \in Seq(Byte) /\ Len(buffer) = B
  BY BlockIsBytes DEF TypeOK
<1>3. old \in Seq(Byte) /\ Len(old) = BufLen /\ \A i \in 1..BufLen : old[i] = buffer[i]
  BY <1>1, <1>2
<1>4. Mark \in Byte /\ 0 \in Byte
  BY Sizes
<1>5. Marked \in Seq(Byte) /\ Len(Marked) = B
  <2>1. Marked \in Block
    BY <1>1, <1>4 DEF TypeOK, Marked, Block
  <2> QED
    BY <2>1, BlockIsBytes
<1>6. \A i \in 1..B : Marked[i] = IF i <= BufLen THEN buffer[i]
                                  ELSE IF i = BufLen + 1 THEN Mark ELSE 0
  BY DEF Marked
<1> HIDE DEF old
<1>7. s \in Seq(Byte) /\ Len(s) = n /\ \A i \in 1..n : s[i] = Marked[i]
  BY <1>1, <1>5
<1>8. /\ om \in Seq(Byte) /\ Len(om) = BufLen + 1
      /\ \A i \in 1..(BufLen + 1) : om[i] = IF i <= BufLen THEN old[i] ELSE Mark
  BY <1>1, <1>3, <1>4
<1>9. z \in Seq(Byte) /\ Len(z) = n - BufLen - 1 /\ \A i \in 1..Len(z) : z[i] = 0
  BY <1>1, <1>4 DEF Zeros
<1> HIDE DEF s, om, z
<1>10. om \o z \in Seq(Byte) /\ Len(om \o z) = n
  BY <1>1, <1>8, <1>9
<1>11. ASSUME NEW i \in 1..n PROVE (om \o z)[i] = s[i]
  <2>1. i \in 1..B /\ s[i] = Marked[i]
    BY <1>1, <1>7
  <2>2. CASE i <= BufLen + 1
    <3>1. i \in 1..(BufLen + 1) /\ (om \o z)[i] = om[i]
      BY <1>1, <1>8, <1>9, <2>2
    <3>2. i <= BufLen => old[i] = buffer[i]
      BY <1>1, <1>3
    <3> QED
      BY <1>1, <1>6, <1>8, <2>1, <2>2, <3>1, <3>2
  <2>3. CASE i > BufLen + 1
    <3>1. i - (BufLen + 1) \in 1..Len(z) /\ (om \o z)[i] = z[i - (BufLen + 1)]
      BY <1>1, <1>8, <1>9, <2>3
    <3> QED
      BY <1>1, <1>6, <1>9, <2>1, <2>3, <3>1
  <2>4. i <= BufLen + 1 \/ i > BufLen + 1
    BY <1>1
  <2> QED
    BY <2>2, <2>3, <2>4
<1>12. om \o z = s
  BY <1>7, <1>10, <1>11, SameBytes
<1> QED
  BY <1>12 DEF s, om, z, old

LEMMA ZeroBytes ==
  ASSUME NEW m \in Nat, NEW n \in Nat
  PROVE  Zeros(m) \in Seq(Byte) /\ Zeros(m) \o Zeros(n) = Zeros(m + n)
<1> DEFINE a == Zeros(m)
           b == Zeros(n)
           c == Zeros(m + n)
<1>1. 0 \in Byte
  BY Sizes
<1>2. /\ a \in Seq(Byte) /\ Len(a) = m /\ \A i \in 1..m : a[i] = 0
      /\ b \in Seq(Byte) /\ Len(b) = n /\ \A i \in 1..n : b[i] = 0
      /\ c \in Seq(Byte) /\ Len(c) = m + n /\ \A i \in 1..(m + n) : c[i] = 0
  BY <1>1 DEF Zeros
<1> HIDE DEF a, b, c
<1>3. a \o b \in Seq(Byte) /\ Len(a \o b) = m + n
  BY <1>2
<1>4. ASSUME NEW i \in 1..(m + n) PROVE (a \o b)[i] = c[i]
  <2>1. CASE i <= m
    BY <1>2, <2>1
  <2>2. CASE i > m
    <3>1. i - m \in 1..n /\ (a \o b)[i] = b[i - m]
      BY <1>2, <2>2
    <3> QED
      BY <1>2, <3>1
  <2>3. i <= m \/ i > m
    OBVIOUS
  <2> QED
    BY <2>1, <2>2, <2>3
<1>5. a \o b = c
  BY <1>2, <1>3, <1>4, SameBytes
<1> QED
  BY <1>2, <1>5 DEF a, b, c

\* A context that is finished has processed the padding of what it was fed.
LEMMA FinishedIsPadded ==
  ASSUME TypeOK, NothingLost, pc = "updated"
  PROVE  absorbed \o LastBlocks = Padded(fed)
<1> DEFINE old == SubSeq(buffer, 1, BufLen)
           lf  == LengthField(len)
           om  == old \o <<Mark>>
           fm  == fed \o <<Mark>>
<1>1. /\ len = Len(fed) /\ absorbed \o old = fed /\ len \in Nat
      /\ absorbed \in Seq(Byte) /\ fed \in Seq(Byte)
  BY DEF NothingLost, TypeOK
<1>2. BufLen \in 0..(B - 1) /\ B \in Nat /\ L \in 1..(B - 1) /\ old \in Seq(Byte)
  BY BufLenFacts, Sizes
<1>3. lf \in Seq(Byte) /\ <<Mark>> \in Seq(Byte)
  BY <1>1, LengthFieldType, Sizes
<1>4. Gap(len) = IF BufLen < B - L THEN B - L - 1 - BufLen ELSE 2 * B - L - 1 - BufLen
  BY <1>1, PadGap DEF BufLen
<1>5. Padded(fed) = (fm \o Zeros(Gap(len))) \o lf
  BY <1>1 DEF Padded, Zeros
<1> HIDE DEF old, lf
<1>6. om \in Seq(Byte) /\ absorbed \o om = fm
  <2>1. (absorbed \o old) \o <<Mark>> = absorbed \o (old \o <<Mark>>)
    BY <1>1, <1>2, <1>3, Join
  <2> QED
    BY <1>1, <1>2, <1>3, <2>1
<1> HIDE DEF om, fm
<1>7. ASSUME NEW z \in Seq(Byte)
      PROVE  absorbed \o ((om \o z) \o lf) = (fm \o z) \o lf
  <2> DEFINE oz == om \o z
  <2>1. oz \in Seq(Byte)
    BY <1>6
  <2>2. (absorbed \o om) \o z = absorbed \o oz
    BY <1>1, <1>6, <1>7, Join
  <2> HIDE DEF oz
  <2>3. (absorbed \o oz) \o lf = absorbed \o (oz \o lf)
    BY <1>1, <1>3, <2>1, Join
  <2> QED
    BY <1>6, <2>2, <2>3 DEF oz
<1>8. CASE BufLen < B - L
  <2> DEFINE z == Zeros(B - L - 1 - BufLen)
  <2>1. LastBlocks = SubSeq(Marked, 1, B - L) \o lf
    BY <1>2, <1>8 DEF LastBlocks, WithLength, lf
  <2>2. B - L \in (BufLen + 1)..B /\ B - L - BufLen - 1 = B - L - 1 - BufLen
        /\ B - L - 1 - BufLen \in Nat
    BY <1>2, <1>8
  <2>3. SubSeq(Marked, 1, B - L) = om \o z
    BY <2>2, MarkedPrefix DEF om, old
  <2>4. z \in Seq(Byte)
    BY <2>2, ZeroBytes
  <2> HIDE DEF z
  <2>5. absorbed \o ((om \o z) \o lf) = (fm \o z) \o lf
    BY <2>4, <1>7
  <2> QED
    BY <1>4, <1>5, <1>8, <2>1, <2>3, <2>5 DEF z
<1>9. CASE BufLen >= B - L
  <2> DEFINE y == Zeros(B - BufLen - 1)
             x == Zeros(B - L)
             z == Zeros(2 * B - L - 1 - BufLen)
             oy == om \o y
  <2>1. LastBlocks = Marked \o (SubSeq(ZeroBlock, 1, B - L) \o lf)
    BY <1>2, <1>9 DEF LastBlocks, WithLength, lf
  <2>2. /\ B \in (BufLen + 1)..B /\ B - BufLen - 1 \in Nat /\ B - L \in Nat
        /\ (B - BufLen - 1) + (B - L) = 2 * B - L - 1 - BufLen
        /\ 2 * B - L - 1 - BufLen \in Nat
    BY <1>2, <1>9
  <2>3. Marked = oy
    <3>1. SubSeq(Marked, 1, B) = om \o y
      BY <2>2, MarkedPrefix DEF om, old
    <3>2. Marked \in Block
      BY <1>2, Sizes DEF TypeOK, Marked, Block
    <3>3. SubSeq(Marked, 1, B) = Marked
      BY <3>2, BlockIsBytes
    <3> QED
      BY <3>1, <3>3
  <2>4. SubSeq(ZeroBlock, 1, B - L) = x
    <3>1. ZeroBlock \in Seq(Byte) /\ Len(ZeroBlock) = B
      BY PadTypes, BlockIsBytes
    <3>2. /\ SubSeq(ZeroBlock, 1, B - L) \in Seq(Byte)
          /\ Len(SubSeq(ZeroBlock, 1, B - L)) = B - L
          /\ \A i \in 1..(B - L) : SubSeq(ZeroBlock, 1, B - L)[i] = ZeroBlock[i]
      BY <1>2, <3>1
    <3>3. \A i \in 1..(B - L) : ZeroBlock[i] = 0
      BY <1>2 DEF ZeroBlock
    <3>4. x \in Seq(Byte) /\ Len(x) = B - L /\ \A i \in 1..(B - L) : x[i] = 0
      BY <2>2, Sizes DEF Zeros
    <3> HIDE DEF x
    <3> QED
      BY <3>2, <3>3, <3>4, SameBytes
  <2>5. y \in Seq(Byte) /\ x \in Seq(Byte) /\ z \in Seq(Byte) /\ y \o x = z
    BY <2>2, ZeroBytes
  <2> HIDE DEF x, y, z
  <2>6. oy \in Seq(Byte) /\ oy \o x = om \o z
    <3>1. (om \o y) \o x = om \o (y \o x)
      BY <1>6, <2>5, Join
    <3> QED
      BY <1>6, <2>5, <3>1
  <2> HIDE DEF oy
  <2>7. oy \o (x \o lf) = (om \o z) \o lf
    <3>1. (oy \o x) \o lf = oy \o (x \o lf)
      BY <1>3, <2>5, <2>6, Join
    <3> QED
      BY <2>6, <3>1
  <2>8. absorbed \o ((om \o z) \o lf) = (fm \o z) \o lf
    BY <2>5, <1>7
  <2>9. Gap(len) = 2 * B - L - 1 - BufLen
    BY <1>2, <1>4, <1>9
  <2> QED
    BY <1>5, <2>1, <2>3, <2>4, <2>7, <2>8, <2>9 DEF z
<1> QED
  BY <1>2, <1>8, <1>9

-----------------------------------------------------------------------------
(* The contexts in turn. *)

\* What the context in hand has been fed once the update in hand is done.
Whole == IF pc = "update" THEN fed \o rest ELSE fed

Inner == Xored(Ipad, actual_key) \o msg

StageInv ==
  /\ stage = "sha256" => \E n \in 0..Len(msg) : Whole = SubSeq(msg, 1, n)
  /\ stage = "key" => Whole = key /\ Len(key) > B
  /\ stage \in {"ipad", "data", "opad", "inner", "mac"} => actual_key = KeyBlock(key)
  /\ stage = "ipad" => Whole = Xored(Ipad, actual_key)
  /\ stage = "data" => Whole = Inner
  /\ stage \in {"opad", "inner"} => out = Sha(Inner)
  /\ stage = "opad" => Whole = Xored(Opad, actual_key)
  /\ stage = "inner" => Whole = Xored(Opad, actual_key) \o out
  /\ PaddedAsStandard
  /\ DigestAsStandard

LEMMA StageInit == Init => StageInv
<1> SUFFICES ASSUME Init PROVE StageInv
  OBVIOUS
<1>1. TypeOK /\ rest \in Seq(Byte)
  BY StreamInit DEF StreamInv, TypeOK
<1>2. <<>> \o rest = rest
  BY <1>1
<1>3. Whole = rest
  BY <1>2 DEF Whole, Init
<1>4. PaddedAsStandard /\ DigestAsStandard
  BY DEF Init, PaddedAsStandard, DigestAsStandard
<1>5. CASE stage = "sha256"
  BY <1>3, <1>4, <1>5 DEF Init, StageInv
<1>6. CASE stage = "key"
  BY <1>3, <1>4, <1>6 DEF Init, StageInv
<1>7. CASE stage = "ipad"
  <2>1. actual_key = ZeroPadded(key) /\ Len(key) <= B /\ rest = Xored(Ipad, actual_key)
    BY <1>7 DEF Init
  <2>2. ~(Len(key) > B)
    <3>1. Len(key) \in Nat
      BY HashAssumption DEF Init
    <3> QED
      BY <2>1, <3>1, Sizes
  <2>3. actual_key = KeyBlock(key)
    BY <2>1, <2>2 DEF KeyBlock
  <2> QED
    BY <1>3, <1>4, <1>7, <2>1, <2>3 DEF StageInv
<1> QED
  BY <1>5, <1>6, <1>7 DEF Init

\* A step inside an update changes nothing the stages speak of.
LEMMA StageKept ==
  ASSUME StageInv, Whole' = Whole, call' = call
  PROVE  StageInv'
<1>1. /\ key' = key /\ msg' = msg /\ stage' = stage /\ actual_key' = actual_key
      /\ out' = out /\ hashed' = hashed
  BY DEF call
<1>2. PaddedAsStandard' /\ DigestAsStandard'
  BY <1>1 DEF StageInv, PaddedAsStandard, DigestAsStandard
<1>3. Inner' = Inner
  BY <1>1 DEF Inner
<1> QED
  BY <1>1, <1>2, <1>3 DEF StageInv

LEMMA StageUpdate ==
  ASSUME StageInv, ShortUpdate \/ FillBuffer \/ ProcessBlock \/ KeepTail
  PROVE  StageInv'
<1>1. Whole' = Whole
  <2>1. CASE ShortUpdate
    BY <2>1 DEF ShortUpdate, Take, Whole
  <2>2. CASE FillBuffer
    BY <2>2 DEF FillBuffer, Take, Whole
  <2>3. CASE ProcessBlock
    BY <2>3 DEF ProcessBlock, Whole
  <2>4. CASE KeepTail
    BY <2>4 DEF KeepTail, Whole
  <2> QED
    BY <2>1, <2>2, <2>3, <2>4
<1>2. call' = call
  BY DEF ShortUpdate, FillBuffer, ProcessBlock, KeepTail
<1> QED
  BY <1>1, <1>2, StageKept

LEMMA FinishType ==
  ASSUME HashFits, StreamInv, NEW s, Finish(s)
  PROVE  /\ out' = Sha(fed) /\ out' \in Seq(Byte) /\ Len(out') <= B
         /\ hashed' = [message |-> fed, blocks |-> Padded(fed)]
         /\ Whole = fed
<1>1. TypeOK /\ NothingLost /\ pc = "updated"
  BY DEF StreamInv, Finish
<1>2. absorbed \o LastBlocks = Padded(fed)
  BY <1>1, FinishedIsPadded
<1>3. Padded(fed) \in Seq(Byte)
  <2> DEFINE fm == fed \o <<Mark>>
             z  == Zeros(Gap(Len(fed)))
             lf == LengthField(Len(fed))
  <2>1. fed \in Seq(Byte) /\ Len(fed) \in Nat
    BY <1>1 DEF TypeOK
  <2>2. fm \in Seq(Byte)
    BY <2>1, Sizes
  <2>3. Gap(Len(fed)) \in Nat
    BY <2>1, PadGap, DivMod, Sizes
  <2>4. z \in Seq(Byte) /\ lf \in Seq(Byte)
    BY <2>1, <2>3, ZeroBytes, LengthFieldType
  <2>5. Padded(fed) = (fm \o z) \o lf
    BY DEF Padded, Zeros
  <2> HIDE DEF fm, z, lf
  <2> QED
    BY <2>2, <2>4, <2>5
<1>4. out' = Hash(Padded(fed)) /\ hashed' = [message |-> fed, blocks |-> Padded(fed)]
  BY <1>2 DEF Finish
<1>5. Hash(Padded(fed)) \in Seq(Byte) /\ Len(Hash(Padded(fed))) <= B
  BY <1>3 DEF HashFits
<1> QED
  BY <1>1, <1>4, <1>5 DEF Sha, Whole

\* A new context.
LEMMA NewStream ==
  ASSUME NewCtx, NEW s \in Stages, NEW d \in Seq(Byte), Begin(s, d),
         key' \in Keys, msg' \in Messages, actual_key' \in Block,
         out' \in Seq(Byte), Len(out') <= B
  PROVE  StreamInv' /\ Whole' = d
<1>1. /\ len' = 0 /\ buffer' = ZeroBlock /\ absorbed' = <<>> /\ fed' = <<>>
      /\ stage' = s /\ rest' = d /\ pc' = "update"
  BY DEF NewCtx, Begin
<1>2. 0 % B = 0 /\ 0 \in Nat
  BY ModIs, Sizes
<1>3. TypeOK'
  BY <1>1, <1>2, PadTypes DEF TypeOK
<1>4. <<>> \o SubSeq(buffer', 1, 0) = <<>> /\ <<>> \o d = d
  BY <1>1, PadTypes, BlockIsBytes
<1>5. NothingLost'
  BY <1>1, <1>2, <1>4 DEF NothingLost, BufLen
<1> QED
  BY <1>1, <1>3, <1>4, <1>5 DEF StreamInv, Whole

\* The same context, its next update or its end.
LEMMA SameStream ==
  ASSUME StreamInv, pc = "updated", ctx' = ctx, key' = key, msg' = msg,
         actual_key' = actual_key, stage' \in Stages,
         \/ pc' = pc /\ rest' = rest
         \/ pc' = "update" /\ rest' \in Seq(Byte),
         out' \in Seq(Byte), Len(out') <= B
  PROVE  StreamInv'
<1>1. /\ TypeOK /\ NothingLost
      /\ len' = len /\ buffer' = buffer /\ absorbed' = absorbed /\ fed' = fed
  BY DEF StreamInv, ctx
<1>2. TypeOK'
  BY <1>1 DEF TypeOK
<1>3. NothingLost'
  BY <1>1 DEF NothingLost, BufLen
<1> QED
  BY <1>1, <1>2, <1>3 DEF StreamInv

LEMMA StepKinds ==
  ASSUME StreamInv
  PROVE  /\ key \in Seq(Byte) /\ msg \in Seq(Byte) /\ fed \in Seq(Byte)
         /\ actual_key \in Block /\ out \in Seq(Byte) /\ Len(out) <= B
         /\ key \in Keys /\ msg \in Messages
  BY HashAssumption DEF StreamInv, TypeOK

\* Two pieces that follow one another are one.
LEMMA NextCut ==
  ASSUME NEW m \in Seq(Byte), NEW k \in 0..Len(m), NEW n \in 1..(Len(m) - k)
  PROVE  /\ SubSeq(m, k + 1, k + n) \in Seq(Byte)
         /\ SubSeq(m, 1, k) \o SubSeq(m, k + 1, k + n) = SubSeq(m, 1, k + n)
<1> DEFINE a == SubSeq(m, 1, k)
           b == SubSeq(m, k + 1, k + n)
           c == SubSeq(m, 1, k + n)
<1>0. Len(m) \in Nat /\ k \in Nat /\ n \in Nat /\ k + n <= Len(m)
  OBVIOUS
<1>1. a \in Seq(Byte) /\ Len(a) = k /\ \A i \in 1..k : a[i] = m[i]
  BY <1>0
<1>2. b \in Seq(Byte) /\ Len(b) = n /\ \A i \in 1..n : b[i] = m[k + i]
  BY <1>0
<1>3. c \in Seq(Byte) /\ Len(c) = k + n /\ \A i \in 1..(k + n) : c[i] = m[i]
  BY <1>0
<1> HIDE DEF a, b, c
<1>4. a \o b \in Seq(Byte) /\ Len(a \o b) = k + n
  <2>1. a \in Seq(Byte) /\ Len(a) = k /\ b \in Seq(Byte) /\ Len(b) = n
    BY <1>1, <1>2
  <2>2. a \o b \in Seq(Byte) /\ Len(a \o b) = Len(a) + Len(b)
    BY <2>1, TwoPieces
  <2> QED
    BY <2>1, <2>2
<1>5. ASSUME NEW i \in 1..(k + n) PROVE (a \o b)[i] = c[i]
  <2>1. CASE i <= k
    BY <1>0, <1>1, <1>2, <1>3, <2>1
  <2>2. CASE i > k
    <3>1. i - k \in 1..n /\ (a \o b)[i] = b[i - k]
      BY <1>0, <1>1, <1>2, <2>2
    <3> DEFINE j == i - k
    <3>2. j \in 1..n /\ b[j] = m[k + j]
      BY <1>2, <3>1
    <3>3. k + j = i /\ c[i] = m[i]
      BY <1>0, <1>3
    <3> QED
      BY <3>1, <3>2, <3>3
  <2>3. i <= k \/ i > k
    BY <1>0
  <2> QED
    BY <2>1, <2>2, <2>3
<1>6. a \o b = c
  BY <1>3, <1>4, <1>5, SameBytes
<1> QED
  BY <1>2, <1>6 DEF a, b, c

ShaInv == StreamInv /\ StageInv

LEMMA ShaNextPiece ==
  ASSUME ShaInv, NextPiece
  PROVE  ShaInv'
<1>1. PICK n \in 1..(Len(msg) - Len(fed)) :
        Begin("sha256", SubSeq(msg, Len(fed) + 1, Len(fed) + n))
  BY DEF NextPiece
<1> DEFINE d == SubSeq(msg, Len(fed) + 1, Len(fed) + n)
<1>2. /\ stage = "sha256" /\ pc = "updated" /\ stage' = "sha256" /\ pc' = "update"
      /\ rest' = d /\ ctx' = ctx /\ key' = key /\ msg' = msg
      /\ actual_key' = actual_key /\ out' = out /\ hashed' = hashed /\ fed' = fed
  BY <1>1 DEF NextPiece, Begin, ctx
<1>3. PICK k \in 0..Len(msg) : fed = SubSeq(msg, 1, k)
  BY <1>2 DEF ShaInv, StageInv, Whole
<1>4. msg \in Seq(Byte) /\ fed \in Seq(Byte)
  BY StepKinds DEF ShaInv
<1>5. Len(fed) = k /\ k + n \in 0..Len(msg) /\ n \in 1..(Len(msg) - k)
  BY <1>3, <1>4
<1>6. d \in Seq(Byte) /\ SubSeq(msg, 1, k) \o d = SubSeq(msg, 1, k + n)
  BY <1>4, <1>5, NextCut
<1>7. StreamInv'
  <2>1. StreamInv /\ "sha256" \in Stages
    BY DEF ShaInv, Stages
  <2> QED
    BY <1>2, <1>6, <2>1, SameStream, StepKinds
<1> HIDE DEF d
<1>8. Whole' = SubSeq(msg', 1, k + n)
  BY <1>2, <1>3, <1>6 DEF Whole
<1>9. PaddedAsStandard' /\ DigestAsStandard'
  BY <1>2 DEF ShaInv, StageInv, PaddedAsStandard, DigestAsStandard
<1> QED
  BY <1>2, <1>5, <1>7, <1>8, <1>9 DEF ShaInv, StageInv

LEMMA ShaDone ==
  ASSUME HashFits, ShaInv, Sha256Done
  PROVE  ShaInv'
<1>1. /\ stage = "sha256" /\ pc = "updated" /\ stage' = "digest" /\ len = Len(msg)
      /\ pc' = pc /\ rest' = rest /\ ctx' = ctx /\ key' = key /\ msg' = msg
      /\ actual_key' = actual_key
  BY DEF Sha256Done, Finish
<1>2. /\ out' = Sha(fed) /\ out' \in Seq(Byte) /\ Len(out') <= B
      /\ hashed' = [message |-> fed, blocks |-> Padded(fed)] /\ Whole = fed
  BY FinishType DEF ShaInv, Sha256Done
<1>3. StreamInv'
  <2>1. StreamInv /\ "digest" \in Stages
    BY DEF ShaInv, Stages
  <2> QED
    BY <1>1, <1>2, <2>1, SameStream
<1>4. PICK k \in 0..Len(msg) : fed = SubSeq(msg, 1, k)
  BY <1>1, <1>2 DEF ShaInv, StageInv
<1>5. fed = msg
  <2>1. msg \in Seq(Byte) /\ Len(fed) = Len(msg)
    BY <1>1, StepKinds DEF ShaInv, StreamInv, NothingLost
  <2>2. k = Len(msg)
    BY <1>4, <2>1
  <2> QED
    BY <1>4, <2>1, <2>2
<1>6. PaddedAsStandard' /\ DigestAsStandard'
  BY <1>1, <1>2, <1>5 DEF PaddedAsStandard, DigestAsStandard
<1> QED
  BY <1>1, <1>3, <1>6 DEF ShaInv, StageInv

LEMMA ShaKeyHashed ==
  ASSUME HashFits, ShaInv, KeyHashed
  PROVE  ShaInv'
<1>1. /\ stage = "key" /\ actual_key' = ZeroPadded(out') /\ NewCtx
      /\ Begin("ipad", Xored(Ipad, actual_key')) /\ stage' = "ipad"
      /\ key' = key /\ msg' = msg
  BY DEF KeyHashed, Finish, Begin
<1>2. /\ out' = Sha(fed) /\ out' \in Seq(Byte) /\ Len(out') <= B
      /\ hashed' = [message |-> fed, blocks |-> Padded(fed)] /\ Whole = fed
  BY FinishType DEF ShaInv, KeyHashed
<1>3. fed = key /\ Len(key) > B
  BY <1>1, <1>2 DEF ShaInv, StageInv
<1>4. actual_key' \in Block /\ Xored(Ipad, actual_key') \in Seq(Byte)
  BY <1>1, <1>2, PadTypes, BlockIsBytes
<1>5. StreamInv' /\ Whole' = Xored(Ipad, actual_key')
  <2>1. "ipad" \in Stages
    BY DEF Stages
  <2>2. key' \in Keys /\ msg' \in Messages
    BY <1>1, StepKinds DEF ShaInv
  <2> QED
    BY <1>1, <1>2, <1>4, <2>1, <2>2, NewStream
<1>6. actual_key' = KeyBlock(key')
  BY <1>1, <1>2, <1>3 DEF KeyBlock
<1>7. PaddedAsStandard' /\ DigestAsStandard'
  BY <1>1, <1>2 DEF PaddedAsStandard, DigestAsStandard
<1> QED
  BY <1>1, <1>5, <1>6, <1>7 DEF ShaInv, StageInv

LEMMA ShaAfterIpad ==
  ASSUME ShaInv, AfterIpad
  PROVE  ShaInv'
<1>1. /\ stage = "ipad" /\ pc = "updated" /\ stage' = "data" /\ pc' = "update"
      /\ rest' = msg /\ ctx' = ctx /\ key' = key /\ msg' = msg
      /\ actual_key' = actual_key /\ out' = out /\ hashed' = hashed /\ fed' = fed
  BY DEF AfterIpad, Begin, ctx
<1>2. fed = Xored(Ipad, actual_key) /\ actual_key = KeyBlock(key)
  BY <1>1 DEF ShaInv, StageInv, Whole
<1>3. StreamInv'
  <2>1. StreamInv /\ "data" \in Stages
    BY DEF ShaInv, Stages
  <2> QED
    BY <1>1, <2>1, SameStream, StepKinds
<1>4. Whole' = Inner'
  BY <1>1, <1>2 DEF Whole, Inner
<1>5. PaddedAsStandard' /\ DigestAsStandard'
  BY <1>1 DEF ShaInv, StageInv, PaddedAsStandard, DigestAsStandard
<1>6. actual_key' = KeyBlock(key')
  BY <1>1, <1>2
<1> QED
  BY <1>1, <1>3, <1>4, <1>5, <1>6 DEF ShaInv, StageInv

LEMMA ShaInnerDone ==
  ASSUME HashFits, ShaInv, InnerDone
  PROVE  ShaInv'
<1>1. /\ stage = "data" /\ NewCtx /\ Begin("opad", Xored(Opad, actual_key))
      /\ stage' = "opad" /\ key' = key /\ msg' = msg /\ actual_key' = actual_key
  BY DEF InnerDone, Finish, Begin
<1>2. /\ out' = Sha(fed) /\ out' \in Seq(Byte) /\ Len(out') <= B
      /\ hashed' = [message |-> fed, blocks |-> Padded(fed)] /\ Whole = fed
  BY FinishType DEF ShaInv, InnerDone
<1>3. fed = Inner /\ actual_key = KeyBlock(key)
  BY <1>1, <1>2 DEF ShaInv, StageInv
<1>4. StreamInv' /\ Whole' = Xored(Opad, actual_key')
  <2>1. "opad" \in Stages
    BY DEF Stages
  <2>2. /\ key' \in Keys /\ msg' \in Messages /\ actual_key' \in Block
        /\ Xored(Opad, actual_key) \in Seq(Byte)
    BY <1>1, StepKinds, PadTypes, BlockIsBytes DEF ShaInv
  <2> QED
    BY <1>1, <1>2, <2>1, <2>2, NewStream
<1>5. out' = Sha(Inner') /\ actual_key' = KeyBlock(key')
  BY <1>1, <1>2, <1>3 DEF Inner
<1>6. PaddedAsStandard' /\ DigestAsStandard'
  BY <1>1, <1>2 DEF PaddedAsStandard, DigestAsStandard
<1> QED
  BY <1>1, <1>4, <1>5, <1>6 DEF ShaInv, StageInv

LEMMA ShaAfterOpad ==
  ASSUME ShaInv, AfterOpad
  PROVE  ShaInv'
<1>1. /\ stage = "opad" /\ pc = "updated" /\ stage' = "inner" /\ pc' = "update"
      /\ rest' = out /\ ctx' = ctx /\ key' = key /\ msg' = msg
      /\ actual_key' = actual_key /\ out' = out /\ hashed' = hashed /\ fed' = fed
  BY DEF AfterOpad, Begin, ctx
<1>2. fed = Xored(Opad, actual_key) /\ actual_key = KeyBlock(key) /\ out = Sha(Inner)
  BY <1>1 DEF ShaInv, StageInv, Whole
<1>3. StreamInv'
  <2>1. StreamInv /\ "inner" \in Stages
    BY DEF ShaInv, Stages
  <2> QED
    BY <1>1, <2>1, SameStream, StepKinds
<1>4. Whole' = Xored(Opad, actual_key') \o out'
  BY <1>1, <1>2 DEF Whole
<1>5. out' = Sha(Inner') /\ actual_key' = KeyBlock(key')
  BY <1>1, <1>2 DEF Inner
<1>6. PaddedAsStandard' /\ DigestAsStandard'
  BY <1>1 DEF ShaInv, StageInv, PaddedAsStandard, DigestAsStandard
<1> QED
  BY <1>1, <1>3, <1>4, <1>5, <1>6 DEF ShaInv, StageInv

LEMMA ShaHmacDone ==
  ASSUME HashFits, ShaInv, HmacDone
  PROVE  ShaInv'
<1>1. /\ stage = "inner" /\ pc = "updated" /\ stage' = "mac"
      /\ pc' = pc /\ rest' = rest /\ ctx' = ctx /\ key' = key /\ msg' = msg
      /\ actual_key' = actual_key
  BY DEF HmacDone, Finish
<1>2. /\ out' = Sha(fed) /\ out' \in Seq(Byte) /\ Len(out') <= B
      /\ hashed' = [message |-> fed, blocks |-> Padded(fed)] /\ Whole = fed
  BY FinishType DEF ShaInv, HmacDone
<1>3. /\ fed = Xored(Opad, actual_key) \o Sha(Inner) /\ actual_key = KeyBlock(key)
  BY <1>1, <1>2 DEF ShaInv, StageInv
<1>4. StreamInv'
  <2>1. StreamInv /\ "mac" \in Stages
    BY DEF ShaInv, Stages
  <2> QED
    BY <1>1, <1>2, <2>1, SameStream
<1>5. out' = Hmac(key', msg') /\ actual_key' = KeyBlock(key')
  BY <1>1, <1>2, <1>3 DEF Hmac, Inner
<1>6. PaddedAsStandard' /\ DigestAsStandard'
  BY <1>1, <1>2, <1>5 DEF PaddedAsStandard, DigestAsStandard
<1> QED
  BY <1>1, <1>4, <1>5, <1>6 DEF ShaInv, StageInv

LEMMA ShaStep ==
  ASSUME HashFits, ShaInv, [Next]_vars
  PROVE  ShaInv'
<1>1. CASE ShortUpdate \/ FillBuffer \/ ProcessBlock \/ KeepTail
  <2>1. StreamInv'
    BY <1>1, StreamShort, StreamFill, StreamBlock, StreamTail DEF ShaInv
  <2>2. StageInv'
    BY <1>1, StageUpdate DEF ShaInv
  <2> QED
    BY <2>1, <2>2 DEF ShaInv
<1>2. CASE NextPiece \/ Sha256Done \/ KeyHashed \/ AfterIpad
  BY <1>2, ShaNextPiece, ShaDone, ShaKeyHashed, ShaAfterIpad
<1>3. CASE InnerDone \/ AfterOpad \/ HmacDone
  BY <1>3, ShaInnerDone, ShaAfterOpad, ShaHmacDone
<1>4. CASE Returned \/ UNCHANGED vars
  <2>1. ctx' = ctx /\ call' = call /\ pc' = pc /\ rest' = rest
    BY <1>4 DEF Returned, vars
  <2>2. /\ len' = len /\ buffer' = buffer /\ absorbed' = absorbed /\ fed' = fed
        /\ key' = key /\ msg' = msg /\ stage' = stage /\ actual_key' = actual_key
        /\ out' = out /\ hashed' = hashed
    BY <2>1 DEF ctx, call
  <2>3. StreamInv'
    BY <2>1, <2>2 DEF ShaInv, StreamInv, TypeOK, NothingLost, BufLen
  <2>4. Whole' = Whole
    BY <2>1, <2>2 DEF Whole
  <2>5. StageInv'
    BY <2>1, <2>4, StageKept DEF ShaInv
  <2> QED
    BY <2>3, <2>5 DEF ShaInv
<1> QED
  BY <1>1, <1>2, <1>3, <1>4 DEF Next

LEMMA ShaAlways ==
  ASSUME HashFits
  PROVE  Spec => []ShaInv
<1>1. Init => ShaInv
  BY StreamInit, StageInit DEF ShaInv
<1>2. ShaInv /\ [Next]_vars => ShaInv'
  BY ShaStep
<1> QED
  BY <1>1, <1>2, PTL DEF Spec

\* The context stays well-formed: its buffer a block, what it has processed whole
\* blocks, whatever the lengths of key, message and updates.
THEOREM TypeCorrect ==
  ASSUME HashFits
  PROVE  Spec => []TypeOK
<1>1. ShaInv => TypeOK
  BY DEF ShaInv, StreamInv
<1> QED
  BY <1>1, ShaAlways, PTL

\* Sha256Ctx::update loses, repeats and reorders nothing, for every size of block
\* and every way a message is cut into updates.
THEOREM UpdatesLoseNothing ==
  ASSUME HashFits
  PROVE  Spec => []NothingLost
<1>1. ShaInv => NothingLost
  BY DEF ShaInv, StreamInv
<1> QED
  BY <1>1, ShaAlways, PTL

\* Sha256Ctx::finish pads as FIPS 180-4 says, in one block or in two.
THEOREM PaddingIsStandard ==
  ASSUME HashFits
  PROVE  Spec => []PaddedAsStandard
<1>1. ShaInv => PaddedAsStandard
  BY DEF ShaInv, StageInv
<1> QED
  BY <1>1, ShaAlways, PTL

\* sha256 and sha256_hmac return the digest and the HMAC of their arguments.
THEOREM DigestIsStandard ==
  ASSUME HashFits
  PROVE  Spec => []DigestAsStandard
<1>1. ShaInv => DigestAsStandard
  BY DEF ShaInv, StageInv
<1> QED
  BY <1>1, ShaAlways, PTL
=============================================================================
