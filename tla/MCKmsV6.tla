------------------------------ MODULE MCKmsV6 ------------------------------
(* A small instance of KmsV6: blocks of two bytes, bytes of two bits. *)
EXTENDS KmsV6

XorBit(x, y) == (x + y) % 2
MCXorByte(x, y) == 2 * XorBit(x \div 2, y \div 2) + XorBit(x % 2, y % 2)

\* A permutation of the 16 blocks for each key, and its inverse.
AsNumber(b) == 4 * b[1] + b[2]
AsBlock(n)  == <<(n % 16) \div 4, n % 4>>
Shift(k)    == IF k THEN 7 ELSE 3
MCEnc(k, b) == AsBlock(5 * AsNumber(b) + Shift(k))
MCDec(k, b) == AsBlock(13 * (AsNumber(b) + 16 - Shift(k)))

MCSha(b) == <<b[2], b[1], XorBit(b[1], b[2]), 3>>

\* Every byte counts, and its place.
MCHmac(s) ==
  LET sum[n \in 0..Len(s)] == IF n = 0 THEN 1 ELSE 3 * sum[n - 1] + s[n]
  IN  AsBlock(sum[Len(s)])

MCHwId     == <<2>>
MCRequests == {<<0, 1, 2>>, <<3, 3, 1>>}
MCRandoms  == {<<0, 0>>, <<0, 3>>, <<2, 1>>, <<3, 2>>}
MCAnswers  == {[pid |-> <<>>, rest |-> <<1>>], [pid |-> <<2>>, rest |-> <<1>>],
               [pid |-> <<1, 1>>, rest |-> <<2>>]}
=============================================================================
