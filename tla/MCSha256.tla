------------------------------ MODULE MCSha256 ------------------------------
(* Instance of Sha256: blocks of 4 bytes, bytes of 4 bits, messages of up to *)
(* three blocks, keys on both sides of a block.                              *)
EXTENDS Sha256, SequencesExt, Bitwise

Bytes(n, seed) == [i \in 1..n |-> (5 * i + seed) % Base]

MCKeys == {Bytes(n, 1) : n \in 0..(B + 2)}
MCMessages == {Bytes(n, 2) : n \in 0..(3 * B + 1)}

MCXor(x, y) == x ^^ y

\* a digest of two bytes to which every byte and its place contribute
MCHash(s) ==
  <<FoldLeft(LAMBDA a, x : (3 * a + x + 1) % Base, 0, s),
    FoldLeft(LAMBDA a, x : (7 * a + x) % Base, 5, s)>>
=============================================================================
