------------------------------- MODULE Sha256 -------------------------------
(***************************************************************************)
(* SHA-256 and HMAC as crates/vlmcsd-crypto/src/sha256.rs computes them: a *)
(* context takes its message in updates of any length, keeps what does not *)
(* fill a block and pads the last block when it is finished; HMAC runs two *)
(* or three contexts one after the other.                                  *)
(*                                                                         *)
(* What the rounds make of a block is left open: the state of a context is *)
(* represented by the bytes of the blocks it has processed.                *)
(***************************************************************************)
EXTENDS Integers, Sequences

CONSTANTS
  B,              \* bytes of a block: 64
  L,              \* bytes of the length field: 8
  Base,           \* values of a byte: 256
  Mark,           \* 0x80
  Ipad, Opad,     \* 0x36 and 0x5C
  XorByte(_, _),
  Hash(_),        \* state after these bytes, as bytes
  Keys, Messages  \* arguments of sha256 and sha256_hmac

Byte      == 0..(Base - 1)
Block     == [1..B -> Byte]
ZeroBlock == [i \in 1..B |-> 0]

ASSUME HashAssumption ==
  /\ B \in Nat /\ L \in 1..(B - 1) /\ Base \in Nat \ {0}
  /\ {0, Mark, Ipad, Opad} \subseteq Byte
  /\ \A x, y \in Byte : XorByte(x, y) \in Byte
  /\ Keys \subseteq Seq(Byte) /\ Messages \subseteq Seq(Byte)

\* A digest is a sequence of bytes that fits a block.
HashFits == \A s \in Seq(Byte) : Hash(s) \in Seq(Byte) /\ Len(Hash(s)) <= B

VARIABLES
  key, msg,     \* the arguments
  stage,        \* what the context in hand is for, and which update is next
  pc,           \* where that update stands
  len, buffer,  \* Sha256Ctx
  absorbed,     \* Sha256Ctx::state: the bytes it has processed
  rest,         \* data: what the update has not taken yet
  actual_key,
  out,          \* the last digest
  fed,          \* history: what the context was given
  hashed        \* history: the last message finished, and the blocks processed

ctx  == <<len, buffer, absorbed, fed>>
call == <<key, msg, stage, actual_key, out, hashed>>
vars == <<ctx, call, pc, rest>>

Stages == {"sha256", "key", "ipad", "data", "opad", "inner", "digest", "mac"}

TypeOK ==
  /\ key \in Keys /\ msg \in Messages
  /\ stage \in Stages /\ pc \in {"update", "blocks", "updated"}
  /\ len \in Nat /\ buffer \in Block
  /\ absorbed \in Seq(Byte) /\ Len(absorbed) % B = 0
  /\ rest \in Seq(Byte) /\ fed \in Seq(Byte)
  /\ actual_key \in Block
  /\ out \in Seq(Byte) /\ Len(out) <= B

-----------------------------------------------------------------------------
(* Sha256Ctx::update. *)

BufLen == len % B
Room   == B - BufLen

\* buffer[at..at + data.len()].copy_from_slice(data)
Copied(data, at) ==
  [i \in 1..B |-> IF i \in (at + 1)..(at + Len(data)) THEN data[i - at]
                                                     ELSE buffer[i]]

Take == len' = len + Len(rest) /\ fed' = fed \o rest

\* Mutant: data that just fills the block is only kept.
ShortUpdateMut ==
  /\ pc = "update" /\ Len(rest) <= Room
  /\ Take
  /\ buffer' = Copied(rest, BufLen)
  /\ rest' = <<>> /\ pc' = "updated"
  /\ UNCHANGED <<absorbed, call>>

ShortUpdate ==
  /\ pc = "update" /\ Len(rest) < Room
  /\ Take
  /\ buffer' = Copied(rest, BufLen)
  /\ rest' = <<>> /\ pc' = "updated"
  /\ UNCHANGED <<absorbed, call>>

FillBuffer ==
  /\ pc = "update" /\ Len(rest) >= Room
  /\ Take
  /\ IF Room < B
     THEN /\ buffer' = Copied(SubSeq(rest, 1, Room), BufLen)
          /\ absorbed' = absorbed \o buffer'
          /\ rest' = SubSeq(rest, Room + 1, Len(rest))
     ELSE UNCHANGED <<buffer, absorbed, rest>>
  /\ pc' = "blocks"
  /\ UNCHANGED call

ProcessBlock ==
  /\ pc = "blocks" /\ Len(rest) >= B
  /\ absorbed' = absorbed \o SubSeq(rest, 1, B)
  /\ rest' = SubSeq(rest, B + 1, Len(rest))
  /\ UNCHANGED <<pc, len, buffer, fed, call>>

KeepTail ==
  /\ pc = "blocks" /\ Len(rest) < B
  /\ buffer' = Copied(rest, 0)
  /\ rest' = <<>> /\ pc' = "updated"
  /\ UNCHANGED <<len, absorbed, fed, call>>

-----------------------------------------------------------------------------
(* Sha256Ctx::finish. *)

\* (len << 3).to_be_bytes()
LengthField(n) == [j \in 1..L |-> ((8 * n) \div Base^(L - j)) % Base]

Marked ==
  [i \in 1..B |-> IF i <= BufLen THEN buffer[i]
                  ELSE IF i = BufLen + 1 THEN Mark ELSE 0]

WithLength(block) == SubSeq(block, 1, B - L) \o LengthField(len)

\* Mutant: a mark in the first byte of the length field gets no block of its own.
LastBlocksMut ==
  IF BufLen > B - L THEN Marked \o WithLength(ZeroBlock) ELSE WithLength(Marked)

LastBlocks ==
  IF BufLen >= B - L THEN Marked \o WithLength(ZeroBlock) ELSE WithLength(Marked)

Finish(s) ==
  /\ stage = s /\ pc = "updated"
  /\ out' = Hash(absorbed \o LastBlocks)
  /\ hashed' = [message |-> fed, blocks |-> absorbed \o LastBlocks]

NewCtx ==
  len' = 0 /\ buffer' = ZeroBlock /\ absorbed' = <<>> /\ fed' = <<>>

-----------------------------------------------------------------------------
(* sha256 and sha256_hmac: which context gets which updates. *)

Xored(pad, block) == [i \in 1..B |-> XorByte(pad, block[i])]
ZeroPadded(bytes) == [i \in 1..B |-> IF i <= Len(bytes) THEN bytes[i] ELSE 0]

Init ==
  /\ key \in Keys /\ msg \in Messages
  /\ \/ /\ stage = "sha256" /\ actual_key = ZeroBlock
        /\ \E n \in 0..Len(msg) : rest = SubSeq(msg, 1, n)
     \/ /\ Len(key) > B
        /\ stage = "key" /\ rest = key /\ actual_key = ZeroBlock
     \/ /\ Len(key) <= B
        /\ stage = "ipad" /\ actual_key = ZeroPadded(key)
        /\ rest = Xored(Ipad, actual_key)
  /\ pc = "update"
  /\ len = 0 /\ buffer = ZeroBlock /\ absorbed = <<>> /\ fed = <<>>
  /\ out = <<>> /\ hashed = <<>>

\* The next update, of the context in hand or of a new one.
Begin(s, data) == stage' = s /\ rest' = data /\ pc' = "update"

\* sha256 gives its data in one update.  The type lets a caller give it in
\* pieces of any length, and the model does.
NextPiece ==
  /\ stage = "sha256" /\ pc = "updated"
  /\ \E n \in 1..(Len(msg) - Len(fed)) :
       Begin("sha256", SubSeq(msg, Len(fed) + 1, Len(fed) + n))
  /\ UNCHANGED <<ctx, key, msg, actual_key, out, hashed>>

Sha256Done ==
  /\ Finish("sha256") /\ len = Len(msg) /\ stage' = "digest"
  /\ UNCHANGED <<ctx, pc, rest, key, msg, actual_key>>

KeyHashed ==
  /\ Finish("key")
  /\ actual_key' = ZeroPadded(out')
  /\ NewCtx /\ Begin("ipad", Xored(Ipad, actual_key'))
  /\ UNCHANGED <<key, msg>>

AfterIpad ==
  /\ stage = "ipad" /\ pc = "updated" /\ Begin("data", msg)
  /\ UNCHANGED <<ctx, key, msg, actual_key, out, hashed>>

\* Mutant: the outer hash goes on with the inner context.
InnerDoneMut ==
  /\ Finish("data")
  /\ Begin("opad", Xored(Opad, actual_key))
  /\ UNCHANGED <<ctx, key, msg, actual_key>>

InnerDone ==
  /\ Finish("data")
  /\ NewCtx /\ Begin("opad", Xored(Opad, actual_key))
  /\ UNCHANGED <<key, msg, actual_key>>

AfterOpad ==
  /\ stage = "opad" /\ pc = "updated" /\ Begin("inner", out)
  /\ UNCHANGED <<ctx, key, msg, actual_key, out, hashed>>

HmacDone ==
  /\ Finish("inner") /\ stage' = "mac"
  /\ UNCHANGED <<ctx, pc, rest, key, msg, actual_key>>

Returned == stage \in {"digest", "mac"} /\ UNCHANGED vars

Next ==
  \/ ShortUpdate \/ FillBuffer \/ ProcessBlock \/ KeepTail
  \/ NextPiece \/ Sha256Done \/ KeyHashed \/ AfterIpad \/ InnerDone \/ AfterOpad \/ HmacDone
  \/ Returned

Spec == Init /\ [][Next]_vars

-----------------------------------------------------------------------------
(* The standards: FIPS 180-4 for the padding, RFC 2104 for HMAC. *)

\* the least number of zeros that makes whole blocks
Gap(n) == CHOOSE k \in 0..(B - 1) : (n + 1 + k + L) % B = 0

Padded(m) ==
  m \o <<Mark>> \o [i \in 1..Gap(Len(m)) |-> 0] \o LengthField(Len(m))

Sha(m) == Hash(Padded(m))

KeyBlock(k) == ZeroPadded(IF Len(k) > B THEN Sha(k) ELSE k)

Hmac(k, m) ==
  Sha(Xored(Opad, KeyBlock(k)) \o Sha(Xored(Ipad, KeyBlock(k)) \o m))

-----------------------------------------------------------------------------
(* Properties. *)

\* Between updates the blocks processed and the bytes kept are what the updates
\* were given, in order, wherever the updates began and ended.
NothingLost ==
  pc # "blocks" => /\ len = Len(fed)
                   /\ absorbed \o SubSeq(buffer, 1, BufLen) = fed

\* What a finished context has processed is its message padded as the standard
\* says, whether or not mark and length fit behind the message.
PaddedAsStandard == hashed # <<>> => hashed.blocks = Padded(hashed.message)

\* sha256 and sha256_hmac return what the standards define.
DigestAsStandard ==
  /\ stage = "digest" => out = Sha(msg)
  /\ stage = "mac" => out = Hmac(key, msg)
=============================================================================
