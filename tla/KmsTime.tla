------------------------------ MODULE KmsTime ------------------------------
(***************************************************************************)
(* Times: FileTime (crates/vlmcsd-types/src/filetime.rs), a 64-bit count   *)
(* of ticks kept as two halves, and the slot of a time that keys the MAC   *)
(* of a V6 answer (create_v6_hmac in crates/vlmcsd-protocol/src/v6.rs).    *)
(***************************************************************************)
EXTENDS Integers

CONSTANTS
  Half,                  \* 2^32
  EpochDiff,             \* 1601 to 1970 in ticks
  TicksPerSec,
  TimeC1, TimeC2, TimeC3,
  LastTick               \* the last time whose slot fits a word

Word == Half * Half

ASSUME TimeAssumption ==
  /\ Half \in Nat \ {0, 1} /\ EpochDiff \in Nat /\ TicksPerSec \in Nat \ {0}
  /\ TimeC1 \in Nat \ {0} /\ TimeC2 \in Nat /\ TimeC3 \in Nat
  /\ LastTick \in 0..(Word - 1)
  /\ (LastTick \div TimeC1) * TimeC2 + TimeC3 < Word

AsU64(ft)   == ft.high * Half + ft.low
FromU64(v)  == [low |-> v % Half, high |-> (v \div Half) % Half]

\* secs as u64: a time before 1970 wraps
FromUnixSecs(secs) == FromU64(((secs % Word) * TicksPerSec + EpochDiff) % Word)

\* a time before 1970 wraps here too; builds that check overflow stop instead
ToUnixSecs(ft) == ((AsU64(ft) - EpochDiff) % Word) \div TicksPerSec

\* Mutant: the slot is computed in half a word.
TimeSlotMut(ft) == ((AsU64(ft) \div TimeC1) * TimeC2 + TimeC3) % Half

TimeSlot(ft) == ((AsU64(ft) \div TimeC1) * TimeC2 + TimeC3) % Word

=============================================================================
