------------------------------ MODULE KmsData ------------------------------
(***************************************************************************)
(* The product database (crates/vlmcsd-kmsdata/src/lib.rs): what parse     *)
(* makes of a file, and the lookups.                                       *)
(*                                                                         *)
(* A file is its size, whether it begins with the magic number, the number *)
(* of CSVLK rows, offset and count of the four other tables in the order   *)
(* in which they are read, as they are in the header, and the tables       *)
(* themselves, as they are if parse succeeds.                              *)
(***************************************************************************)
EXTENDS Integers, Sequences

CONSTANTS
  Usize,      \* how many values a usize has: 2^64
  SafeRows    \* a vector of so many rows can be allocated; a larger one may not

HeaderRead == 64          \* what is read before the first table
CsvlkStart == 72
RowSize    == 32

ASSUME UsizeAssumption == Usize \in Nat /\ Usize > 256 /\ SafeRows \in Nat

FirstOf(S) == CHOOSE i \in S : \A j \in S : i <= j
LastOf(S)  == CHOOSE i \in S : \A j \in S : j <= i

AsUsize(n) == n % Usize   \* of a u64, and of an i32 with its sign

\* Mutant: only the beginning of a row is compared with the end of the file.
RowResultMut(file, off) ==
  CASE off > file.size                                       -> "none"
    [] off <= file.size /\ off + RowSize > file.size          -> "panic"
    [] off + RowSize <= file.size                            -> "some"

\* The end of a row near the last usize wraps and passes the check, and the slice
\* panics; with overflow checks the sum does.
RowResult(file, off) ==
  CASE AsUsize(off + RowSize) > file.size                                  -> "none"
    [] AsUsize(off + RowSize) <= file.size /\ off + RowSize > file.size     -> "panic"
    [] AsUsize(off + RowSize) <= file.size /\ off + RowSize <= file.size    -> "some"

\* The loop over the rows of a table: the first one that is not there decides.
RowsResult(file, offset, count) ==
  LET row == [i \in 0..(count - 1) |-> RowResult(file, AsUsize(offset + i * RowSize))]
      bad == {i \in 0..(count - 1) : row[i] # "some"}
  IN  IF bad = {} THEN "some" ELSE row[FirstOf(bad)]

\* Vec::with_capacity: no allocation has half as many bytes as there are addresses,
\* and one that is not made aborts the process.
CapacityOverflows(rows) == 2 * rows * RowSize >= Usize

\* parse_vlmcsd_items, and the loop over the builds: what may happen.
TableResults(file, table) ==
  LET rows == AsUsize(table.count)
  IN  IF CapacityOverflows(rows) THEN {"panic"}
      ELSE {RowsResult(file, AsUsize(table.offset), rows)} \cup {r \in {"abort"} : rows > SafeRows}

\* KmsData::parse: one table after the other, as long as they are read.
ParseResults(file) ==
  LET table   == [i \in 0..4 |-> IF i = 0 THEN {RowsResult(file, CsvlkStart, file.csvlk_count)}
                                          ELSE TableResults(file, file.tables[i])]
      reached == {i \in 0..4 : \A j \in 0..(i - 1) : "some" \in table[j]}
  IN  IF file.size < 16 \/ ~file.magic THEN {"none"}
      ELSE IF file.size < HeaderRead THEN {"panic"}
      ELSE (UNION {table[i] \ {"some"} : i \in reached})
             \cup {r \in {"some"} : \A i \in 0..4 : "some" \in table[i]}

-----------------------------------------------------------------------------
(* Lookups in a database db = [csvlk, apps, kms, skus, builds]. *)

\* find_kms_item and its like: iter().rev().find(..), as a set of at most one.
Find(items, guid) ==
  LET hits == {i \in DOMAIN items : items[i].guid = guid}
  IN  IF hits = {} THEN {} ELSE {items[LastOf(hits)]}

GetEpid(db, index) == IF index < Len(db.csvlk) THEN db.csvlk[index + 1].epid ELSE <<>>

\* The first build that is not newer, and the last one if there is none.
GetPlatformId(db, build) ==
  LET older == {i \in DOMAIN db.builds : db.builds[i].number <= build}
  IN  IF db.builds = <<>> THEN 0
      ELSE db.builds[IF older = {} THEN Len(db.builds) ELSE FirstOf(older)].platform

\* The last build that is not older, and the first one if there is none.
GetReleaseDate(db, build) ==
  LET newer == {i \in DOMAIN db.builds : db.builds[i].number >= build}
  IN  IF db.builds = <<>> THEN 0
      ELSE db.builds[IF newer = {} THEN 1 ELSE LastOf(newer)].release

=============================================================================
