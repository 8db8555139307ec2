------------------------------ MODULE KmsEpid ------------------------------
(***************************************************************************)
(* The start of vlmcsd up to the point where it serves: it loads the       *)
(* database it was built with and logs one generated ePID per CSVLK        *)
(* (main in crates/vlmcsd-server/src/main.rs, generate_random_epid in      *)
(* crates/vlmcsd-protocol/src/epid.rs), one year of the calendar loop per  *)
(* step.                                                                   *)
(*                                                                         *)
(* A random number is reduced modulo the size of a range at once, so a few *)
(* of them stand for all.  The locale is left out: nothing depends on it.  *)
(***************************************************************************)
EXTENDS KmsData

CONSTANTS
  Files,      \* what the build may embed: see KmsData, with its rows as db
  Clocks,     \* seconds since 1970 the clock may show; it may show a time before
  Randoms,    \* results of next_u32
  Int32, Int64,     \* 2^31 and 2^63
  SecsPerDay,
  MinNow      \* 1538922811: the clock is not believed to be earlier

NoDb   == [csvlk |-> <<>>, apps |-> <<>>, kms |-> <<>>, skus |-> <<>>, builds |-> <<>>]
NoEpid == <<>>

U32Values == 0..(2 * Int32 - 1)
Times     == (-Int64)..(Int64 - 1)

\* A usize is no shorter than an i32, and no slice longer than half of what it counts.
ASSUME DatabaseAssumption ==
  /\ {Int32, Int64, SecsPerDay} \subseteq Nat \ {0} /\ 2 * Int32 <= Usize
  /\ Clocks \subseteq Times /\ MinNow \in Times /\ MinNow >= 0
  /\ Randoms \subseteq Nat
  /\ \A f \in Files :
       /\ f.size \in Nat /\ 2 * f.size < Usize
       /\ f.csvlk_count \in Nat
       /\ \A i \in 1..4 : f.tables[i].offset \in Nat /\ f.tables[i].count \in (-Int32)..(Int32 - 1)
       /\ f.db.csvlk \in Seq([epid : Seq(Nat), release : Times, group : Nat,
                              min_key : U32Values, max_key : U32Values, min_active : Nat])
       /\ f.db.builds \in Seq([number : Nat, platform : Nat, release : Times])

\* Both lookups by build rely on it.
ASSUME NewestFirst ==
  \A f \in Files : \A i, j \in DOMAIN f.db.builds :
    i < j => f.db.builds[i].number > f.db.builds[j].number

VARIABLES
  file,         \* KMD_DATA
  checked,      \* the build checks integers for overflow, as a debug build does
  load,         \* what parse returned, "unread" before
  boot,         \* where the daemon stands
  db,
  idx,          \* the loop over the CSVLKs
  draw,         \* what generate_random_epid has chosen
  remaining_days, year,
  epid          \* history: the line logged last

startVars == <<file, checked, load, boot, db, idx, draw, remaining_days, year, epid>>

StartTypeOK ==
  /\ file \in Files /\ checked \in BOOLEAN
  /\ load \in {"unread", "none", "panic", "abort", "some"}
  /\ boot \in {"load", "epids", "years", "logged", "serving", "failed"}
  /\ db \in {NoDb, file.db}
  /\ idx \in 0..Len(db.csvlk)
  /\ boot \in {"years", "logged"} =>
       /\ idx < Len(db.csvlk)
       /\ draw.time \in Int /\ remaining_days \in Int /\ year \in Nat /\ year >= 1970
       /\ year > 1970 => remaining_days \in Nat

StartInit ==
  /\ file \in Files /\ checked \in BOOLEAN
  /\ load = "unread" /\ boot = "load" /\ db = NoDb
  /\ idx = 0 /\ draw = NoEpid /\ remaining_days = 0 /\ year = 1970 /\ epid = NoEpid

-----------------------------------------------------------------------------
\* load_embedded, and the clock that seeds the ePIDs: no database, no daemon.
Load ==
  /\ boot = "load"
  /\ \E result \in ParseResults(file), now \in Clocks :
       /\ load' = result
       /\ db'   = IF result = "some" THEN file.db ELSE db
       /\ boot' = IF result = "some" /\ now >= 0 THEN "epids" ELSE "failed"
       /\ draw' = IF result = "some" /\ now < 0 THEN [now |-> now] ELSE draw
  /\ UNCHANGED <<file, checked, idx, remaining_days, year, epid>>

Later(a, b) == IF a > b THEN a ELSE b

FirstPossibleTime(csvlk, build) == Later(csvlk.release, GetReleaseDate(db, build))
MaxTime(now) == Later(now, MinNow)

\* Mutant: the second of the release is taken for a range to draw from.
HasWindowMut(csvlk, build, now) == MaxTime(now) >= FirstPossibleTime(csvlk, build)

HasWindow(csvlk, build, now) == MaxTime(now) > FirstPossibleTime(csvlk, build)

WindowSize(csvlk, build, now) == MaxTime(now) - FirstPossibleTime(csvlk, build)

\* i64 % i64 is by the magnitude of the divisor; a size beyond an i64 has wrapped
\* to a negative one.
KmsTime(csvlk, build, now, r) ==
  LET size == WindowSize(csvlk, build, now)
  IN  FirstPossibleTime(csvlk, build)
        + IF HasWindow(csvlk, build, now)
          THEN r % (IF size < Int64 THEN size ELSE 2 * Int64 - size) ELSE 0

KeyRange(csvlk) == (csvlk.max_key - csvlk.min_key) % (2 * Int32)

\* A remainder by zero always panics, as does a clock before 1970; a difference that
\* leaves its type does in a build that checks for it.
DrawPanics(csvlk, build, now) ==
  \/ now < 0 \/ KeyRange(csvlk) = 0
  \/ HasWindow(csvlk, build, now) /\ WindowSize(csvlk, build, now) = 0
  \/ checked /\ csvlk.max_key < csvlk.min_key
  \/ checked /\ HasWindow(csvlk, build, now) /\ WindowSize(csvlk, build, now) >= Int64

Draw(csvlk, build, k, r, now) ==
  [build |-> build, time |-> KmsTime(csvlk, build, now, r), now |-> now,
   platform |-> GetPlatformId(db, build), group |-> csvlk.group,
   key_id |-> ((k % KeyRange(csvlk)) + csvlk.min_key) % (2 * Int32)]

\* timestamp / SECS_PER_DAY, towards zero, as i32
DaysSinceEpoch(time) ==
  LET days == IF time >= 0 THEN time \div SecsPerDay ELSE -((-time) \div SecsPerDay)
  IN  ((days + Int32) % (2 * Int32)) - Int32

\* generate_random_epid up to the loop of unix_to_day_year.
Generate ==
  /\ boot = "epids" /\ idx < Len(db.csvlk)
  /\ \/ /\ db.builds = <<>>
        /\ boot' = "failed" /\ UNCHANGED <<draw, remaining_days, year>>
     \/ \E b \in DOMAIN db.builds, k \in Randoms, r \in Randoms, now \in Clocks :
          LET csvlk == db.csvlk[idx + 1]
              build == db.builds[b].number
          IN  \/ /\ DrawPanics(csvlk, build, now)
                 /\ boot' = "failed" /\ draw' = [build |-> build, now |-> now]
                 /\ UNCHANGED <<remaining_days, year>>
              \/ /\ ~DrawPanics(csvlk, build, now)
                 /\ boot' = "years" /\ draw' = Draw(csvlk, build, k, r, now)
                 /\ remaining_days' = DaysSinceEpoch(draw'.time)
                 /\ year' = 1970
  /\ UNCHANGED <<file, checked, load, db, idx, epid>>

IsLeapYear(y) == (y % 4 = 0 /\ y % 100 # 0) \/ y % 400 = 0
DaysIn(y)     == IF IsLeapYear(y) THEN 366 ELSE 365

\* Mutant: a year has 365 days until it is known to have more.
NextYearShortMut ==
  /\ boot = "years" /\ remaining_days >= 365
  /\ remaining_days' = remaining_days - DaysIn(year)
  /\ year' = year + 1
  /\ UNCHANGED <<file, checked, load, boot, db, idx, draw, epid>>

\* Mutant: on the first day of a year the loop goes round without a change.
NextYearMut ==
  /\ boot = "years" /\ remaining_days >= DaysIn(year)
  /\ LET left == IF remaining_days > DaysIn(year) THEN DaysIn(year) ELSE 0
     IN  /\ remaining_days' = remaining_days - left
         /\ year' = IF left > 0 THEN year + 1 ELSE year
  /\ UNCHANGED <<file, checked, load, boot, db, idx, draw, epid>>

NextYear ==
  /\ boot = "years" /\ remaining_days >= DaysIn(year)
  /\ remaining_days' = remaining_days - DaysIn(year)
  /\ year' = year + 1
  /\ UNCHANGED <<file, checked, load, boot, db, idx, draw, epid>>

\* Mutant: days are counted from 0.
FoundYearMut ==
  /\ boot = "years" /\ remaining_days < DaysIn(year)
  /\ epid' = [from |-> draw, day_of_year |-> remaining_days % (2 * Int32), year |-> year]
  /\ boot' = "logged"
  /\ UNCHANGED <<file, checked, load, db, idx, draw, remaining_days, year>>

\* the day as u32
FoundYear ==
  /\ boot = "years" /\ remaining_days < DaysIn(year)
  /\ epid' = [from |-> draw, day_of_year |-> (remaining_days + 1) % (2 * Int32),
              year |-> year]
  /\ boot' = "logged"
  /\ UNCHANGED <<file, checked, load, db, idx, draw, remaining_days, year>>

\* The line is written and the ePID dropped: none of them is ever served.
NextCsvlk ==
  /\ boot = "logged"
  /\ idx' = idx + 1 /\ boot' = "epids"
  /\ draw' = NoEpid /\ remaining_days' = 0 /\ year' = 1970 /\ epid' = NoEpid
  /\ UNCHANGED <<file, checked, load, db>>

Serve ==
  /\ boot = "epids" /\ idx = Len(db.csvlk)
  /\ boot' = "serving"
  /\ UNCHANGED <<file, checked, load, db, idx, draw, remaining_days, year, epid>>

Start == Load \/ Generate \/ NextYear \/ FoundYear \/ NextCsvlk \/ Serve

StartSpec == StartInit /\ [][Start]_startVars

-----------------------------------------------------------------------------
(* Properties. *)

\* Days from 1970 to the beginning of a year of the Gregorian calendar.
DaysBefore(y) ==
  365 * (y - 1970) + ((y - 1) \div 4) - ((y - 1) \div 100) + ((y - 1) \div 400) - 477

\* Every row of a table lies in the file.
Fits(f, offset, count) == count = 0 \/ (count > 0 /\ offset + count * RowSize <= f.size)

\* parse accepts no file that ends before its tables do, and refuses no other one.
\* It panics only when the header itself is cut off, when a count is more than a
\* vector can have (a negative one is), or when a table begins so close to the last
\* usize that the end of its first row wraps; it aborts only for a large table.
CutFileRefused ==
  LET complete == /\ Fits(file, CsvlkStart, file.csvlk_count)
                  /\ \A i \in 1..4 :
                       Fits(file, AsUsize(file.tables[i].offset), file.tables[i].count)
  IN  /\ load = "some" => complete
      /\ load = "none" => file.size < 16 \/ ~file.magic \/ ~complete
      /\ load = "panic" => \/ file.size < HeaderRead
                           \/ \E i \in 1..4 :
                                \/ CapacityOverflows(AsUsize(file.tables[i].count))
                                \/ AsUsize(file.tables[i].offset) + RowSize >= Usize
      /\ load = "abort" => \E i \in 1..4 : file.tables[i].count > SafeRows

\* The day and the year in an ePID are the calendar date of the time that was
\* drawn, at either end of a year and in leap years, for every time from 1970 on
\* whose day is an i32.
DateIsCalendar ==
  (boot = "logged" /\ epid.from.time >= 0 /\ epid.from.time \div SecsPerDay < Int32) =>
    /\ epid.day_of_year \in 1..DaysIn(epid.year)
    /\ DaysBefore(epid.year) + epid.day_of_year - 1 = epid.from.time \div SecsPerDay

\* A key of the group's range.  A range that ends before it begins goes round: what
\* lies between its ends is then what it does not have.
KeyInRange(key, csvlk) ==
  IF csvlk.min_key < csvlk.max_key THEN key \in csvlk.min_key..(csvlk.max_key - 1)
  ELSE key \in U32Values \ (csvlk.max_key..(csvlk.min_key - 1))

\* What an ePID says could be true: the platform is that of its build, the key is
\* of the group's range, and the host was set up when its system and the product
\* had been released and not in the future, unless the clock is before that.
Plausible(d, csvlk) ==
  \E b \in DOMAIN db.builds :
    LET row == db.builds[b]
    IN  /\ d.build = row.number /\ d.platform = row.platform
        /\ d.group = csvlk.group /\ KeyInRange(d.key_id, csvlk)
        /\ d.time >= row.release /\ d.time >= csvlk.release
        /\ \/ d.time < MaxTime(d.now)
           \/ MaxTime(d.now) <= Later(row.release, csvlk.release)

\* Why a daemon with its database read may not start: nothing to choose from, a clock
\* before 1970, or, where overflow is checked, a range that goes round or a release
\* an i64 of seconds ago.
CannotDraw(csvlk) ==
  \/ db.builds = <<>> \/ draw.now < 0 \/ csvlk.min_key = csvlk.max_key
  \/ checked /\ csvlk.max_key < csvlk.min_key
  \/ checked /\ MaxTime(draw.now) - csvlk.release >= Int64

\* generate_random_epid draws a plausible ePID, also when the clock or the release
\* leaves no time to draw from, and panics for no other reason than those above.
EpidPlausible ==
  /\ boot = "logged" => /\ Plausible(epid.from, db.csvlk[idx + 1])
                        /\ db.csvlk[idx + 1].max_key < db.csvlk[idx + 1].min_key => ~checked
  /\ boot = "failed" /\ load = "some" => CannotDraw(db.csvlk[idx + 1])

\* The daemon gets to the point where it serves, or has failed.
StartEnds == <>(boot \in {"serving", "failed"})
=============================================================================
