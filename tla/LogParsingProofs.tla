-------------------------- MODULE LogParsingProofs --------------------------
(***************************************************************************)
(* Proofs about LogParsing: no line of a log is lost without a word, and   *)
(* stamps are dated to the instant they were written at where that can be  *)
(* known, for logs of any length, any stamps, clocks and limits.           *)
(***************************************************************************)
EXTENDS LogParsing, FiniteSetTheorems, TLAPS

-----------------------------------------------------------------------------
(* The calendar *)

\* days before a year, of a year before a month, and of a reading
Past(y) == 365 * (y - 1) + (y - 1) \div 4 - (y - 1) \div 100 + (y - 1) \div 400
YearDay(c) == DaysBefore[c.m] + (IF c.m > 2 /\ Leap(c.y) THEN 1 ELSE 0) + c.d
DayNumber(c) == Past(c.y) + YearDay(c)
Extra(y) == IF Leap(y) THEN 1 ELSE 0

LEMMA StampParts ==
    ASSUME NEW c \in Stamp
    PROVE  /\ c.y \in Nat \ {0} /\ c.m \in 1..12 /\ c.d \in 1..31 /\ c.t \in 0..(Day - 1)
           /\ Day \in Nat \ {0}
BY LogParsingAssumption DEF Stamp, LogParsingAssumption

\* a year has 365 days, and one more if it is a leap year
LEMMA YearsFollow ==
    ASSUME NEW y \in Nat \ {0}
    PROVE  Past(y) \in Int /\ Past(y + 1) = Past(y) + 365 + Extra(y)
<1>1. \A q \in Nat :
         /\ (q + 1) \div 4 = q \div 4 + (IF (q + 1) % 4 = 0 THEN 1 ELSE 0)
         /\ (q + 1) \div 100 = q \div 100 + (IF (q + 1) % 100 = 0 THEN 1 ELSE 0)
         /\ (q + 1) \div 400 = q \div 400 + (IF (q + 1) % 400 = 0 THEN 1 ELSE 0)
         /\ q \div 4 \in Int /\ q \div 100 \in Int /\ q \div 400 \in Int
  OBVIOUS
<1>2. \A q \in Nat :
         /\ (q % 400 = 0 => q % 100 = 0) /\ (q % 100 = 0 => q % 4 = 0)
  OBVIOUS
<1> DEFINE q == y - 1
<1>3. q \in Nat /\ q + 1 = y /\ (y + 1) - 1 = y
  OBVIOUS
<1>4. /\ y \div 4 = q \div 4 + (IF y % 4 = 0 THEN 1 ELSE 0)
      /\ y \div 100 = q \div 100 + (IF y % 100 = 0 THEN 1 ELSE 0)
      /\ y \div 400 = q \div 400 + (IF y % 400 = 0 THEN 1 ELSE 0)
      /\ q \div 4 \in Int /\ q \div 100 \in Int /\ q \div 400 \in Int
  BY <1>1, <1>3
<1>5. Extra(y) = (IF y % 4 = 0 THEN 1 ELSE 0) - (IF y % 100 = 0 THEN 1 ELSE 0)
                 + (IF y % 400 = 0 THEN 1 ELSE 0)
  BY <1>2 DEF Extra, Leap
<1>6. /\ Past(y) = 365 * q + q \div 4 - q \div 100 + q \div 400
      /\ Past(y + 1) = 365 * y + y \div 4 - y \div 100 + y \div 400
  BY <1>3 DEF Past
<1> HIDE DEF q
<1> QED BY <1>3, <1>4, <1>5, <1>6

\* ... so that two years or more are at least 730 and the extra day of the first
LEMMA YearsAddUp ==
    ASSUME NEW y \in Nat \ {0}, NEW z \in Nat, y + 2 <= z
    PROVE  Past(z) >= Past(y) + 730 + Extra(y)
<1> DEFINE leaps(n) == n \div 4 - n \div 100 + n \div 400
<1>1. \A a, b \in Nat : a <= b => leaps(a) <= leaps(b)
  <2> SUFFICES ASSUME NEW a \in Nat, NEW b \in Nat, a <= b PROVE leaps(a) <= leaps(b)
    OBVIOUS
  <2>1. a \div 4 <= b \div 4 /\ a \div 4 \in Nat /\ b \div 4 \in Nat
    OBVIOUS
  <2>2. \A c, d \in Nat : c <= d => c - c \div 25 <= d - d \div 25
    OBVIOUS
  <2>3. \A c \in Nat : c \div 100 = (c \div 4) \div 25
    OBVIOUS
  <2>4. a \div 400 <= b \div 400
    OBVIOUS
  <2>5. \A c \in Nat : c \div 100 \in Nat /\ c \div 400 \in Nat
    OBVIOUS
  <2> QED BY <2>1, <2>2, <2>3, <2>4, <2>5
<1>2. /\ Past(y) \in Int /\ Past(y + 1) = Past(y) + 365 + Extra(y)
      /\ Past(y + 2) = Past(y + 1) + 365 + Extra(y + 1)
  <2>1. y + 1 \in Nat \ {0} /\ (y + 1) + 1 = y + 2
    OBVIOUS
  <2> QED BY <2>1, YearsFollow
<1>3. Extra(y) \in {0, 1} /\ Extra(y + 1) \in {0, 1}
  BY DEF Extra
<1>4. Past(z) >= Past(y + 2)
  <2>1. y + 1 \in Nat /\ z - 1 \in Nat /\ y + 1 <= z - 1 /\ (y + 2) - 1 = y + 1
    OBVIOUS
  <2>2. leaps(y + 1) <= leaps(z - 1)
    <3> HIDE DEF leaps
    <3> QED BY <1>1, <2>1
  <2>3. \A c \in Nat : c \div 4 \in Int /\ c \div 100 \in Int /\ c \div 400 \in Int
    OBVIOUS
  <2> QED BY <2>1, <2>2, <2>3 DEF Past
<1>5. Past(z) \in Int
  <2>1. z \in Nat \ {0}
    OBVIOUS
  <2> QED BY <2>1, YearsFollow
<1> HIDE DEF Past, Extra
<1> QED BY <1>2, <1>3, <1>4, <1>5

\* where a day is in its year
LEMMA DaysOfTheYear ==
    ASSUME NEW c \in Stamp
    PROVE  /\ YearDay(c) \in Nat \ {0}
           /\ c.d \in 1..DaysIn(c.y, c.m) => YearDay(c) <= 365 + Extra(c.y)
<1>1. c.m \in {1, 2, 3, 4, 5, 6, 7, 8, 9, 10, 11, 12} /\ c.d \in 1..31
  BY StampParts
<1>2. /\ DaysBefore[1] = 0 /\ DaysBefore[2] = 31 /\ DaysBefore[3] = 59
      /\ DaysBefore[4] = 90 /\ DaysBefore[5] = 120 /\ DaysBefore[6] = 151
      /\ DaysBefore[7] = 181 /\ DaysBefore[8] = 212 /\ DaysBefore[9] = 243
      /\ DaysBefore[10] = 273 /\ DaysBefore[11] = 304 /\ DaysBefore[12] = 334
  BY DEF DaysBefore
<1> DEFINE before == DaysBefore[c.m]
           e == IF c.m > 2 /\ Leap(c.y) THEN 1 ELSE 0
           x == Extra(c.y)
<1>3. before \in Nat /\ e \in {0, 1} /\ c.d \in Nat \ {0} /\ x \in {0, 1}
  BY <1>1, <1>2 DEF Extra
<1>4. /\ c.m = 1 => before + e = 0
      /\ c.m = 2 => before + e = 31
      /\ c.m > 2 => e = x /\ before = DaysBefore[c.m]
  BY <1>1, <1>2 DEF Extra
<1>5. YearDay(c) = before + e + c.d
  BY DEF YearDay
<1>6. ASSUME c.d \in 1..DaysIn(c.y, c.m)
      PROVE  before + e + c.d <= 365 + x
  <2>1. CASE c.m = 1
    BY <1>1, <1>3, <1>4, <2>1
  <2>2. CASE c.m = 2
    <3>1. DaysIn(c.y, c.m) = 28 + x
      BY <2>2 DEF DaysIn, Extra
    <3> HIDE DEF before, e, x
    <3>2. c.d <= 28 + x
      BY <1>3, <1>6, <3>1
    <3> QED BY <1>3, <1>4, <2>2, <3>2
  <2>3. CASE c.m > 2
    <3>1. DaysIn(c.y, c.m) = IF c.m \in {4, 6, 9, 11} THEN 30 ELSE 31
      BY <1>1, <2>3 DEF DaysIn
    <3>2. before + c.d <= 365
      BY <1>1, <1>2, <1>6, <2>3, <3>1
    <3> HIDE DEF before, e, x
    <3> QED BY <1>3, <1>4, <2>3, <3>2
  <2> QED BY <1>1, <2>1, <2>2, <2>3
<1> HIDE DEF before, e, x
<1>7. before + e + c.d \in Nat \ {0}
  BY <1>3
<1> QED BY <1>5, <1>6, <1>7 DEF x

LEMMA InstantsAreDays ==
    ASSUME NEW c \in Stamp
    PROVE  /\ Instant(c) = DayNumber(c) * Day + c.t
           /\ DayNumber(c) \in Int /\ Instant(c) \in Int
<1>1. Past(c.y) \in Int /\ YearDay(c) \in Int
  BY StampParts, YearsFollow, DaysOfTheYear
<1>2. DayNumber(c) \in Int
  BY <1>1 DEF DayNumber
<1>3. DayNumber(c) * Day \in Int /\ c.t \in Int
  BY <1>2, StampParts
<1>4. Instant(c) = DayNumber(c) * Day + c.t
  <2>1. DayNumber(c) = 365 * (c.y - 1) + (c.y - 1) \div 4 - (c.y - 1) \div 100
                       + (c.y - 1) \div 400 + DaysBefore[c.m]
                       + (IF c.m > 2 /\ Leap(c.y) THEN 1 ELSE 0) + c.d
    <3>1. c.m \in 1..12 => DaysBefore[c.m] \in Int
      BY DEF DaysBefore
    <3>2. /\ 365 * (c.y - 1) \in Int /\ (c.y - 1) \div 4 \in Int
          /\ (c.y - 1) \div 100 \in Int /\ (c.y - 1) \div 400 \in Int
          /\ c.d \in Int /\ DaysBefore[c.m] \in Int
      BY <3>1, StampParts
    <3> HIDE DEF Leap
    <3> QED BY <3>2 DEF DayNumber, Past, YearDay
  <2> QED BY <2>1 DEF Instant
<1> QED BY <1>2, <1>3, <1>4

\* the same reading of two years that are next to each other is 365 days apart or more
LEMMA NextYearIsLater ==
    ASSUME NEW c \in Stamp, NEW e \in Stamp, e.y = c.y + 1,
           e.m = c.m, e.d = c.d, e.t = c.t
    PROVE  Instant(e) >= Instant(c) + 365 * Day
<1>1. /\ c.y \in Nat \ {0} /\ c.m \in 1..12 /\ c.d \in 1..31 /\ c.t \in Int /\ Day \in Nat
  BY StampParts
<1>2. Past(c.y) \in Int /\ Past(e.y) = Past(c.y) + 365 + Extra(c.y)
  BY <1>1, YearsFollow
<1>3. YearDay(e) + Extra(c.y) >= YearDay(c)
  <2>1. DaysBefore[c.m] \in Int
    BY <1>1 DEF DaysBefore
  <2> HIDE DEF DaysBefore, Leap
  <2> QED BY <1>1, <2>1 DEF YearDay, Extra
<1>4. YearDay(c) \in Int /\ YearDay(e) \in Int /\ Extra(c.y) \in Int
  BY DaysOfTheYear DEF Extra
<1>5. DayNumber(e) >= DayNumber(c) + 365
  BY <1>2, <1>3, <1>4 DEF DayNumber
<1>6. \A a, b \in Int : b >= a + 365 => b * Day >= a * Day + 365 * Day
  <2> TAKE a, b \in Int
  <2> HAVE b >= a + 365
  <2>1. b - a - 365 \in Nat
    OBVIOUS
  <2>2. (b - a - 365) * Day \in Nat
    BY <1>1, <2>1
  <2>3. (b - a - 365) * Day = b * Day - a * Day - 365 * Day
    BY <1>1
  <2>4. b * Day \in Int /\ a * Day \in Int /\ 365 * Day \in Int
    BY <1>1
  <2> QED BY <2>2, <2>3, <2>4
<1>7. DayNumber(e) * Day >= DayNumber(c) * Day + 365 * Day
  BY <1>5, <1>6, InstantsAreDays
<1>8. /\ DayNumber(e) * Day \in Int /\ DayNumber(c) * Day \in Int /\ 365 * Day \in Int
  BY <1>1, InstantsAreDays
<1> QED BY <1>1, <1>7, <1>8, InstantsAreDays

\* two years back are more than 365 days back
LEMMA TwoYearsAreFar ==
    ASSUME NEW c \in Stamp, NEW e \in Stamp, c.y + 2 <= e.y, c.d \in 1..DaysIn(c.y, c.m)
    PROVE  Instant(e) >= Instant(c) + 365 * Day
<1>1. /\ c.y \in Nat \ {0} /\ e.y \in Nat \ {0} /\ Day \in Nat \ {0}
      /\ c.t \in 0..(Day - 1) /\ e.t \in 0..(Day - 1)
  BY StampParts
<1>2. Past(c.y) \in Int /\ Past(e.y) \in Int /\ Past(e.y) >= Past(c.y) + 730 + Extra(c.y)
  BY <1>1, YearsFollow, YearsAddUp
<1>3. /\ YearDay(c) \in Int /\ YearDay(c) <= 365 + Extra(c.y)
      /\ YearDay(e) \in Nat \ {0} /\ Extra(c.y) \in Int
  BY DaysOfTheYear DEF Extra
<1>4. DayNumber(e) >= DayNumber(c) + 366
  BY <1>2, <1>3 DEF DayNumber
<1>5. \A a, b \in Int : b >= a + 366 => b * Day >= a * Day + 366 * Day
  <2> TAKE a, b \in Int
  <2> HAVE b >= a + 366
  <2>1. b - a - 366 \in Nat
    OBVIOUS
  <2>2. (b - a - 366) * Day \in Nat
    BY <1>1, <2>1
  <2>3. (b - a - 366) * Day = b * Day - a * Day - 366 * Day
    BY <1>1
  <2>4. b * Day \in Int /\ a * Day \in Int /\ 366 * Day \in Int
    BY <1>1
  <2> QED BY <2>2, <2>3, <2>4
<1>6. DayNumber(e) * Day >= DayNumber(c) * Day + 366 * Day
  BY <1>4, <1>5, InstantsAreDays
<1>7. /\ DayNumber(e) * Day \in Int /\ DayNumber(c) * Day \in Int
      /\ 366 * Day = 365 * Day + Day /\ 365 * Day \in Int
  BY <1>1, InstantsAreDays
<1> QED BY <1>1, <1>6, <1>7, InstantsAreDays

-----------------------------------------------------------------------------
(* What the parsers make of a stamp *)

\* StampsAreDated of one line
Dated(line) ==
    LET dated == Resolve(line)
        at == WrittenAt(line)
    IN  Built(line.stamp) # None =>
        /\ dated.confidence = "exact" /\ line.english /\ args.year_hint = None =>
              dated.time = at
        /\ /\ line.form = "bsd" /\ line.english /\ line.offset = 0
           /\ parser = "auth" => args.year_hint = None
           /\ line.stamp.y <= now.y
           /\ IF parser = "auth"
              THEN at > Instant(now) - 364 * Day /\ at <= Instant(now) + Day
              ELSE line.stamp.y = now.y
           => dated.time = at

LEMMA BuiltIsAnInstant ==
    ASSUME NEW c \in Stamp
    PROVE  /\ Built(c) # None <=> c.d \in 1..DaysIn(c.y, c.m)
           /\ Built(c) # None => Built(c) = Instant(c) /\ Built(c) \in Int
BY InstantsAreDays, LogParsingAssumption DEF Built, LogParsingAssumption

LEMMA YearIsSet ==
    ASSUME NEW c \in Stamp, NEW y \in Nat \ {0}
    PROVE  /\ InYear(c, y) \in Stamp /\ InYear(c, y).y = y
           /\ InYear(c, y).m = c.m /\ InYear(c, y).d = c.d /\ InYear(c, y).t = c.t
           /\ InYear(c, c.y) = c
BY DEF InYear, Stamp

\* a stamp with an offset, or in a form that is taken for UTC
LEMMA MeantIsWritten ==
    ASSUME NEW line, line.stamp \in Stamp, line.offset \in Int, Built(line.stamp) # None,
           line.zoned
    PROVE  /\ Meant(line) = WrittenAt(line) /\ Meant(line) # None
           /\ \A how : DatedAs(Meant(line), how).time = WrittenAt(line)
<1>1. Built(line.stamp) \in Int
  BY BuiltIsAnInstant
<1>2. Meant(line) = Built(line.stamp) - line.offset
  BY DEF Meant
<1>3. Meant(line) \in Int
  BY <1>1, <1>2
<1>4. Meant(line) # None
  BY <1>3, LogParsingAssumption DEF LogParsingAssumption
<1> QED BY <1>2, <1>4 DEF WrittenAt, DatedAs

\* the parser of logins finds the year of a stamp of the last 364 days
LEMMA YearIsFound ==
    ASSUME NEW stamp \in Stamp, now \in Stamp, Built(stamp) # None, stamp.y <= now.y,
           Instant(stamp) > Instant(now) - 364 * Day, Instant(stamp) <= Instant(now) + Day
    PROVE  (IF ThisYear(stamp) THEN now.y ELSE now.y - 1) = stamp.y
<1>1. /\ stamp.y \in Nat \ {0} /\ now.y \in Nat \ {0} /\ Day \in Nat \ {0}
      /\ Instant(stamp) \in Int /\ Instant(now) \in Int
      /\ 364 * Day \in Int /\ 365 * Day = 364 * Day + Day
  BY StampParts, InstantsAreDays
<1>2. CASE stamp.y = now.y
  <2>1. Built(InYear(stamp, now.y)) = Instant(stamp)
    BY <1>2, BuiltIsAnInstant, YearIsSet
  <2>2. ThisYear(stamp)
    BY <1>2, <2>1, BuiltIsAnInstant, YearIsSet DEF ThisYear
  <2> QED BY <1>2, <2>2
<1>3. CASE stamp.y + 1 = now.y
  <2> DEFINE late == InYear(stamp, now.y)
  <2>1. /\ late \in Stamp /\ late.y = stamp.y + 1
        /\ late.m = stamp.m /\ late.d = stamp.d /\ late.t = stamp.t
    BY <1>1, <1>3, YearIsSet
  <2>2. Instant(late) \in Int /\ Instant(late) >= Instant(stamp) + 365 * Day
    BY <2>1, NextYearIsLater, InstantsAreDays
  <2>3. Built(late) # None => Built(late) = Instant(late)
    BY <2>1, BuiltIsAnInstant
  <2>4. ~ (Instant(late) <= Instant(now) + Day)
    BY <1>1, <2>2
  <2>5. ~ ThisYear(stamp)
    BY <2>3, <2>4 DEF ThisYear
  <2> QED BY <1>1, <1>3, <2>5
<1>4. CASE stamp.y + 2 <= now.y
  <2>1. Instant(now) >= Instant(stamp) + 365 * Day
    BY <1>4, BuiltIsAnInstant, TwoYearsAreFar
  <2> QED BY <1>1, <2>1
<1> QED BY <1>1, <1>2, <1>3, <1>4

\* whatever a line looks like, what is said of its instant is true
LEMMA LinesAreDated ==
    ASSUME NEW line, line.stamp \in Stamp, line.offset \in Int, now \in Stamp,
           parser \in {"auth", "web"}
    PROVE  Dated(line)
<1> SUFFICES ASSUME Built(line.stamp) # None
             PROVE  /\ /\ Resolve(line).confidence = "exact" /\ line.english
                       /\ args.year_hint = None
                       => Resolve(line).time = WrittenAt(line)
                    /\ /\ line.form = "bsd" /\ line.english /\ line.offset = 0
                       /\ parser = "auth" => args.year_hint = None
                       /\ line.stamp.y <= now.y
                       /\ IF parser = "auth"
                          THEN /\ WrittenAt(line) > Instant(now) - 364 * Day
                               /\ WrittenAt(line) <= Instant(now) + Day
                          ELSE line.stamp.y = now.y
                       => Resolve(line).time = WrittenAt(line)
  BY DEF Dated
<1>1. /\ Built(line.stamp) = Instant(line.stamp) /\ Instant(line.stamp) \in Int
      /\ line.offset = 0 => WrittenAt(line) = Instant(line.stamp)
  BY BuiltIsAnInstant DEF WrittenAt
<1>2. ASSUME NEW how
      PROVE  /\ DatedAs(Meant(line), how).confidence \in {how, "unknown"}
             /\ line.zoned => DatedAs(Meant(line), how).time = WrittenAt(line)
  BY MeantIsWritten DEF DatedAs, Undated
<1>3. ASSUME Resolve(line).confidence = "exact", line.english, args.year_hint = None
      PROVE  Resolve(line).time = WrittenAt(line)
  <2>1. CASE parser = "web"
    <3>1. CASE line.form = "clf"
      <4>1. Resolve(line) = DatedAs(Meant(line), IF line.zoned THEN "exact" ELSE "derived")
        BY <1>3, <2>1, <3>1 DEF Resolve, ParseTimestamp
      <4> QED BY <1>2, <1>3, <4>1
    <3>2. CASE line.form = "iso"
      <4>1. Resolve(line) = DatedAs(Meant(line), IF line.zoned THEN "exact" ELSE "derived")
        <5>1. Resolve(line) = ParseTimestamp(line)
          BY <2>1 DEF Resolve
        <5>2. line.form # "clf" /\ line.form # "bsd"
          BY <3>2
        <5>3. ParseTimestamp(line) =
                  DatedAs(Meant(line), IF line.zoned THEN "exact" ELSE "derived")
          BY <1>3, <3>2, <5>2, Zenon DEF ParseTimestamp
        <5> QED BY <5>1, <5>3
      <4> QED BY <1>2, <1>3, <4>1
    <3>3. CASE line.form \notin {"clf", "iso"}
      BY <1>3, <2>1, <3>3 DEF Resolve, ParseTimestamp, DatedAs, Undated
    <3> QED BY <3>1, <3>2, <3>3
  <2>2. CASE parser = "auth" /\ line.form = "iso"
    <3>1. Resolve(line) = DatedAs(Meant(line), IF line.zoned THEN "exact" ELSE "approximate")
      BY <2>2 DEF Resolve, ParseIso
    <3> QED BY <1>2, <1>3, <3>1
  <2>3. CASE parser = "auth" /\ line.form # "iso"
    <3>1. Resolve(line) = ParseBsd(line)
      BY <2>3 DEF Resolve
    <3>2. ParseBsd(line) = DatedAs(Built(InYear(line.stamp, IF ThisYear(line.stamp)
                                                     THEN now.y ELSE now.y - 1)), "derived")
      BY <1>3 DEF ParseBsd
    <3> QED BY <1>3, <3>1, <3>2 DEF DatedAs, Undated
  <2> QED BY <2>1, <2>2, <2>3
<1>4. ASSUME line.form = "bsd", line.english, line.offset = 0,
             parser = "auth" => args.year_hint = None, line.stamp.y <= now.y,
             IF parser = "auth"
             THEN /\ WrittenAt(line) > Instant(now) - 364 * Day
                  /\ WrittenAt(line) <= Instant(now) + Day
             ELSE line.stamp.y = now.y
      PROVE  Resolve(line).time = WrittenAt(line)
  <2>1. InYear(line.stamp, line.stamp.y) = line.stamp
    BY YearIsSet, StampParts
  <2>2. \A how : DatedAs(Built(line.stamp), how).time = WrittenAt(line)
    BY <1>1, <1>4 DEF DatedAs
  <2>3. CASE parser = "web"
    <3>1. Resolve(line) = DatedAs(Built(InYear(line.stamp, now.y)), "derived")
      BY <1>4, <2>3 DEF Resolve, ParseTimestamp
    <3> QED BY <1>4, <2>1, <2>2, <2>3, <3>1
  <2>4. CASE parser = "auth"
    <3>1. Resolve(line) = ParseBsd(line)
      BY <1>4, <2>4 DEF Resolve
    <3>2. ParseBsd(line) = DatedAs(Built(InYear(line.stamp, IF ThisYear(line.stamp)
                                                     THEN now.y ELSE now.y - 1)), "derived")
      BY <1>4, <2>4 DEF ParseBsd
    <3>3. (IF ThisYear(line.stamp) THEN now.y ELSE now.y - 1) = line.stamp.y
      BY <1>1, <1>4, <2>4, YearIsFound
    <3> QED BY <2>1, <2>2, <3>1, <3>2, <3>3
  <2> QED BY <2>3, <2>4
<1> QED BY <1>3, <1>4

-----------------------------------------------------------------------------
(* The loop over the lines *)

Total == Len(artifact.lines)
LinesRead == 1..(line_number - 1)
Recorded(k) ==
    LET line == artifact.lines[k]
    IN  ~ Blank(line) /\ Recognised(line) /\ ~ Filtered(line)
Unknown(k) == ~ Blank(artifact.lines[k]) /\ ~ Recognised(artifact.lines[k])

Warnings ==
    (IF artifact.utf8 THEN {} ELSE {"latin-1"}) \union
    (IF Ended THEN {} ELSE {"truncated"}) \union
    (IF tally.unrecognized = 0 THEN {} ELSE {"unrecognized"}) \union
    (IF tally.undated = 0 THEN {} ELSE {"undated"})

Setup ==
    /\ parser \in {"auth", "web"} /\ artifact \in Artifacts /\ args \in Options
    /\ now \in Clocks
    /\ line_number \in 1..(Total + 1) /\ line_number <= args.max_lines + 1
    /\ evidence \in Seq({evidence[k] : k \in DOMAIN evidence})
    /\ DOMAIN tally = {"lines_total", "matched", "unrecognized", "undated"}
    /\ tally.unrecognized \in Nat

\* the observations are those of the lines read so far that are to be recorded, one
\* each, with their instants; the others are counted
LinesInv ==
    /\ \A k \in DOMAIN evidence :
          /\ evidence[k].line_number \in 1..Total
          /\ evidence[k].dated = Resolve(LineOf(evidence[k]))
    /\ {evidence[k].line_number : k \in DOMAIN evidence} = {k \in LinesRead : Recorded(k)}
    /\ Len(evidence) = Cardinality({k \in LinesRead : Recorded(k)})
    /\ tally.unrecognized = Cardinality({k \in LinesRead : Unknown(k)})

LogInv ==
    /\ Setup /\ LinesInv
    /\ warnings # None => (Ended \/ Unread) /\ warnings = Warnings

LEMMA LinesThere ==
    ASSUME artifact \in Artifacts, args \in Options
    PROVE  /\ Total \in Nat /\ DOMAIN artifact.lines = 1..Total
           /\ args.max_lines \in Nat \ {0}
           /\ \A k \in 1..Total : /\ artifact.lines[k].stamp \in Stamp
                                  /\ artifact.lines[k].offset \in Int
BY LogParsingAssumption DEF LogParsingAssumption, Total

\* what a line is seen as does not change while the lines are read
LEMMA LinesStay ==
    ASSUME UNCHANGED <<parser, artifact, args, now>>
    PROVE  /\ Total' = Total
           /\ \A line : Resolve(line)' = Resolve(line)
           /\ \A k : Recorded(k)' = Recorded(k)
           /\ \A k : Unknown(k)' = Unknown(k)
<1>1. \A line : Resolve(line)' = Resolve(line)
  BY DEF Resolve, ParseTimestamp, ParseIso, ParseBsd, ThisYear
<1>2. \A k : (Recorded(k)' <=> Recorded(k)) /\ (Unknown(k)' <=> Unknown(k))
  BY DEF Recorded, Unknown, Blank, Recognised, Filtered
<1> QED BY <1>1, <1>2 DEF Total, Recorded, Unknown

\* the lines of a kind, when one more is read
LEMMA OneMoreLine ==
    ASSUME NEW n \in Nat \ {0}, NEW P
    PROVE  LET before == {k \in 1..(n - 1) : k \in P}
               after == {k \in 1..n : k \in P}
           IN  /\ IsFiniteSet(before) /\ Cardinality(before) \in Nat
               /\ n \in P => /\ after = before \union {n}
                             /\ Cardinality(after) = Cardinality(before) + 1
               /\ n \notin P => after = before
<1> DEFINE before == {k \in 1..(n - 1) : k \in P}
           after == {k \in 1..n : k \in P}
<1>1. IsFiniteSet(1..(n - 1))
  BY FS_Interval
<1>2. before \in SUBSET (1..(n - 1))
  OBVIOUS
<1>3. IsFiniteSet(before) /\ Cardinality(before) \in Nat
  BY <1>1, <1>2, FS_Subset, FS_CardinalityType
<1>4. \A k : k \in 1..n <=> k \in 1..(n - 1) \/ k = n
  OBVIOUS
<1>5. n \notin before
  OBVIOUS
<1>6. n \in P => after = before \union {n}
  BY <1>4
<1>7. n \notin P => after = before
  BY <1>4
<1>8. Cardinality(before \union {n}) = Cardinality(before) + 1
  <2> HIDE DEF before
  <2> QED BY <1>3, <1>5, FS_AddElement
<1> QED BY <1>3, <1>6, <1>7, <1>8

LEMMA RowIsAppended ==
    ASSUME NEW s, s \in Seq({s[k] : k \in DOMAIN s}), NEW x
    PROVE  LET t == Append(s, x) IN
           /\ t \in Seq({t[k] : k \in DOMAIN t})
           /\ Len(t) = Len(s) + 1 /\ Len(s) \in Nat
           /\ DOMAIN s = 1..Len(s) /\ DOMAIN t = 1..(Len(s) + 1)
           /\ \A k \in DOMAIN s : k \in DOMAIN t /\ t[k] = s[k]
           /\ t[Len(s) + 1] = x
           /\ \A k \in DOMAIN t : k \in DOMAIN s \/ k = Len(s) + 1
<1> DEFINE S == {s[k] : k \in DOMAIN s} \union {x}
           t == Append(s, x)
<1>1. s \in Seq(S)
  OBVIOUS
<1> HIDE DEF S
<1>2. /\ Len(t) = Len(s) + 1 /\ Len(s) \in Nat
      /\ DOMAIN s = 1..Len(s) /\ DOMAIN t = 1..(Len(s) + 1)
      /\ \A k \in 1..Len(s) : t[k] = s[k]
      /\ t[Len(s) + 1] = x
      /\ t \in Seq(S)
  BY <1>1 DEF S
<1> HIDE DEF t
<1>3. t \in Seq({t[k] : k \in DOMAIN t})
  BY <1>2
<1>4. \A k \in 1..(Len(s) + 1) : k \in 1..Len(s) \/ k = Len(s) + 1
  BY <1>2
<1>5. \A k \in 1..Len(s) : k \in 1..(Len(s) + 1)
  BY <1>2
<1> QED BY <1>2, <1>3, <1>4, <1>5 DEF t

\* the line that is due is one of the text, and the lines before it grow by it
LEMMA LineIsDue ==
    ASSUME LogInv, Due, NextLine, UNCHANGED <<parser, artifact, args, now, warnings>>
    PROVE  /\ line_number \in 1..Total /\ Line = artifact.lines[line_number]
           /\ Total \in Nat /\ Total' = Total
           /\ line_number' \in 1..(Total + 1) /\ line_number' <= args.max_lines + 1
           /\ LinesRead' = 1..line_number /\ line_number \in Nat \ {0}
           /\ warnings' = None /\ warnings = None
<1>1. /\ Total \in Nat /\ args.max_lines \in Nat \ {0} /\ Total' = Total
      /\ line_number \in 1..(Total + 1)
  BY LinesThere, LinesStay DEF LogInv, Setup
<1>2. line_number <= Total /\ line_number <= args.max_lines
  BY <1>1 DEF Due, Ended, Unread, Total
<1>3. LinesRead' = 1..line_number
  <2>1. line_number' - 1 = line_number
    BY <1>1 DEF NextLine
  <2> QED BY <2>1 DEF LinesRead
<1> QED BY <1>1, <1>2, <1>3 DEF NextLine, Line, Due, Reading

LEMMA CountCounts ==
    ASSUME NEW counters, LogInv, Count(counters)
    PROVE  /\ DOMAIN tally' = {"lines_total", "matched", "unrecognized", "undated"}
           /\ tally'.unrecognized \in Nat
           /\ "unrecognized" \in counters => tally'.unrecognized = tally.unrecognized + 1
           /\ "unrecognized" \notin counters => tally'.unrecognized = tally.unrecognized
BY DEF LogInv, Setup, Count

\* a line that is no observation
LEMMA LineIsPassed ==
    ASSUME LogInv, Due, NextLine, UNCHANGED <<parser, artifact, args, now, evidence, warnings>>,
           ~ Recorded(line_number),
           DOMAIN tally' = {"lines_total", "matched", "unrecognized", "undated"},
           tally'.unrecognized = tally.unrecognized + (IF Unknown(line_number) THEN 1 ELSE 0)
    PROVE  LogInv'
<1>1. /\ Total \in Nat /\ Total' = Total /\ line_number \in 1..Total
      /\ line_number' \in 1..(Total + 1) /\ line_number' <= args.max_lines + 1
      /\ LinesRead' = 1..line_number /\ line_number \in Nat \ {0}
      /\ warnings' = None
  BY LineIsDue
<1>2. tally.unrecognized \in Nat
  BY DEF LogInv, Setup
<1>3. Setup'
  BY <1>1, <1>2 DEF LogInv, Setup
<1>4. /\ \A line : Resolve(line)' = Resolve(line)
      /\ \A k : Recorded(k)' = Recorded(k)
      /\ \A k : Unknown(k)' = Unknown(k)
  BY LinesStay
<1> DEFINE R == {k \in 1..Total : Recorded(k)}
           U == {k \in 1..Total : Unknown(k)}
<1>5. /\ {k \in LinesRead : Recorded(k)} = {k \in 1..(line_number - 1) : k \in R}
      /\ {k \in LinesRead : Unknown(k)} = {k \in 1..(line_number - 1) : k \in U}
      /\ {k \in LinesRead : Recorded(k)}' = {k \in 1..line_number : k \in R}
      /\ {k \in LinesRead : Unknown(k)}' = {k \in 1..line_number : k \in U}
  <2>1. \A k \in 1..(line_number - 1) : k \in 1..Total
    BY <1>1
  <2>2. \A k \in 1..line_number : k \in 1..Total
    BY <1>1
  <2> QED BY <1>1, <1>4, <2>1, <2>2 DEF LinesRead
<1>6. line_number \notin R /\ (line_number \in U <=> Unknown(line_number))
  BY <1>1
<1> HIDE DEF R, U
<1>7. {k \in LinesRead : Recorded(k)}' = {k \in LinesRead : Recorded(k)}
  BY <1>1, <1>5, <1>6, OneMoreLine
<1>8. Cardinality({k \in LinesRead : Unknown(k)})' = tally'.unrecognized
  <2>1. Cardinality({k \in LinesRead : Unknown(k)}) = tally.unrecognized
    BY DEF LogInv, LinesInv
  <2> DEFINE before == {k \in 1..(line_number - 1) : k \in U}
             after == {k \in 1..line_number : k \in U}
  <2>2. /\ line_number \in U => Cardinality(after) = Cardinality(before) + 1
        /\ line_number \notin U => after = before
    BY <1>1, OneMoreLine
  <2>3. Cardinality(before) = tally.unrecognized
    BY <1>5, <2>1
  <2>4. Cardinality({k \in LinesRead : Unknown(k)})' = Cardinality(after)
    BY <1>5
  <2> HIDE DEF before, after
  <2>5. Cardinality(after) = tally'.unrecognized
    BY <1>2, <1>6, <2>2, <2>3
  <2> QED BY <2>4, <2>5
<1>9. LinesInv'
  <2>1. \A k \in DOMAIN evidence :
           /\ evidence[k].line_number \in 1..Total
           /\ evidence[k].dated = Resolve(LineOf(evidence[k]))
    BY DEF LogInv, LinesInv
  <2>2. \A k \in DOMAIN evidence' :
           /\ evidence'[k].line_number \in 1..Total'
           /\ evidence'[k].dated = Resolve(LineOf(evidence[k]))'
    <3> TAKE k \in DOMAIN evidence'
    <3>1. LineOf(evidence[k])' = LineOf(evidence[k])
      BY DEF LineOf
    <3> QED BY <1>1, <1>4, <2>1, <3>1
  <2> QED BY <1>7, <1>8, <2>2 DEF LogInv, LinesInv
<1> QED BY <1>1, <1>3, <1>9 DEF LogInv

\* a line that is one
LEMMA LineIsRecorded ==
    ASSUME LogInv, Due, NextLine, UNCHANGED <<parser, artifact, args, now, warnings>>,
           Recorded(line_number), evidence' = Append(evidence, Draft(Line)),
           DOMAIN tally' = {"lines_total", "matched", "unrecognized", "undated"},
           tally'.unrecognized = tally.unrecognized
    PROVE  LogInv'
<1>1. /\ Total \in Nat /\ Total' = Total /\ line_number \in 1..Total
      /\ line_number' \in 1..(Total + 1) /\ line_number' <= args.max_lines + 1
      /\ LinesRead' = 1..line_number /\ line_number \in Nat \ {0}
      /\ warnings' = None /\ Line = artifact.lines[line_number]
  BY LineIsDue
<1>2. tally.unrecognized \in Nat /\ evidence \in Seq({evidence[k] : k \in DOMAIN evidence})
  BY DEF LogInv, Setup
<1> DEFINE new == Draft(Line)
           n == Len(evidence) + 1
<1>3. new.line_number = line_number /\ new.dated = Resolve(Line)
  BY DEF Draft, AuthEvent, WebEvent
<1> HIDE DEF new
<1>4. /\ evidence' \in Seq({evidence'[k] : k \in DOMAIN evidence'})
      /\ Len(evidence') = n /\ Len(evidence) \in Nat
      /\ DOMAIN evidence = 1..Len(evidence) /\ DOMAIN evidence' = 1..n
      /\ \A k \in DOMAIN evidence : k \in DOMAIN evidence' /\ evidence'[k] = evidence[k]
      /\ evidence'[n] = new
      /\ \A k \in DOMAIN evidence' : k \in DOMAIN evidence \/ k = n
  <2>1. evidence' = Append(evidence, new)
    BY DEF new
  <2> QED BY <1>2, <2>1, RowIsAppended
<1>5. Setup'
  BY <1>1, <1>2, <1>4 DEF LogInv, Setup
<1>6. /\ \A line : Resolve(line)' = Resolve(line)
      /\ \A k : Recorded(k)' = Recorded(k)
      /\ \A k : Unknown(k)' = Unknown(k)
  BY LinesStay
<1> DEFINE R == {k \in 1..Total : Recorded(k)}
           U == {k \in 1..Total : Unknown(k)}
<1>7. /\ {k \in LinesRead : Recorded(k)} = {k \in 1..(line_number - 1) : k \in R}
      /\ {k \in LinesRead : Unknown(k)} = {k \in 1..(line_number - 1) : k \in U}
      /\ {k \in LinesRead : Recorded(k)}' = {k \in 1..line_number : k \in R}
      /\ {k \in LinesRead : Unknown(k)}' = {k \in 1..line_number : k \in U}
  <2>1. \A k \in 1..(line_number - 1) : k \in 1..Total
    BY <1>1
  <2>2. \A k \in 1..line_number : k \in 1..Total
    BY <1>1
  <2> QED BY <1>1, <1>6, <2>1, <2>2 DEF LinesRead
<1>8. line_number \in R /\ line_number \notin U
  BY <1>1 DEF Recorded, Unknown
<1> HIDE DEF R, U
<1>9. /\ {k \in LinesRead : Recorded(k)}' = {k \in LinesRead : Recorded(k)} \union {line_number}
      /\ Cardinality({k \in LinesRead : Recorded(k)})'
            = Cardinality({k \in LinesRead : Recorded(k)}) + 1
  <2> DEFINE before == {k \in 1..(line_number - 1) : k \in R}
             after == {k \in 1..line_number : k \in R}
  <2>1. after = before \union {line_number} /\ Cardinality(after) = Cardinality(before) + 1
    BY <1>1, <1>8, OneMoreLine
  <2>2. /\ {k \in LinesRead : Recorded(k)}' = after
        /\ Cardinality({k \in LinesRead : Recorded(k)})' = Cardinality(after)
        /\ {k \in LinesRead : Recorded(k)} = before
    BY <1>7
  <2> HIDE DEF before, after
  <2> QED BY <2>1, <2>2
<1>10. {k \in LinesRead : Unknown(k)}' = {k \in LinesRead : Unknown(k)}
  BY <1>1, <1>7, <1>8, OneMoreLine
<1>11. {evidence[k].line_number : k \in DOMAIN evidence}'
          = {evidence[k].line_number : k \in DOMAIN evidence} \union {line_number}
  <2>1. n \in DOMAIN evidence'
    BY <1>4
  <2> QED BY <1>3, <1>4, <2>1
<1>12. \A k \in DOMAIN evidence' :
          /\ evidence'[k].line_number \in 1..Total'
          /\ evidence'[k].dated = Resolve(LineOf(evidence[k]))'
  <2> TAKE k \in DOMAIN evidence'
  <2>1. LineOf(evidence[k])' = artifact.lines[evidence'[k].line_number]
    BY DEF LineOf
  <2>2. CASE k \in DOMAIN evidence
    <3>1. /\ evidence'[k] = evidence[k] /\ evidence[k].line_number \in 1..Total
          /\ evidence[k].dated = Resolve(artifact.lines[evidence[k].line_number])
      BY <1>4, <2>2 DEF LogInv, LinesInv, LineOf
    <3> QED BY <1>1, <1>6, <2>1, <3>1
  <2>3. CASE k = n
    <3>1. evidence'[k].line_number = line_number /\ evidence'[k].dated = Resolve(Line)
      BY <1>3, <1>4, <2>3
    <3> QED BY <1>1, <1>6, <2>1, <3>1
  <2> QED BY <1>4, <2>2, <2>3
<1>13. LinesInv'
  <2>1. Cardinality({k \in LinesRead : Unknown(k)})' = Cardinality({k \in LinesRead : Unknown(k)})
    BY <1>10
  <2>2. /\ Len(evidence) = Cardinality({k \in LinesRead : Recorded(k)})
        /\ {evidence[k].line_number : k \in DOMAIN evidence} = {k \in LinesRead : Recorded(k)}
        /\ tally.unrecognized = Cardinality({k \in LinesRead : Unknown(k)})
    BY DEF LogInv, LinesInv
  <2>3. Len(evidence') = Cardinality({k \in LinesRead : Recorded(k)})'
    BY <1>4, <1>9, <2>2
  <2>4. {evidence[k].line_number : k \in DOMAIN evidence}' = {k \in LinesRead : Recorded(k)}'
    BY <1>9, <1>11, <2>2
  <2>5. tally'.unrecognized = Cardinality({k \in LinesRead : Unknown(k)})'
    BY <2>1, <2>2
  <2> QED BY <1>12, <2>3, <2>4, <2>5 DEF LinesInv
<1> QED BY <1>1, <1>5, <1>13 DEF LogInv

LEMMA LogStarts == Init => LogInv
<1> SUFFICES ASSUME Init PROVE LogInv
  OBVIOUS
<1>1. /\ parser \in {"auth", "web"} /\ artifact \in Artifacts /\ args \in Options
      /\ now \in Clocks /\ line_number = 1 /\ evidence = <<>> /\ warnings = None
      /\ DOMAIN tally = {"lines_total", "matched", "unrecognized", "undated"}
      /\ tally.unrecognized = 0
  BY DEF Init
<1>2. Total \in Nat /\ args.max_lines \in Nat \ {0}
  BY <1>1, LinesThere
<1>3. /\ DOMAIN evidence = {} /\ Len(evidence) = 0
      /\ evidence \in Seq({evidence[k] : k \in DOMAIN evidence})
  BY <1>1
<1>4. Setup
  BY <1>1, <1>2, <1>3 DEF Setup
<1>5. LinesRead = {}
  BY <1>1 DEF LinesRead
<1>6. LinesInv
  <2>1. {k \in LinesRead : Recorded(k)} = {} /\ {k \in LinesRead : Unknown(k)} = {}
    BY <1>5
  <2> QED BY <1>1, <1>3, <2>1, FS_EmptySet DEF LinesInv
<1> QED BY <1>1, <1>4, <1>6 DEF LogInv

LEMMA ResultIsReturned ==
    ASSUME LogInv, UNCHANGED <<parser, artifact, args, now, line_number, evidence, tally>>,
           warnings' = warnings \/ ((Ended \/ Unread) /\ warnings' = Warnings)
    PROVE  LogInv'
<1>1. /\ Total' = Total /\ LinesRead' = LinesRead
      /\ \A line : Resolve(line)' = Resolve(line)
      /\ \A k : Recorded(k)' = Recorded(k)
      /\ \A k : Unknown(k)' = Unknown(k)
  BY LinesStay DEF LinesRead
<1>2. Setup'
  BY <1>1 DEF LogInv, Setup
<1>3. \A k \in DOMAIN evidence' : LineOf(evidence[k])' = LineOf(evidence[k])
  BY DEF LineOf
<1>4. /\ {k \in LinesRead : Recorded(k)}' = {k \in LinesRead : Recorded(k)}
      /\ {k \in LinesRead : Unknown(k)}' = {k \in LinesRead : Unknown(k)}
  BY <1>1
<1>5. LinesInv'
  BY <1>1, <1>3, <1>4 DEF LogInv, LinesInv
<1>6. Warnings' = Warnings /\ (Ended' <=> Ended) /\ (Unread' <=> Unread)
  BY DEF Warnings, Ended, Unread
<1> QED BY <1>2, <1>5, <1>6 DEF LogInv

LEMMA LogSteps == LogInv /\ [Next]_vars => LogInv'
<1> SUFFICES ASSUME LogInv, [Next]_vars PROVE LogInv'
  OBVIOUS
<1>1. Due => Line = artifact.lines[line_number]
  BY DEF Line
<1>2. tally.unrecognized \in Nat
  BY DEF LogInv, Setup
<1>3. CASE SkipBlank
  <2>1. ~ Recorded(line_number) /\ ~ Unknown(line_number)
    BY <1>1, <1>3 DEF SkipBlank, Recorded, Unknown
  <2>2. /\ Due /\ NextLine /\ tally' = tally
        /\ UNCHANGED <<parser, artifact, args, now, evidence, warnings>>
    BY <1>3 DEF SkipBlank
  <2>3. /\ DOMAIN tally' = {"lines_total", "matched", "unrecognized", "undated"}
        /\ tally'.unrecognized = tally.unrecognized + (IF Unknown(line_number) THEN 1 ELSE 0)
    BY <1>2, <2>1, <2>2 DEF LogInv, Setup
  <2> QED BY <2>1, <2>2, <2>3, LineIsPassed
<1>4. CASE Unrecognized
  <2>1. ~ Recorded(line_number) /\ Unknown(line_number)
    BY <1>1, <1>4 DEF Unrecognized, Recorded, Unknown
  <2>2. /\ Due /\ NextLine /\ UNCHANGED <<parser, artifact, args, now, evidence, warnings>>
    BY <1>4 DEF Unrecognized
  <2>3. PICK counters : Count(counters) /\ "unrecognized" \in counters
    BY <1>4 DEF Unrecognized
  <2>4. /\ DOMAIN tally' = {"lines_total", "matched", "unrecognized", "undated"}
        /\ tally'.unrecognized = tally.unrecognized + (IF Unknown(line_number) THEN 1 ELSE 0)
    BY <2>1, <2>3, CountCounts
  <2> QED BY <2>1, <2>2, <2>4, LineIsPassed
<1>5. CASE LeaveOut
  <2>1. ~ Recorded(line_number) /\ ~ Unknown(line_number)
    BY <1>1, <1>5 DEF LeaveOut, Recorded, Unknown
  <2>2. /\ Due /\ NextLine /\ UNCHANGED <<parser, artifact, args, now, evidence, warnings>>
    BY <1>5 DEF LeaveOut
  <2>3. PICK counters : Count(counters) /\ "unrecognized" \notin counters
    BY <1>5 DEF LeaveOut
  <2>4. /\ DOMAIN tally' = {"lines_total", "matched", "unrecognized", "undated"}
        /\ tally'.unrecognized = tally.unrecognized + (IF Unknown(line_number) THEN 1 ELSE 0)
    BY <1>2, <2>1, <2>3, CountCounts
  <2> QED BY <2>1, <2>2, <2>4, LineIsPassed
<1>6. CASE Record
  <2>1. Recorded(line_number)
    BY <1>1, <1>6 DEF Record, Recorded
  <2>2. /\ Due /\ NextLine /\ UNCHANGED <<parser, artifact, args, now, warnings>>
        /\ evidence' = Append(evidence, Draft(Line))
    BY <1>6 DEF Record
  <2>3. PICK counters : Count(counters) /\ "unrecognized" \notin counters
    <3>1. Count({"lines_total", "matched"} \union
                (IF parser = "auth" /\ Draft(Line).dated.time = None THEN {"undated"} ELSE {}))
      BY <1>6 DEF Record
    <3> QED BY <3>1
  <2>4. /\ DOMAIN tally' = {"lines_total", "matched", "unrecognized", "undated"}
        /\ tally'.unrecognized = tally.unrecognized
    BY <2>3, CountCounts
  <2> QED BY <2>1, <2>2, <2>4, LineIsRecorded
<1>7. CASE Return
  BY <1>7, ResultIsReturned DEF Return, Warnings
<1>8. CASE UNCHANGED vars
  BY <1>8, ResultIsReturned DEF vars
<1> QED BY <1>3, <1>4, <1>5, <1>6, <1>7, <1>8 DEF Next

(* The observations of a log are its lines that are to be recorded, one each and dated
   by what they show, and the rest is counted: the inductive invariant of the loop. *)
THEOREM LogsAreRead == Spec => []LogInv
BY LogStarts, LogSteps, PTL DEF Spec

(* Whatever a log holds and whichever year the clock shows, an instant called exact is
   the one the line was written at, and a stamp without a year is dated to its own
   instant wherever the clock can tell it. *)
THEOREM StampsAreTrue == Spec => []StampsAreDated
<1>1. LogInv => StampsAreDated
  <2> SUFFICES ASSUME LogInv, NEW k \in DOMAIN evidence
               PROVE  LET line == LineOf(evidence[k])
                          dated == evidence[k].dated
                          at == WrittenAt(line)
                      IN  Built(line.stamp) # None =>
                          /\ /\ dated.confidence = "exact" /\ line.english
                             /\ args.year_hint = None
                             => dated.time = at
                          /\ /\ line.form = "bsd" /\ line.english /\ line.offset = 0
                             /\ parser = "auth" => args.year_hint = None
                             /\ line.stamp.y <= now.y
                             /\ IF parser = "auth"
                                THEN at > Instant(now) - 364 * Day /\ at <= Instant(now) + Day
                                ELSE line.stamp.y = now.y
                             => dated.time = at
    BY DEF StampsAreDated
  <2>1. /\ artifact \in Artifacts /\ args \in Options /\ now \in Stamp
        /\ parser \in {"auth", "web"}
    BY LogParsingAssumption DEF LogInv, Setup, LogParsingAssumption
  <2>2. /\ evidence[k].line_number \in 1..Total
        /\ evidence[k].dated = Resolve(LineOf(evidence[k]))
    BY DEF LogInv, LinesInv
  <2>3. LineOf(evidence[k]).stamp \in Stamp /\ LineOf(evidence[k]).offset \in Int
    BY <2>1, <2>2, LinesThere DEF LineOf
  <2>4. Dated(LineOf(evidence[k]))
    BY <2>1, <2>3, LinesAreDated
  <2> QED BY <2>2, <2>4 DEF Dated
<1> QED BY <1>1, LogsAreRead, PTL

(* Every line that is not blank is one observation, or the result says that lines were
   not recognised or not read, or it was filtered on request: for logs of any length
   and any limit. *)
THEOREM LinesAreKept == Spec => []NoLineIsLost
<1>1. LogInv => NoLineIsLost
  <2> SUFFICES ASSUME LogInv, warnings # None PROVE NoLineIsLost
    BY DEF NoLineIsLost
  <2> DEFINE lines == artifact.lines
             seen == {evidence[k].line_number : k \in DOMAIN evidence}
             said == {k \in DOMAIN lines : ~Blank(lines[k])}
             filtered == {k \in said : Filtered(lines[k]) /\ Recognised(lines[k])}
  <2>1. /\ Total \in Nat /\ DOMAIN lines = 1..Total /\ Len(lines) = Total
        /\ args.max_lines \in Nat /\ line_number \in 1..(Total + 1)
        /\ line_number <= args.max_lines + 1
        /\ tally.unrecognized \in Nat
    BY LinesThere DEF LogInv, Setup, Total
  <2>2. warnings = Warnings /\ (Ended \/ Unread)
    BY DEF LogInv
  <2>3. /\ seen = {k \in LinesRead : Recorded(k)}
        /\ Len(evidence) = Cardinality({k \in LinesRead : Recorded(k)})
        /\ tally.unrecognized = Cardinality({k \in LinesRead : Unknown(k)})
    BY DEF LogInv, LinesInv
  <2>4. /\ "truncated" \in warnings <=> ~ Ended
        /\ "unrecognized" \in warnings <=> tally.unrecognized # 0
    BY <2>2 DEF Warnings
  <2>5. "truncated" \in warnings <=> Len(lines) > args.max_lines
    BY <2>1, <2>2, <2>4 DEF Ended, Unread, Total
  <2>6. ASSUME Ended
        PROVE  /\ seen = {k \in said : Recorded(k)}
               /\ {k \in LinesRead : Unknown(k)} = said \ (seen \union filtered)
    <3>1. LinesRead = 1..Total
      BY <2>1, <2>6 DEF Ended, LinesRead, Total
    <3>2. seen = {k \in said : Recorded(k)}
      BY <2>1, <2>3, <3>1 DEF Recorded
    <3>3. {k \in LinesRead : Unknown(k)} = {k \in said : ~ Recognised(lines[k])}
      BY <2>1, <3>1 DEF Unknown
    <3>4. {k \in said : ~ Recognised(lines[k])} = said \ (seen \union filtered)
      BY <3>2 DEF Recorded
    <3> QED BY <3>2, <3>3, <3>4
  <2>7. ASSUME warnings \intersect {"unrecognized", "truncated"} = {}
        PROVE  seen = said \ filtered
    <3>1. Ended /\ tally.unrecognized = 0
      BY <2>4, <2>7
    <3>2. {k \in LinesRead : Unknown(k)} = {}
      <4>1. IsFiniteSet(LinesRead)
        BY <2>1, FS_Interval DEF LinesRead
      <4>2. {k \in LinesRead : Unknown(k)} \in SUBSET LinesRead
        OBVIOUS
      <4>3. IsFiniteSet({k \in LinesRead : Unknown(k)})
        BY <4>1, <4>2, FS_Subset
      <4> QED BY <2>3, <3>1, <4>3, FS_EmptySet
    <3>3. seen = {k \in said : Recorded(k)} /\ said \ (seen \union filtered) = {}
      BY <2>6, <3>1, <3>2
    <3>4. \A k \in said : Recorded(k) => k \notin filtered
      BY DEF Recorded
    <3>5. filtered \subseteq said
      OBVIOUS
    <3> HIDE DEF seen, said, filtered
    <3> QED BY <3>3, <3>4, <3>5
  <2>8. "truncated" \notin warnings =>
           tally.unrecognized = Cardinality(said \ (seen \union filtered))
    BY <2>3, <2>4, <2>6
  <2>9. Cardinality(seen) = Len(evidence)
    BY <2>3
  <2> QED BY <2>5, <2>7, <2>8, <2>9 DEF NoLineIsLost
<1> QED BY <1>1, LogsAreRead, PTL
=============================================================================
