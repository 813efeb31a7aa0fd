------------------------- MODULE TemporalArithmetic -------------------------
(***************************************************************************)
(* Dates, timestamps and intervals as text of SQLite.                      *)
(*                                                                         *)
(* PostgreSQL has types for them; SQLite has text, a handful of functions  *)
(* and modifiers applied from left to right.  The translator resolves the  *)
(* type of an operand from the way it is written, rewrites the shapes      *)
(* SQLite can express and refuses the others; literals are normalised to   *)
(* the one text the server would print; intervals are decoded into months  *)
(* and a length of time.  The module evaluates the source and the emitted  *)
(* form side by side, and the emitted form translated back.                *)
(*                                                                         *)
(* A day has DayTicks ticks and a second SecondTicks, so that a clock may  *)
(* show a fraction of a second; nothing is finer than the three places     *)
(* SQLite prints.  The session's time zone is UTC.                         *)
(***************************************************************************)
EXTENDS Integers, Sequences, SequencesExt

CONSTANTS
    DayTicks,      \* ticks of a day
    SecondTicks,   \* ticks of a second
    Temporals,     \* temporal expressions to translate
    DateLiterals,  \* [year, month, day, tick, offset, zoned]
    IntervalTexts  \* sequences of tokens

ASSUME DayTicksAssumption == DayTicks \in Nat /\ DayTicks % 24 = 0 /\ DayTicks > 0
ASSUME SecondTicksAssumption == SecondTicks \in Nat \ {0} /\ (DayTicks \div 24) % SecondTicks = 0

VARIABLE temporal  \* [what, input]

NoTemporal == [what |-> "idle"]
Hour == DayTicks \div 24

----------------------------------------------------------------------------
(* The calendar (external)                                                 *)

Leap(y) == y % 4 = 0 /\ (y % 100 # 0 \/ y % 400 = 0)
MonthDays(y, m) == IF m = 2 THEN IF Leap(y) THEN 29 ELSE 28
                   ELSE IF m \in {4, 6, 9, 11} THEN 30 ELSE 31
DaysBefore(m) == <<0, 31, 59, 90, 120, 151, 181, 212, 243, 273, 304, 334>>[m]

\* The number of a day; day 1 is 0001-01-01, a Monday.
DayNumber(y, m, d) ==
    365 * (y - 1) + (y - 1) \div 4 - (y - 1) \div 100 + (y - 1) \div 400
        + DaysBefore(m) + (IF m > 2 /\ Leap(y) THEN 1 ELSE 0) + d

\* The date of a day number.
Civil(n) ==
    LET y == CHOOSE y \in (n \div 366 - 1)..(n \div 365 + 1) :
                 y > 0 /\ DayNumber(y, 1, 1) <= n /\ n < DayNumber(y + 1, 1, 1)
        m == CHOOSE m \in 1..12 : DayNumber(y, m, 1) <= n /\ n < DayNumber(y, m, 1) + MonthDays(y, m)
    IN  [year |-> y, month |-> m, day |-> n - DayNumber(y, m, 1) + 1]

\* A point in time is a number of ticks; its day and its clock.
Instant(y, m, d, tick) == DayNumber(y, m, d) * DayTicks + tick
DayOf(t) == t \div DayTicks
ClockOf(t) == t % DayTicks
WholeSecond(t) == t - (t % SecondTicks)
DateOf(t) == Civil(DayOf(t))

\* The same clock some months later: the day stays, past the end of the month
\* it counts on (SQLite) or is the last one (PostgreSQL).
MonthsLater(t, months) ==
    LET c == DateOf(t)
        k == c.year * 12 + c.month - 1 + months
    IN  [year |-> k \div 12, month |-> (k % 12) + 1, day |-> c.day]
RollMonths(t, months) ==
    LET c == MonthsLater(t, months)
    IN  (DayNumber(c.year, c.month, 1) + c.day - 1) * DayTicks + ClockOf(t)
ClampMonths(t, months) ==
    LET c == MonthsLater(t, months)
        last == MonthDays(c.year, c.month)
    IN  Instant(c.year, c.month, IF c.day > last THEN last ELSE c.day, ClockOf(t))

----------------------------------------------------------------------------
(* Counts of an interval                                                   *)

TowardsZero(n, d) == IF n >= 0 THEN n \div d ELSE -((-n) \div d)

\* A written count is n / d.
Written(n, d, unit) == [n |-> n, d |-> d, unit |-> unit]

\* unit_scale and literal_unit_scale: what one of a unit counts.
UnitScale(unit) ==
    CASE unit = "year" -> [field |-> "months", per |-> 12]
      [] unit = "decade" -> [field |-> "months", per |-> 120]
      [] unit = "month" -> [field |-> "month", per |-> 1]
      [] unit = "week" -> [field |-> "days", per |-> 7]
      [] unit = "day" -> [field |-> "days", per |-> 1]
      [] unit = "hour" -> [field |-> "ticks", per |-> Hour]
      [] unit = "second" -> [field |-> "ticks", per |-> SecondTicks]

\* rounding_div: half away from zero.
RoundingDiv(n, d) ==
    IF n >= 0 THEN TowardsZero(n + d \div 2, d) ELSE TowardsZero(n - d \div 2, d)

ZeroFields == [months |-> 0, days |-> 0, ticks |-> 0]

\* LiteralFields::add: years and above round to months, a fraction of a month
\* spills into days of which there are thirty, one of a day into the clock.
AddCount(f, c) ==
    LET s == UnitScale(c.unit)
        whole == TowardsZero(c.n * s.per, c.d)
        rest == c.n * s.per - whole * c.d
        spill == TowardsZero(rest * 30 * DayTicks, c.d)
    IN  CASE s.field = "months" -> [f EXCEPT !.months = @ + RoundingDiv(c.n * s.per, c.d)]
          [] s.field = "month" -> [f EXCEPT !.months = @ + whole,
                                            !.days = @ + TowardsZero(spill, DayTicks),
                                            !.ticks = @ + spill - DayTicks * TowardsZero(spill, DayTicks)]
          [] s.field = "days" -> [f EXCEPT !.days = @ + whole,
                                           !.ticks = @ + TowardsZero(rest * DayTicks, c.d)]
          [] s.field = "ticks" -> [f EXCEPT !.ticks = @ + whole]

Times(f, k) == [months |-> f.months * k, days |-> f.days * k, ticks |-> f.ticks * k]

\* IntervalFields: the counts of the pairs, days folded into the clock, scaled
\* and negated.
IntervalFields(pairs, factor, negate) ==
    LET f == FoldLeft(AddCount, ZeroFields, pairs)
        k == IF negate THEN -factor ELSE factor
    IN  [months |-> f.months * k, ticks |-> (f.days * DayTicks + f.ticks) * k]

\* Fault: the days are added before the day of the month is clamped.
ModifiersClampLast(f) ==
    <<[mod |-> "months", by |-> f.months], [mod |-> "ticks", by |-> f.ticks],
      [mod |-> "floor", by |-> 0], [mod |-> "subsec", by |-> 0]>>

\* IntervalFields::modifiers: months, the clamp, and then the length of time.
Modifiers(f) ==
    (IF f.months # 0 THEN <<[mod |-> "months", by |-> f.months], [mod |-> "floor", by |-> 0]>>
                     ELSE <<>>)
        \o (IF f.ticks # 0 THEN <<[mod |-> "ticks", by |-> f.ticks]>> ELSE <<>>)
        \o <<[mod |-> "subsec", by |-> 0]>>

----------------------------------------------------------------------------
(* Source expressions                                                      *)

Moment(kind, y, m, d, tick) == [op |-> "value", kind |-> kind, at |-> Instant(y, m, d, tick)]
PlusInterval(e, pairs, factor, sign) ==
    [op |-> "shift", arg |-> e, pairs |-> pairs, factor |-> factor, sign |-> sign]
PlusDays(e, n, sign) == [op |-> "days", arg |-> e, n |-> n, sign |-> sign]
DateMinus(l, r) == [op |-> "minus", left |-> l, right |-> r]
EpochOf(l, r) == [op |-> "epoch", left |-> l, right |-> r]
Earlier(l, r) == [op |-> "less", left |-> l, right |-> r]
AtZone(e, offset) == [op |-> "zone", arg |-> e, offset |-> offset]
DateTrunc(e, field) == [op |-> "trunc", arg |-> e, field |-> field]

(* What the server answers (external): a kind and a number.                *)

Result(kind, at) == [kind |-> kind, at |-> at]
PostgresError == Result("error", 0)

\* Half a month goes to the even one.
HalfEven(n, d) ==
    LET q == n \div d IN IF 2 * (n % d) < d THEN q
                         ELSE IF 2 * (n % d) > d THEN q + 1 ELSE q + (q % 2)
PostgresFields(pairs) ==
    FoldLeft(LAMBDA f, c :
                LET s == UnitScale(c.unit)
                IN  IF s.field # "months" THEN AddCount(f, c)
                    ELSE LET years == TowardsZero(c.n, c.d)
                         IN  [f EXCEPT !.months = @ + years * s.per
                                                    + HalfEven((c.n - years * c.d) * s.per, c.d)],
             ZeroFields, pairs)

PostgresTrunc(t, field) ==
    LET c == DateOf(t)
        First(y, m) == Instant(y, m, 1, 0)
    IN  CASE field = "second" -> WholeSecond(t)
          [] field = "day" -> t - ClockOf(t)
          [] field = "hour" -> t - (ClockOf(t) % Hour)
          [] field = "week" -> (DayOf(t) - ((DayOf(t) - 1) % 7)) * DayTicks
          [] field = "month" -> First(c.year, c.month)
          [] field = "quarter" -> First(c.year, CHOOSE m \in {1, 4, 7, 10} : m \in (c.month - 2)..c.month)
          [] field = "year" -> First(c.year, 1)
          [] field = "decade" -> First(c.year - (c.year % 10), 1)
          [] field = "century" -> First(CHOOSE y \in (c.year - 99)..c.year : y % 100 = 1, 1)

RECURSIVE Postgres(_)
Postgres(e) ==
    CASE e.op = "value" -> Result(e.kind, e.at)
      [] e.op = "shift" ->
             LET v == Postgres(e.arg)
                 f == Times(PostgresFields(e.pairs), e.factor * e.sign)
             IN  IF v.kind \notin {"date", "stamp", "zoned"} THEN PostgresError
                 ELSE Result(IF v.kind = "date" THEN "stamp" ELSE v.kind,
                             ClampMonths(v.at, f.months) + f.days * DayTicks + f.ticks)
      [] e.op = "days" -> LET v == Postgres(e.arg)
                          IN  IF v.kind = "date" THEN Result("date", v.at + e.sign * e.n * DayTicks)
                              ELSE PostgresError
      [] e.op = "minus" -> LET l == Postgres(e.left)
                               r == Postgres(e.right)
                           IN  IF l.kind = "date" /\ r.kind = "date"
                               THEN Result("number", DayOf(l.at) - DayOf(r.at)) ELSE PostgresError
      [] e.op = "epoch" -> LET l == Postgres(e.left)
                               r == Postgres(e.right)
                           IN  IF {l.kind, r.kind} \subseteq {"stamp", "zoned", "date"}
                                  /\ {l.kind, r.kind} # {"date"}
                               THEN Result("number", l.at - r.at) ELSE PostgresError
      [] e.op = "less" -> Result("number", IF Postgres(e.left).at < Postgres(e.right).at THEN 1 ELSE 0)
      \* The offset is that of a POSIX zone: west is positive.
      [] e.op = "zone" -> LET v == Postgres(e.arg)
                          IN  IF v.kind = "stamp" THEN Result("zoned", v.at + e.offset)
                              ELSE Result("stamp", v.at - e.offset)
      [] e.op = "trunc" -> LET v == Postgres(e.arg)
                           IN  Result(IF v.kind = "date" THEN "zoned" ELSE v.kind, PostgresTrunc(v.at, e.field))

----------------------------------------------------------------------------
(* The translation: SQLite expressions                                     *)

NotEmitted == [op |-> "refused"]
SqlText(kind, at) == [op |-> "text", kind |-> kind, at |-> at]
Datetime(x, mods) == [op |-> "datetime", arg |-> x, mods |-> mods]
JulianDate(x, n) == [op |-> "date", arg |-> x, n |-> n]
JulianDifference(x, y) == [op |-> "julian", left |-> x, right |-> y]
EpochDifference(x, y) == [op |-> "seconds", left |-> x, right |-> y]
TextLess(x, y) == [op |-> "compare", left |-> x, right |-> y]
ByOffset(by) == <<[mod |-> "offset", by |-> by]>>

RECURSIVE TemporalKind(_)
\* temporal_kind and binary_result_kind: a call of date_trunc has none.
TemporalKind(e) ==
    CASE e.op = "value" -> IF e.kind = "date" THEN "date" ELSE "timestamp"
      [] e.op = "zone" -> "timestamp"
      [] e.op = "shift" -> IF TemporalKind(e.arg) = "none" \/ e.factor # 1 THEN "none" ELSE "timestamp"
      [] e.op = "days" -> IF TemporalKind(e.arg) = "date" THEN "date" ELSE "none"
      [] OTHER -> "none"

RECURSIVE Awareness(_)
\* timestamp_awareness
Awareness(e) ==
    CASE e.op = "value" -> IF e.kind = "zoned" THEN "aware" ELSE "naive"
      [] e.op = "zone" -> CASE Awareness(e.arg) = "aware" -> "naive"
                            [] Awareness(e.arg) = "naive" -> "aware"
                            [] OTHER -> "none"
      [] OTHER -> "none"

\* translate_at_time_zone, its last step: away from UTC what has a zone,
\* towards it what has none.
ZoneModifier(awareness, offset) == IF awareness = "aware" THEN -offset ELSE offset

Over(x, form) == IF x = NotEmitted THEN NotEmitted ELSE form
OverBoth(x, y, form) == IF NotEmitted \in {x, y} THEN NotEmitted ELSE form

\* build_date_trunc_*_call: modifiers, and a floored year for the long ones.
TruncModifiers(field) ==
    CASE field = "week" -> <<[mod |-> "ticks", by |-> -6 * DayTicks], [mod |-> "weekday", by |-> 1],
                             [mod |-> "start of day", by |-> 0]>>
      [] field = "quarter" -> <<[mod |-> "start of quarter", by |-> 0]>>
      [] field = "decade" -> <<[mod |-> "year span", by |-> 10]>>
      [] field = "century" -> <<[mod |-> "year span", by |-> 100]>>
      [] OTHER -> <<[mod |-> field, by |-> 0]>>

RECURSIVE Emission(_)
\* INTERVAL arithmetic comes first and asks for no type.
EmitShift(e) ==
    LET x == Emission(e.arg)
    IN  Over(x, Datetime(x, Modifiers(IntervalFields(e.pairs, e.factor, e.sign = -1))))

\* translate_temporal_binary_op with shift_date
EmitDays(e) ==
    LET x == Emission(e.arg)
    IN  IF TemporalKind(e.arg) = "date" THEN Over(x, JulianDate(x, e.sign * e.n)) ELSE NotEmitted

\* day_difference
EmitDifference(e) ==
    LET x == Emission(e.left)
        y == Emission(e.right)
    IN  IF TemporalKind(e.left) = "date" /\ TemporalKind(e.right) = "date"
        THEN OverBoth(x, y, JulianDifference(x, y)) ELSE NotEmitted

\* epoch_of_temporal_difference
EmitEpoch(e) ==
    LET x == Emission(e.left)
        y == Emission(e.right)
    IN  IF "none" \in {TemporalKind(e.left), TemporalKind(e.right)}
           \/ {TemporalKind(e.left), TemporalKind(e.right)} = {"date"}
        THEN NotEmitted ELSE OverBoth(x, y, EpochDifference(x, y))

\* A DATE beside a timestamp is promoted to midnight.
EmitComparison(e) ==
    LET Side(a, b) ==
            IF TemporalKind(a) = "date" /\ TemporalKind(b) = "timestamp"
            THEN Over(Emission(a), Datetime(Emission(a), TruncModifiers("day"))) ELSE Emission(a)
    IN  OverBoth(Side(e.left, e.right), Side(e.right, e.left),
                 TextLess(Side(e.left, e.right), Side(e.right, e.left)))

\* translate_at_time_zone: UTC needs no type; every other offset does.
EmitZone(e) ==
    LET x == Emission(e.arg)
    IN  IF e.offset = 0 THEN Over(x, Datetime(x, <<>>))
        ELSE IF Awareness(e.arg) = "none" THEN NotEmitted
        ELSE Over(x, Datetime(x, ByOffset(ZoneModifier(Awareness(e.arg), e.offset))))

Emission(e) ==
    CASE e.op = "value" -> SqlText(e.kind, e.at)
      [] e.op = "shift" -> EmitShift(e)
      [] e.op = "days" -> EmitDays(e)
      [] e.op = "minus" -> EmitDifference(e)
      [] e.op = "epoch" -> EmitEpoch(e)
      [] e.op = "less" -> EmitComparison(e)
      [] e.op = "zone" -> EmitZone(e)
      [] e.op = "trunc" -> LET x == Emission(e.arg) IN Over(x, Datetime(x, TruncModifiers(e.field)))

----------------------------------------------------------------------------
(* What SQLite answers (external)                                          *)

\* One modifier; excess is what the last months modifier counted past the end
\* of a month, which the next shift forgets. The text shows a fraction of a
\* second under 'subsec' only.
Modify(s, m) ==
    CASE m.mod = "months" -> [s EXCEPT !.at = RollMonths(@, m.by),
                                       !.excess = RollMonths(s.at, m.by) - ClampMonths(s.at, m.by)]
      [] m.mod = "subsec" -> [s EXCEPT !.subsec = TRUE]
      [] m.mod = "floor" -> [s EXCEPT !.at = @ - s.excess]
      [] m.mod \in {"ticks", "offset"} -> [s EXCEPT !.at = @ + m.by, !.excess = 0]
      [] m.mod = "second" -> [s EXCEPT !.at = WholeSecond(@)]
      [] m.mod = "weekday" -> [s EXCEPT !.at = @ + ((m.by - DayOf(@)) % 7) * DayTicks]
      [] m.mod \in {"start of day", "day"} -> [s EXCEPT !.at = @ - ClockOf(@)]
      [] m.mod = "hour" -> [s EXCEPT !.at = @ - (ClockOf(@) % Hour)]
      [] m.mod = "month" -> [s EXCEPT !.at = Instant(DateOf(@).year, DateOf(@).month, 1, 0)]
      [] m.mod = "year" -> [s EXCEPT !.at = Instant(DateOf(@).year, 1, 1, 0)]
      [] m.mod = "start of quarter" ->
             [s EXCEPT !.at = RollMonths(Instant(DateOf(@).year, 1, 1, 0), ((DateOf(@).month - 1) \div 3) * 3)]
      [] m.mod = "year span" ->
             LET from == IF m.by = 10 THEN 0 ELSE 1
             IN  [s EXCEPT !.at = Instant(((DateOf(@).year - from) \div m.by) * m.by + from, 1, 1, 0)]

DatetimeText(at, mods) ==
    LET s == FoldLeft(Modify, [at |-> at, excess |-> 0, subsec |-> FALSE], mods)
    IN  IF s.subsec THEN s.at ELSE WholeSecond(s.at)

RECURSIVE Sqlite(_)
Sqlite(x) ==
    CASE x.op = "text" -> Result(x.kind, x.at)
      [] x.op = "datetime" -> Result("stamp", DatetimeText(Sqlite(x.arg).at, x.mods))
      [] x.op = "date" -> Result("date", (DayOf(Sqlite(x.arg).at) + x.n) * DayTicks)
      [] x.op = "julian" -> Result("number", DayOf(Sqlite(x.left).at) - DayOf(Sqlite(x.right).at))
      [] x.op = "seconds" -> Result("number", Sqlite(x.left).at - Sqlite(x.right).at)
      \* Of two texts the date is the shorter, and less at the same time.
      [] x.op = "compare" ->
             LET l == Sqlite(x.left)
                 r == Sqlite(x.right)
             IN  Result("number", IF l.at < r.at \/ (l.at = r.at /\ l.kind = "date" /\ r.kind # "date")
                                  THEN 1 ELSE 0)

----------------------------------------------------------------------------
(* The way back                                                            *)

\* Fault: the sign of an emitted offset is kept.
ZoneForModifierKept(e, offset) == offset

\* at_time_zone_for_modifier
ZoneForModifier(e, offset) == IF Awareness(e) = "aware" THEN -offset ELSE offset

RECURSIVE ReverseTemporal(_)
\* reverse_temporal_arithmetic and at_time_zone_for_modifier; a datetime call
\* with other modifiers is not one of theirs.
ReverseTemporal(x) ==
    CASE x.op = "text" -> [op |-> "value", kind |-> x.kind, at |-> x.at]
      [] x.op = "date" -> LET e == ReverseTemporal(x.arg)
                          IN  Over(e, PlusDays(e, IF x.n < 0 THEN -x.n ELSE x.n, IF x.n < 0 THEN -1 ELSE 1))
      [] x.op = "julian" -> LET l == ReverseTemporal(x.left)
                                r == ReverseTemporal(x.right)
                            IN  OverBoth(l, r, DateMinus(l, r))
      [] x.op = "seconds" -> LET l == ReverseTemporal(x.left)
                                 r == ReverseTemporal(x.right)
                             IN  OverBoth(l, r, EpochOf(l, r))
      [] x.op = "datetime" /\ x.mods = <<>> ->
             LET e == ReverseTemporal(x.arg) IN IF e # NotEmitted /\ Awareness(e) # "none" THEN AtZone(e, 0) ELSE NotEmitted
      [] x.op = "datetime" /\ Len(x.mods) = 1 /\ x.mods[1].mod = "offset" ->
             LET e == ReverseTemporal(x.arg)
             IN  IF e = NotEmitted THEN NotEmitted
                 ELSE IF Awareness(e) = "none" THEN NotEmitted
                 ELSE AtZone(e, ZoneForModifier(e, x.mods[1].by))
      [] OTHER -> NotEmitted

----------------------------------------------------------------------------
(* Literals                                                                *)

\* days_from_civil and civil_from_days: a year that begins in March, in eras
\* of four hundred.
DaysFromCivil(year, month, day) ==
    LET y == IF month <= 2 THEN year - 1 ELSE year
        era == y \div 400
        yearOfEra == y - era * 400
        dayOfYear == (153 * ((month + 9) % 12) + 2) \div 5 + day - 1
    IN  era * 146097 + yearOfEra * 365 + yearOfEra \div 4 - yearOfEra \div 100 + dayOfYear - 719468

CivilFromDays(days) ==
    LET n == days + 719468
        era == n \div 146097
        dayOfEra == n - era * 146097
        yearOfEra == (dayOfEra - dayOfEra \div 1460 + dayOfEra \div 36524 - dayOfEra \div 146096) \div 365
        dayOfYear == dayOfEra - (365 * yearOfEra + yearOfEra \div 4 - yearOfEra \div 100)
        march == (5 * dayOfYear + 2) \div 153
        month == IF march < 10 THEN march + 3 ELSE march - 9
    IN  [year |-> yearOfEra + era * 400 + (IF month <= 2 THEN 1 ELSE 0), month |-> month,
         day |-> dayOfYear - (153 * march + 2) \div 5 + 1]

NextDay(c) ==
    IF c.day < MonthDays(c.year, c.month) THEN [c EXCEPT !.day = @ + 1]
    ELSE IF c.month < 12 THEN [c EXCEPT !.month = @ + 1, !.day = 1]
    ELSE [year |-> c.year + 1, month |-> 1, day |-> 1]

DateFields(l) == [year |-> l.year, month |-> l.month, day |-> l.day]
Unreadable == [date |-> [year |-> 0, month |-> 0, day |-> 0], tick |-> 0]

\* parse_date and parse_time
Readable(l) ==
    /\ l.year \in 1..9999 /\ l.month \in 1..12 /\ l.day >= 1
    /\ l.day <= MonthDays(l.year, l.month) /\ l.tick <= DayTicks

\* canonical_instant: moved to UTC.
CanonicalInstant(l) ==
    LET at == DaysFromCivil(l.year, l.month, l.day) * DayTicks + l.tick - l.offset
        date == CivilFromDays(at \div DayTicks)
    IN  IF date.year \in 1..9999 THEN [date |-> date, tick |-> at % DayTicks] ELSE Unreadable

\* normalize_temporal_literal, for timestamps: 24:00 is the next midnight.
NormalizeTemporalLiteral(l) ==
    IF ~ Readable(l) THEN Unreadable
    ELSE IF l.zoned THEN CanonicalInstant(l)
    ELSE IF l.tick = DayTicks THEN [date |-> NextDay(DateFields(l)), tick |-> 0]
    ELSE [date |-> DateFields(l), tick |-> l.tick]

\* What the server reads (external).
LiteralAt(l) == Instant(l.year, l.month, l.day, l.tick) - (IF l.zoned THEN l.offset ELSE 0)

Number(n, d) == [token |-> "number", n |-> n, d |-> d, unit |-> "second"]
Word(unit) == [token |-> "word", n |-> 0, d |-> 1, unit |-> unit]
ClockToken(ticks) == [token |-> "clock", n |-> ticks, d |-> 1, unit |-> "second"]

\* parse_interval_fields: a count waits for its unit; before a clock reading it
\* counts days, at the end seconds.
ReadToken(s, t) ==
    LET waiting == s.pending # <<>>
        With(unit) == AddCount(s.fields, [s.pending[1] EXCEPT !.unit = unit])
    IN  CASE t.token = "number" -> [s EXCEPT !.pending = <<t>>, !.bad = @ \/ waiting]
          [] t.token = "word" /\ waiting -> [s EXCEPT !.fields = With(t.unit), !.pending = <<>>]
          [] t.token = "word" /\ ~ waiting -> [s EXCEPT !.bad = TRUE]
          [] t.token = "clock" ->
                 [s EXCEPT !.fields = [IF waiting THEN With("day") ELSE @ EXCEPT !.ticks = @ + t.n],
                           !.pending = <<>>]

ParseInterval(tokens) ==
    LET s == FoldLeft(ReadToken, [fields |-> ZeroFields, pending |-> <<>>, bad |-> FALSE], tokens)
    IN  IF s.pending = <<>> THEN s
        ELSE [s EXCEPT !.fields = AddCount(@, [s.pending[1] EXCEPT !.unit = "second"]), !.pending = <<>>]

\* to_postgres_text: years, months, days and the clock, none of them zero.
PrintInterval(f) ==
    LET Part(n, unit) == IF n = 0 THEN <<>> ELSE <<Number(n, 1), Word(unit)>>
        years == TowardsZero(f.months, 12)
        parts == Part(years, "year") \o Part(f.months - 12 * years, "month") \o Part(f.days, "day")
    IN  parts \o (IF f.ticks # 0 \/ parts = <<>> THEN <<ClockToken(f.ticks)>> ELSE <<>>)

\* What the server reads (external): each token by its neighbours.
UnitOf(tokens, i) ==
    IF i = Len(tokens) THEN "second"
    ELSE IF tokens[i + 1].token = "word" THEN tokens[i + 1].unit
    ELSE IF tokens[i + 1].token = "clock" THEN "day" ELSE "none"
PostgresReads(tokens) ==
    \A i \in DOMAIN tokens : /\ tokens[i].token = "number" => UnitOf(tokens, i) # "none"
                             /\ tokens[i].token = "word" => i > 1 /\ tokens[i - 1].token = "number"
Numbers(tokens) ==
    SelectSeq([i \in DOMAIN tokens |-> [tokens[i] EXCEPT !.unit = UnitOf(tokens, i)]],
              LAMBDA t : t.token = "number")
PostgresInterval(tokens) ==
    LET clocks == SelectSeq(tokens, LAMBDA t : t.token = "clock")
    IN  FoldLeft(LAMBDA f, t : [f EXCEPT !.ticks = @ + t.n], PostgresFields(Numbers(tokens)), clocks)

----------------------------------------------------------------------------
TemporalInit == temporal = NoTemporal

TranslateTemporal ==
    \/ \E e \in Temporals : temporal' = [what |-> "expression", input |-> e]
    \/ \E l \in DateLiterals : temporal' = [what |-> "literal", input |-> l]
    \/ \E t \in IntervalTexts : temporal' = [what |-> "interval", input |-> t]

\* No count lands half way between two months, where the server goes to the
\* even one and rounding_div away from zero.
NoHalfMonth(pairs) ==
    \A i \in DOMAIN pairs :
        UnitScale(pairs[i].unit).field = "months"
        => (2 * pairs[i].n * UnitScale(pairs[i].unit).per) % (2 * pairs[i].d) # pairs[i].d

RECURSIVE Supported(_)
\* Without: a zone applied to a date, which the server first makes an instant;
\* a date compared with what has no resolved type, or with text of a zone.
Supported(e) ==
    CASE e.op = "value" -> TRUE
      [] e.op = "shift" -> Supported(e.arg) /\ NoHalfMonth(e.pairs)
      [] e.op = "zone" -> Supported(e.arg) /\ Postgres(e.arg).kind # "date"
      [] e.op = "less" ->
             /\ Supported(e.left) /\ Supported(e.right)
             /\ {Postgres(e.left).kind, Postgres(e.right).kind} \subseteq {"date", "stamp"}
             /\ "none" \notin {TemporalKind(e.left), TemporalKind(e.right)}
      [] e.op \in {"minus", "epoch"} -> Supported(e.left) /\ Supported(e.right)
      [] OTHER -> Supported(e.arg)

\* Both are a moment with a clock, a day, or a number, and the same one.
Agrees(a, b) ==
    a.at = b.at /\ (a.kind = b.kind \/ {a.kind, b.kind} \subseteq {"stamp", "zoned"})

Translated ==
    /\ temporal.what = "expression"
    /\ Supported(temporal.input)
    /\ Emission(temporal.input) # NotEmitted
    /\ Postgres(temporal.input) # PostgresError

RECURSIVE ZonesDropFractions(_)
\* The expression with the fraction of a second cut off after each AT TIME ZONE,
\* whose datetime() has no 'subsec'.
ZonesDropFractions(e) ==
    CASE e.op = "value" -> e
      [] e.op = "zone" -> DateTrunc([e EXCEPT !.arg = ZonesDropFractions(@)], "second")
      [] e.op \in {"minus", "epoch", "less"} ->
             [e EXCEPT !.left = ZonesDropFractions(@), !.right = ZonesDropFractions(@)]
      [] OTHER -> [e EXCEPT !.arg = ZonesDropFractions(@)]

\* A temporal expression that is not refused is, on the replica, the moment, the
\* day or the number the server answers to it, to the fraction of a second:
\* shifts over the end of a month, days, differences, zones, truncations and
\* comparisons. Only AT TIME ZONE drops the fraction.
TemporalExpressionsAgree ==
    Translated => Agrees(Sqlite(Emission(temporal.input)), Postgres(ZonesDropFractions(temporal.input)))

\* A literal is stored as the text of the moment the server reads in it, and
\* one interval is stored as one text, which reads as that interval.
TemporalLiteralsAgree ==
    /\ temporal.what = "literal" =>
           LET l == temporal.input
               text == NormalizeTemporalLiteral(l)
           IN  text # Unreadable =>
               Instant(text.date.year, text.date.month, text.date.day, text.tick) = LiteralAt(l)
    /\ temporal.what = "interval" =>
           LET s == ParseInterval(temporal.input)
           IN  /\ s.bad = ~ PostgresReads(temporal.input)
               /\ ~ s.bad /\ NoHalfMonth(Numbers(temporal.input)) => /\ s.fields = PostgresInterval(temporal.input)
                             /\ ParseInterval(PrintInterval(s.fields)).fields = s.fields

\* What the replica computes and what it stores are what the server computes
\* and reads (temporal_arithmetic.rs, temporal_literals.rs, interval.rs).
TemporalsAgree == TemporalExpressionsAgree /\ TemporalLiteralsAgree

\* Translated back, the emitted form asks the server the same question.
TemporalReversalAgrees ==
    Translated => LET e == ReverseTemporal(Emission(temporal.input))
                  IN  e # NotEmitted => Agrees(Postgres(e), Postgres(temporal.input))
=============================================================================
