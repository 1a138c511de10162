---------------------------- MODULE CronNextRun ----------------------------
(***************************************************************************)
(* CalculateNextRun: the parser of cron expressions and the search for the *)
(* next minute that an expression accepts, which skips whole months, days  *)
(* and hours.                                                              *)
(*                                                                         *)
(* A moment is a day, an hour and a minute of local time, as a time.Time   *)
(* shows them.  The calendar is a parameter: the number of a day says in   *)
(* which month it lies, which day of the month and of the week it is, and  *)
(* on which day the next month begins.  Hours and minutes are counted from *)
(* zero, up to 24 and 60 in the code.  Seconds are left out: the search    *)
(* begins at the first full minute after from.                             *)
(***************************************************************************)
EXTENDS Integers

CONSTANTS
    Exprs,               \* expressions, as records of five parsed-out fields
    Starts,              \* values of from
    HoursPerDay, MinutesPerHour,
    Months, DaysPerMonth, DaysPerWeek,   \* 12, 31 and 7: the limits of the fields
    MonthOf(_), DayOfMonth(_), DayOfWeek(_), NextMonth(_),
    ZoneHour, ZoneMin,   \* the local time at which a day of UTC begins
    MaxIter,             \* 525600: "one year of minutes"
    LastDay              \* bound: the last day the search may come to

Moments == [day : 0..LastDay, hour : 0..(HoursPerDay - 1), min : 0..(MinutesPerHour - 1)]

ASSUME SizeAssumption ==
    /\ HoursPerDay \in Nat \ {0} /\ MinutesPerHour \in Nat \ {0}
    /\ Months \in Nat /\ DaysPerMonth \in Nat /\ DaysPerWeek \in Nat
    /\ MaxIter \in Nat /\ LastDay \in Nat
ASSUME CalendarAssumption ==
    \A d \in 0..LastDay :
        /\ NextMonth(d) \in Nat /\ NextMonth(d) > d
        /\ \A e \in d..(NextMonth(d) - 1) : MonthOf(e) = MonthOf(d)
        /\ MonthOf(d) \in 1..Months /\ DayOfMonth(d) \in 1..DaysPerMonth
        /\ DayOfWeek(d) \in 0..(DaysPerWeek - 1)
ASSUME ZoneAssumption ==
    ZoneHour \in 0..(HoursPerDay - 1) /\ ZoneMin \in 0..(MinutesPerHour - 1)
ASSUME StartsAssumption == Starts \subseteq Moments

VARIABLES
    expr,    \* the expression
    from,    \* the time it is asked for
    fields,  \* CronExpr: the accepted values of each field
    t, i,    \* the variables of the loop
    phase,   \* "parse", "search", "found", or "fallback"
    next     \* the time that is returned

vars == <<expr, from, fields, t, i, phase, next>>
-----------------------------------------------------------------------------
(* The parser.  A field is a "star" with a step, or a list of tokens:      *)
(* n, a-b, n/k, a-b/k and the star with a step inside a list; "junk" is    *)
(* whatever is not a number.                                               *)

TokenKinds == {"value", "range", "valueStep", "rangeStep", "starStep", "junk"}
Tokens == [kind : TokenKinds, lo : Int, hi : Int, step : Int]
Parts == [kind : {"star", "list"}, step : Int, items : SUBSET Tokens]

ASSUME ExprsAssumption ==
    Exprs \subseteq [minute : Parts, hour : Parts, dom : Parts, month : Parts, dow : Parts]

\* for i := a; i <= b; i += k
Every(a, b, k) == {n \in a..b : (n - a) % k = 0}

TokenValid(tok, min, max) ==
    /\ tok.kind # "junk"
    /\ tok.kind \in {"valueStep", "rangeStep", "starStep"} => tok.step > 0
    /\ tok.kind \in {"value", "valueStep"} => tok.lo \in min..max
    /\ tok.kind \in {"range", "rangeStep"} => tok.lo <= tok.hi /\ tok.lo >= min /\ tok.hi <= max

\* Slip: n/k counts from the first value of the field instead of from n.
TokenValues_FromMin(tok, min, max) ==
    CASE tok.kind = "value" -> {tok.lo}
      [] tok.kind = "range" -> tok.lo..tok.hi
      [] tok.kind \in {"valueStep", "starStep"} -> Every(min, max, tok.step)
      [] tok.kind = "rangeStep" -> Every(tok.lo, 0, tok.step)

\* In a-b/k the end of the range is assigned to a variable of the inner
\* block: the one the loop reads is still zero.
TokenValues(tok, min, max) ==
    CASE tok.kind = "value" -> {tok.lo}
      [] tok.kind = "range" -> tok.lo..tok.hi
      [] tok.kind = "starStep" -> Every(min, max, tok.step)
      [] tok.kind = "valueStep" -> Every(tok.lo, max, tok.step)
      [] tok.kind = "rangeStep" -> Every(tok.lo, 0, tok.step)

PartValid(part, min, max) ==
    IF part.kind = "star" THEN part.step > 0
    ELSE \A tok \in part.items : TokenValid(tok, min, max)

\* parsePart, for a part that is valid.
ParsePart(part, min, max) ==
    IF part.kind = "star" THEN Every(min, max, part.step)
    ELSE UNION {TokenValues(tok, min, max) : tok \in part.items}

ExprValid(e) ==
    /\ PartValid(e.minute, 0, MinutesPerHour - 1)
    /\ PartValid(e.hour, 0, HoursPerDay - 1)
    /\ PartValid(e.dom, 1, DaysPerMonth)
    /\ PartValid(e.month, 1, Months)
    /\ PartValid(e.dow, 0, DaysPerWeek - 1)

ParseCron(e) ==
    [minute |-> ParsePart(e.minute, 0, MinutesPerHour - 1),
     hour   |-> ParsePart(e.hour, 0, HoursPerDay - 1),
     dom    |-> ParsePart(e.dom, 1, DaysPerMonth),
     month  |-> ParsePart(e.month, 1, Months),
     dow    |-> ParsePart(e.dow, 0, DaysPerWeek - 1)]
-----------------------------------------------------------------------------
(* Arithmetic of time.Time.                                                *)

Before(a, b) ==
    \/ a.day < b.day
    \/ a.day = b.day /\ a.hour < b.hour
    \/ a.day = b.day /\ a.hour = b.hour /\ a.min < b.min

\* t.Add(time.Hour - minutes), to the full hour.
NextHour(x) ==
    IF x.hour + 1 < HoursPerDay
    THEN [day |-> x.day, hour |-> x.hour + 1, min |-> 0]
    ELSE [day |-> x.day + 1, hour |-> 0, min |-> 0]

\* t.Add(time.Minute).
AddMinute(x) == IF x.min + 1 < MinutesPerHour THEN [x EXCEPT !.min = @ + 1] ELSE NextHour(x)

AddHour(x) == [NextHour(x) EXCEPT !.min = x.min]

\* t.Truncate(24 * time.Hour) cuts at the beginning of a day of UTC.
TruncateDay(x) ==
    LET begun == x.hour > ZoneHour \/ (x.hour = ZoneHour /\ x.min >= ZoneMin)
    IN  [day |-> IF begun THEN x.day ELSE x.day - 1, hour |-> ZoneHour, min |-> ZoneMin]
-----------------------------------------------------------------------------
Init ==
    /\ expr \in Exprs
    /\ from \in Starts
    /\ fields = [minute |-> {}, hour |-> {}, dom |-> {}, month |-> {}, dow |-> {}]
    /\ t = from
    /\ i = 0
    /\ phase = "parse"
    /\ next = from

\* Slip: the search begins at the minute of from.
Parse_FromNow ==
    /\ phase = "parse" /\ ExprValid(expr)
    /\ fields' = ParseCron(expr)
    /\ t' = from
    /\ phase' = "search"
    /\ UNCHANGED <<expr, from, i, next>>

Parse ==
    /\ phase = "parse" /\ ExprValid(expr)
    /\ fields' = ParseCron(expr)
    /\ t' = AddMinute(from)
    /\ phase' = "search"
    /\ UNCHANGED <<expr, from, i, next>>

\* An expression with an error runs one hour from now.
ParseFails ==
    /\ phase = "parse" /\ ~ExprValid(expr)
    /\ phase' = "fallback"
    /\ next' = AddHour(from)
    /\ UNCHANGED <<expr, from, fields, t, i>>

\* One more round of the loop that sets t to u.
Round(u) ==
    /\ t' = u
    /\ i' = i + 1
    /\ UNCHANGED <<expr, from, fields, phase, next>>

Searching == phase = "search" /\ i < MaxIter /\ t.day <= LastDay

MonthFits == MonthOf(t.day) \in fields.month
DayFits == DayOfMonth(t.day) \in fields.dom /\ DayOfWeek(t.day) \in fields.dow

SkipMonth ==
    /\ Searching /\ ~MonthFits
    /\ Round(TruncateDay([t EXCEPT !.day = NextMonth(t.day)]))

SkipDay ==
    /\ Searching /\ MonthFits /\ ~DayFits
    /\ Round(TruncateDay([t EXCEPT !.day = @ + 1]))

\* Slip: one hour on, with the minutes of t.
SkipHour_KeepsMinutes ==
    /\ Searching /\ MonthFits /\ DayFits /\ t.hour \notin fields.hour
    /\ Round(AddHour(t))
SkipHour ==
    /\ Searching /\ MonthFits /\ DayFits /\ t.hour \notin fields.hour
    /\ Round(NextHour(t))

SkipMinute ==
    /\ Searching /\ MonthFits /\ DayFits /\ t.hour \in fields.hour
    /\ t.min \notin fields.minute
    /\ Round(AddMinute(t))

Found ==
    /\ Searching /\ MonthFits /\ DayFits /\ t.hour \in fields.hour
    /\ t.min \in fields.minute
    /\ phase' = "found"
    /\ next' = t
    /\ UNCHANGED <<expr, from, fields, t, i>>

\* Nothing matched; the slip allows one round for every month of a year.
GiveUp_Early ==
    /\ phase = "search" /\ i >= Months
    /\ phase' = "fallback"
    /\ next' = AddHour(from)
    /\ UNCHANGED <<expr, from, fields, t, i>>
GiveUp ==
    /\ phase = "search" /\ i >= MaxIter
    /\ phase' = "fallback"
    /\ next' = AddHour(from)
    /\ UNCHANGED <<expr, from, fields, t, i>>

Next ==
    \/ Parse \/ ParseFails
    \/ SkipMonth \/ SkipDay \/ SkipHour \/ SkipMinute
    \/ Found \/ GiveUp

Spec == Init /\ [][Next]_vars
-----------------------------------------------------------------------------
\* A moment every field of the parsed expression accepts.
Matches(u) ==
    /\ MonthOf(u.day) \in fields.month
    /\ DayOfMonth(u.day) \in fields.dom
    /\ DayOfWeek(u.day) \in fields.dow
    /\ u.hour \in fields.hour
    /\ u.min \in fields.minute

\* The next run lies after the moment it was asked for, whichever months, days
\* and hours were cut to their beginning on the way and whether it was found or
\* is the fallback: a job that has just run is not due at once again.
NextIsLater == phase \in {"found", "fallback"} => Before(from, next)

\* However months, days and hours are skipped, no moment that the expression
\* accepts lies between from and the moment the search has come to: the time
\* that is found is the first one.
NothingSkipped ==
    phase \in {"search", "found"}
    => \A u \in Moments : Before(from, u) /\ Before(u, t) => ~Matches(u)

\* What a field says, as cron defines it, whatever the parser makes of it.
TokenMeaning(tok, min, max) ==
    {n \in min..max :
        LET first == IF tok.kind = "starStep" THEN min ELSE tok.lo
            last == CASE tok.kind = "value" -> tok.lo
                      [] tok.kind \in {"range", "rangeStep"} -> tok.hi
                      [] OTHER -> max
            step == IF tok.kind \in {"value", "range"} THEN 1 ELSE tok.step
        IN  n >= first /\ n <= last /\ (n - first) % step = 0}
PartMeaning(part, min, max, n) ==
    IF part.kind = "star" THEN (n - min) % part.step = 0
    ELSE \E tok \in part.items : n \in TokenMeaning(tok, min, max)

\* The expression, as written, accepts this moment.  Cron runs a job when the day
\* of the month or the day of the week fits, if both are restricted; that both
\* must fit is taken from the code.
Accepts(u) ==
    /\ PartMeaning(expr.minute, 0, MinutesPerHour - 1, u.min)
    /\ PartMeaning(expr.hour, 0, HoursPerDay - 1, u.hour)
    /\ PartMeaning(expr.dom, 1, DaysPerMonth, DayOfMonth(u.day))
    /\ PartMeaning(expr.month, 1, Months, MonthOf(u.day))
    /\ PartMeaning(expr.dow, 0, DaysPerWeek - 1, DayOfWeek(u.day))

\* The time that is returned is one the expression, as written, accepts.
FoundIsAccepted == phase = "found" => Accepts(next)

\* Minutes since the beginning of day 0.
Minutes(x) == (x.day * HoursPerDay + x.hour) * MinutesPerHour + x.min

\* "Loop for up to one year of minutes": the search gives up on a valid
\* expression only when it accepts no minute of the year after from.
YearIsSearched ==
    (phase = "fallback" /\ ExprValid(expr))
    => \A u \in Moments :
          Before(from, u) /\ Minutes(u) <= Minutes(from) + MaxIter => ~Accepts(u)
=============================================================================
