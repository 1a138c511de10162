-------------------------- MODULE CronNextRunProofs --------------------------
(***************************************************************************)
(* Proofs about CronNextRun for every calendar, every length of days and   *)
(* hours and every expression: in any zone that the next run is later than *)
(* the time it is asked for and that what is found is accepted, and on a   *)
(* machine whose local time is UTC that the search finds the first time    *)
(* and covers a whole year.                                                *)
(***************************************************************************)
EXTENDS CronNextRun, TLAPS

\* Whole numbers have no remainder by one.
LEMMA NoRemainder == \A x \in Int : x % 1 = 0
  OBVIOUS

\* A larger leading digit makes a larger number, whatever the digit after it.
LEMMA DigitFacts ==
    ASSUME NEW a \in Nat, NEW b \in Nat, a < b, NEW k \in Nat, NEW x \in 0..(k - 1), NEW y \in Nat
    PROVE  a * k + x \in Nat /\ b * k + y \in Nat /\ a * k + x < b * k + y
<1>1. PICK c \in Nat : b = a + 1 + c
  <2>1. b - a - 1 \in Nat /\ b = a + 1 + (b - a - 1)
    OBVIOUS
  <2> QED
    BY <2>1
<1>2. b * k = a * k + k + c * k
  BY <1>1
<1>3. c * k \in Nat /\ a * k \in Nat
  OBVIOUS
<1> QED
  BY <1>2, <1>3

USE SizeAssumption, ZoneAssumption, StartsAssumption

\* The moments a search can come to: those of Moments and later ones.
AnyMoment == [day : Nat, hour : 0..(HoursPerDay - 1), min : 0..(MinutesPerHour - 1)]

Types ==
    /\ from \in Moments
    /\ t \in AnyMoment
    /\ i \in 0..MaxIter
    /\ phase \in {"parse", "search", "found", "fallback"}

\* Going to the next hour leads to a moment, and leaves out moments of the
\* same hour only.
LEMMA NextHourFacts ==
    \A x \in AnyMoment :
        /\ NextHour(x) \in AnyMoment
        /\ \A u \in AnyMoment : Before(u, NextHour(x)) /\ ~Before(u, x)
                                => u.day = x.day /\ u.hour = x.hour
  BY DEF AnyMoment, NextHour, Before

\* The same for one minute, which leads to the very next moment.
LEMMA AddMinuteFacts ==
    \A x \in AnyMoment :
        /\ AddMinute(x) \in AnyMoment
        /\ Before(x, AddMinute(x))
        /\ \A u \in AnyMoment : Before(u, AddMinute(x)) => u = x \/ Before(u, x)
  BY DEF AnyMoment, AddMinute, NextHour, Before

\* In any zone, cutting a later day at the beginning of a day of UTC leads to
\* a moment.
LEMMA TruncateFacts ==
    \A x \in AnyMoment : x.day > 0 => TruncateDay(x) \in AnyMoment
  BY DEF AnyMoment, TruncateDay

\* The order of moments is transitive.
LEMMA BeforeTransitive ==
    \A x, y, z \in AnyMoment : Before(x, y) /\ Before(y, z) => Before(x, z)
  BY DEF AnyMoment, Before

\* In any zone, a later day that is cut at the beginning of a day of UTC is still
\* later than the moment it was counted from.
LEMMA TruncateLater ==
    ASSUME NEW x \in AnyMoment, NEW d \in Nat, d > x.day
    PROVE  /\ TruncateDay([x EXCEPT !.day = d]) \in AnyMoment
           /\ Before(x, TruncateDay([x EXCEPT !.day = d]))
<1> DEFINE y == [x EXCEPT !.day = d]
<1>1. y \in AnyMoment /\ y.day = d /\ y.hour = x.hour /\ y.min = x.min
  BY DEF AnyMoment
<1>2. TruncateDay(y) \in AnyMoment
  BY <1>1, TruncateFacts DEF AnyMoment
<1>3. Before(x, TruncateDay(y))
  BY <1>1 DEF AnyMoment, TruncateDay, Before
<1> QED
  BY <1>2, <1>3

\* An hour later is later.
LEMMA AddHourFacts == \A x \in AnyMoment : Before(x, AddHour(x))
  BY DEF AnyMoment, AddHour, NextHour, Before

\* The search is ahead of from, and so is what it returns.
Later ==
    /\ phase = "search" => Before(from, t)
    /\ phase \in {"found", "fallback"} => Before(from, next)

\* Every step keeps the types.
LEMMA TypesInduction == Types /\ [Next]_vars => Types'
<1> SUFFICES ASSUME Types, [Next]_vars PROVE Types'
  OBVIOUS
<1> USE DEF Types
<1>1. CASE Parse
  <2>1. from \in AnyMoment
    BY DEF Moments, AnyMoment
  <2> QED
    BY <1>1, <2>1, AddMinuteFacts DEF Parse
<1>2. CASE ParseFails
  BY <1>2 DEF ParseFails
<1>3. CASE SkipMonth
  <2> DEFINE x == [t EXCEPT !.day = NextMonth(t.day)]
  <2>1. t.day \in 0..LastDay
    BY <1>3 DEF SkipMonth, Searching, AnyMoment
  <2>2. x \in AnyMoment /\ x.day > 0
    BY <2>1, CalendarAssumption DEF AnyMoment
  <2>3. TruncateDay(x) \in AnyMoment
    BY <2>2, TruncateFacts
  <2>4. t' = TruncateDay(x) /\ i' \in 0..MaxIter /\ UNCHANGED <<from, phase>>
    BY <1>3 DEF SkipMonth, Searching, Round
  <2> QED
    BY <2>3, <2>4
<1>4. CASE SkipDay
  <2> DEFINE x == [t EXCEPT !.day = @ + 1]
  <2>1. x \in AnyMoment /\ x.day > 0
    BY DEF AnyMoment
  <2>2. TruncateDay(x) \in AnyMoment
    BY <2>1, TruncateFacts
  <2>3. t' = TruncateDay(x) /\ i' \in 0..MaxIter /\ UNCHANGED <<from, phase>>
    BY <1>4 DEF SkipDay, Searching, Round
  <2> QED
    BY <2>2, <2>3
<1>5. CASE SkipHour
  BY <1>5, NextHourFacts DEF SkipHour, Searching, Round
<1>6. CASE SkipMinute
  BY <1>6, AddMinuteFacts DEF SkipMinute, Searching, Round
<1>7. CASE Found
  BY <1>7 DEF Found
<1>8. CASE GiveUp
  BY <1>8 DEF GiveUp
<1>9. CASE UNCHANGED vars
  BY <1>9 DEF vars
<1> QED
  BY <1>1, <1>2, <1>3, <1>4, <1>5, <1>6, <1>7, <1>8, <1>9 DEF Next

\* A round that goes from t to a moment v keeps NothingSkipped when no moment
\* from t up to v is accepted.
LEMMA RoundSkipsNothing ==
    ASSUME Types, NothingSkipped, phase = "search", NEW v, Round(v),
           \A u \in Moments : ~Before(u, t) /\ Before(u, v) => ~Matches(u)
    PROVE  NothingSkipped'
<1> SUFFICES ASSUME NEW u \in Moments, Before(from, u), Before(u, v)
             PROVE  ~Matches(u)
  BY DEF Round, NothingSkipped, Matches, Before
<1> QED
  BY DEF NothingSkipped

\* On a machine that keeps UTC, every round leaves out only moments that the
\* expression does not accept.
LEMMA SkipInduction ==
    ASSUME ZoneHour = 0, ZoneMin = 0
    PROVE  Types /\ NothingSkipped /\ [Next]_vars => NothingSkipped'
<1> SUFFICES ASSUME Types, NothingSkipped, [Next]_vars PROVE NothingSkipped'
  OBVIOUS
<1> USE DEF Types
<1>0. \A u \in Moments : u \in AnyMoment
  BY DEF Moments, AnyMoment
<1>1. CASE Parse
  <2>1. \A u \in Moments : ~(Before(from, u) /\ Before(u, AddMinute(from)))
    BY <1>0, AddMinuteFacts DEF Before, AnyMoment
  <2> QED
    BY <1>1, <2>1 DEF Parse, NothingSkipped, Before
<1>2. CASE ParseFails
  BY <1>2 DEF ParseFails, NothingSkipped
<1>3. CASE SkipMonth
  <2> DEFINE v == TruncateDay([t EXCEPT !.day = NextMonth(t.day)])
  <2>1. t.day \in 0..LastDay /\ phase = "search" /\ Round(v) /\ ~MonthFits
    BY <1>3 DEF SkipMonth, Searching, AnyMoment
  <2>2. v = [day |-> NextMonth(t.day), hour |-> 0, min |-> 0]
    BY <2>1, CalendarAssumption DEF TruncateDay, AnyMoment
  <2>3. ASSUME NEW u \in Moments, ~Before(u, t), Before(u, v) PROVE ~Matches(u)
    <3>1. u.day \in t.day..(NextMonth(t.day) - 1)
      BY <2>1, <2>2, <2>3, <1>0, CalendarAssumption DEF Before, AnyMoment
    <3>2. MonthOf(u.day) = MonthOf(t.day)
      BY <2>1, <3>1, CalendarAssumption
    <3> QED
      BY <2>1, <3>2 DEF MonthFits, Matches
  <2> QED
    BY <2>1, <2>3, RoundSkipsNothing
<1>4. CASE SkipDay
  <2> DEFINE v == TruncateDay([t EXCEPT !.day = @ + 1])
  <2>1. phase = "search" /\ Round(v) /\ ~DayFits
    BY <1>4 DEF SkipDay, Searching
  <2>2. v = [day |-> t.day + 1, hour |-> 0, min |-> 0]
    BY DEF TruncateDay, AnyMoment
  <2>3. ASSUME NEW u \in Moments, ~Before(u, t), Before(u, v) PROVE ~Matches(u)
    <3>1. u.day = t.day
      BY <2>2, <2>3, <1>0 DEF Before, AnyMoment
    <3> QED
      BY <2>1, <3>1 DEF DayFits, Matches
  <2> QED
    BY <2>1, <2>3, RoundSkipsNothing
<1>5. CASE SkipHour
  <2>1. phase = "search" /\ Round(NextHour(t)) /\ t.hour \notin fields.hour
    BY <1>5 DEF SkipHour, Searching
  <2>2. ASSUME NEW u \in Moments, ~Before(u, t), Before(u, NextHour(t)) PROVE ~Matches(u)
    BY <1>0, <2>1, <2>2, NextHourFacts DEF Matches
  <2> QED
    BY <2>1, <2>2, RoundSkipsNothing
<1>6. CASE SkipMinute
  <2>1. phase = "search" /\ Round(AddMinute(t)) /\ t.min \notin fields.minute
    BY <1>6 DEF SkipMinute, Searching
  <2>2. ASSUME NEW u \in Moments, ~Before(u, t), Before(u, AddMinute(t)) PROVE ~Matches(u)
    BY <1>0, <2>1, <2>2, AddMinuteFacts DEF Matches
  <2> QED
    BY <2>1, <2>2, RoundSkipsNothing
<1>7. CASE Found
  BY <1>7 DEF Found, Searching, NothingSkipped, Matches
<1>8. CASE GiveUp
  BY <1>8 DEF GiveUp, NothingSkipped
<1>9. CASE UNCHANGED vars
  BY <1>9 DEF vars, NothingSkipped, Matches
<1> QED
  BY <1>1, <1>2, <1>3, <1>4, <1>5, <1>6, <1>7, <1>8, <1>9 DEF Next

\* Every step keeps the search, and what it returns, after from.
LEMMA LaterInduction == Types /\ Later /\ [Next]_vars => Later'
<1> SUFFICES ASSUME Types, Later, [Next]_vars PROVE Later'
  OBVIOUS
<1>0. from \in AnyMoment /\ t \in AnyMoment
  BY DEF Types, Moments, AnyMoment
<1>1. ASSUME NEW v \in AnyMoment, phase = "search", Round(v), Before(t, v) PROVE Later'
  <2>1. Before(from, t)
    BY <1>1 DEF Later
  <2>2. Before(from, v)
    BY <1>0, <1>1, <2>1, BeforeTransitive
  <2> QED
    BY <1>1, <2>2 DEF Round, Later, Before
<1>2. CASE Parse
  BY <1>0, <1>2, AddMinuteFacts DEF Parse, Later, Before
<1>3. CASE ParseFails \/ GiveUp
  BY <1>0, <1>3, AddHourFacts DEF ParseFails, GiveUp, Later, Before
<1>4. CASE SkipMonth
  <2> DEFINE v == TruncateDay([t EXCEPT !.day = NextMonth(t.day)])
  <2>1. t.day \in 0..LastDay /\ phase = "search" /\ Round(v)
    BY <1>0, <1>4 DEF SkipMonth, Searching, AnyMoment
  <2>2. NextMonth(t.day) \in Nat /\ NextMonth(t.day) > t.day
    BY <2>1, CalendarAssumption
  <2>3. v \in AnyMoment /\ Before(t, v)
    BY <1>0, <2>2, TruncateLater
  <2> QED
    BY <1>1, <2>1, <2>3
<1>5. CASE SkipDay
  <2> DEFINE v == TruncateDay([t EXCEPT !.day = t.day + 1])
  <2>1. phase = "search" /\ Round(v)
    BY <1>5 DEF SkipDay, Searching
  <2>2. t.day + 1 \in Nat /\ t.day + 1 > t.day
    BY <1>0 DEF AnyMoment
  <2>3. v \in AnyMoment /\ Before(t, v)
    BY <1>0, <2>2, TruncateLater
  <2> QED
    BY <1>1, <2>1, <2>3
<1>6. CASE SkipHour
  <2>1. phase = "search" /\ Round(NextHour(t))
    BY <1>6 DEF SkipHour, Searching
  <2>2. NextHour(t) \in AnyMoment /\ Before(t, NextHour(t))
    BY <1>0, NextHourFacts DEF NextHour, Before, AnyMoment
  <2> QED
    BY <1>1, <2>1, <2>2
<1>7. CASE SkipMinute
  <2>1. phase = "search" /\ Round(AddMinute(t))
    BY <1>7 DEF SkipMinute, Searching
  <2>2. AddMinute(t) \in AnyMoment /\ Before(t, AddMinute(t))
    BY <1>0, AddMinuteFacts
  <2> QED
    BY <1>1, <2>1, <2>2
<1>8. CASE Found
  BY <1>8 DEF Found, Searching, Later, Before
<1>9. CASE UNCHANGED vars
  BY <1>9 DEF vars, Later, Before
<1> QED
  BY <1>2, <1>3, <1>4, <1>5, <1>6, <1>7, <1>8, <1>9 DEF Next

\* In every zone and for every calendar and expression, CalculateNextRun returns
\* a moment after the one it was asked for: t.Truncate never takes the search
\* back behind from.
THEOREM NextRunIsLater == Spec => []NextIsLater
<1>1. Init => Types /\ Later
  BY DEF Init, Types, Moments, AnyMoment, Later
<1>2. Later => NextIsLater
  BY DEF Later, NextIsLater
<1> QED
  BY <1>1, <1>2, TypesInduction, LaterInduction, PTL DEF Spec

\* On a machine that keeps UTC, CalculateNextRun returns the first time after
\* from that the parsed expression accepts, for every calendar.
THEOREM FirstMatchInUTC ==
    ASSUME ZoneHour = 0, ZoneMin = 0
    PROVE  Spec => []NothingSkipped
<1>1. Init => Types /\ NothingSkipped
  BY DEF Init, Types, Moments, AnyMoment, NothingSkipped
<1>2. Types /\ NothingSkipped /\ [Next]_vars => NothingSkipped'
  BY SkipInduction
<1> QED
  BY <1>1, <1>2, TypesInduction, PTL DEF Spec
-----------------------------------------------------------------------------
(* The parser, and what a found time is worth.                             *)

\* Every value the parser takes from a valid token is one the token means.
LEMMA TokenSound ==
    ASSUME NEW tok \in Tokens, NEW min \in Nat, NEW max \in Int, TokenValid(tok, min, max),
           NEW n \in TokenValues(tok, min, max)
    PROVE  n \in TokenMeaning(tok, min, max)
<1> USE DEF TokenValid, TokenValues, TokenMeaning, Every
<1>0. /\ tok.kind \in {"value", "range", "valueStep", "rangeStep", "starStep"}
      /\ tok.lo \in Int /\ tok.hi \in Int /\ tok.step \in Int
  BY DEF Tokens, TokenKinds
<1>1. CASE tok.kind = "value"
  BY <1>0, <1>1, NoRemainder
<1>2. CASE tok.kind = "range"
  BY <1>0, <1>2, NoRemainder
<1>3. CASE tok.kind = "starStep"
  BY <1>0, <1>3
<1>4. CASE tok.kind = "valueStep"
  BY <1>0, <1>4
<1>5. CASE tok.kind = "rangeStep"
  BY <1>0, <1>5
<1> QED
  BY <1>0, <1>1, <1>2, <1>3, <1>4, <1>5

\* Every value a valid token without a-b/k means is taken.
LEMMA TokenComplete ==
    ASSUME NEW tok \in Tokens, NEW min \in Nat, NEW max \in Int, TokenValid(tok, min, max),
           tok.kind # "rangeStep", NEW n \in TokenMeaning(tok, min, max)
    PROVE  n \in TokenValues(tok, min, max)
<1> USE DEF TokenValid, TokenValues, TokenMeaning, Every
<1>0. /\ tok.kind \in {"value", "range", "valueStep", "starStep"}
      /\ tok.lo \in Int /\ tok.hi \in Int /\ tok.step \in Int
  BY DEF Tokens, TokenKinds
<1>1. CASE tok.kind = "value"
  BY <1>0, <1>1
<1>2. CASE tok.kind = "range"
  BY <1>0, <1>2
<1>3. CASE tok.kind = "starStep"
  BY <1>0, <1>3
<1>4. CASE tok.kind = "valueStep"
  BY <1>0, <1>4
<1> QED
  BY <1>0, <1>1, <1>2, <1>3, <1>4

\* A part of an expression without a-b/k.
PlainPart(part) == \A tok \in part.items : tok.kind # "rangeStep"

\* What the parser takes from a valid part is what the part means, except that
\* values of an a-b/k may be missing.
LEMMA PartFacts ==
    ASSUME NEW part \in Parts, NEW min \in Nat, NEW max \in Int, PartValid(part, min, max)
    PROVE  /\ \A n \in ParsePart(part, min, max) : PartMeaning(part, min, max, n)
           /\ PlainPart(part) => \A n \in min..max :
                 PartMeaning(part, min, max, n) => n \in ParsePart(part, min, max)
<1>1. part.kind \in {"star", "list"} /\ part.items \subseteq Tokens
  BY DEF Parts
<1>2. CASE part.kind = "star"
  BY <1>2 DEF ParsePart, PartMeaning, Every
<1>3. CASE part.kind = "list"
  BY <1>1, <1>3, TokenSound, TokenComplete DEF ParsePart, PartMeaning, PartValid, PlainPart
<1> QED
  BY <1>1, <1>2, <1>3

\* What the loop knows of the expression: while it searches, and when it has
\* found a time, the fields are those of a valid expression, and the time that
\* was found fits them.
ParsedInv ==
    /\ expr \in Exprs
    /\ phase \in {"search", "found"} => ExprValid(expr) /\ fields = ParseCron(expr)
    /\ phase = "found" => Matches(next)

\* Every step keeps it.
LEMMA ParsedInduction == ParsedInv /\ [Next]_vars => ParsedInv'
<1> SUFFICES ASSUME ParsedInv, [Next]_vars PROVE ParsedInv'
  OBVIOUS
<1> USE DEF ParsedInv
<1>1. CASE Parse
  BY <1>1 DEF Parse
<1>2. CASE ParseFails \/ GiveUp
  BY <1>2 DEF ParseFails, GiveUp
<1>3. CASE SkipMonth \/ SkipDay \/ SkipHour \/ SkipMinute
  BY <1>3 DEF SkipMonth, SkipDay, SkipHour, SkipMinute, Searching, Round
<1>4. CASE Found
  <2>1. Matches(t)
    BY <1>4 DEF Found, MonthFits, DayFits, Matches
  <2>2. phase = "search" /\ next' = t /\ phase' = "found" /\ expr' = expr /\ fields' = fields
    BY <1>4 DEF Found, Searching
  <2>3. Matches(next)'
    BY <2>1, <2>2 DEF Matches
  <2> QED
    BY <2>2, <2>3
<1>5. CASE UNCHANGED vars
  BY <1>5 DEF vars, Matches
<1> QED
  BY <1>1, <1>2, <1>3, <1>4, <1>5 DEF Next

\* The fields of a valid expression are valid parts.
LEMMA FieldFacts ==
    ASSUME NEW e \in Exprs, ExprValid(e)
    PROVE  /\ e.minute \in Parts /\ e.hour \in Parts /\ e.dom \in Parts
           /\ e.month \in Parts /\ e.dow \in Parts
           /\ PartValid(e.minute, 0, MinutesPerHour - 1) /\ PartValid(e.hour, 0, HoursPerDay - 1)
           /\ PartValid(e.dom, 1, DaysPerMonth) /\ PartValid(e.month, 1, Months)
           /\ PartValid(e.dow, 0, DaysPerWeek - 1)
           /\ MinutesPerHour - 1 \in Int /\ HoursPerDay - 1 \in Int /\ DaysPerMonth \in Int
           /\ Months \in Int /\ DaysPerWeek - 1 \in Int
  BY ExprsAssumption DEF ExprValid

\* A moment that fits the parsed fields is one the written expression accepts.
LEMMA MatchIsAccepted ==
    ASSUME expr \in Exprs, ExprValid(expr), fields = ParseCron(expr), NEW u, Matches(u)
    PROVE  Accepts(u)
<1>1. /\ u.min \in ParsePart(expr.minute, 0, MinutesPerHour - 1)
      /\ u.hour \in ParsePart(expr.hour, 0, HoursPerDay - 1)
      /\ DayOfMonth(u.day) \in ParsePart(expr.dom, 1, DaysPerMonth)
      /\ MonthOf(u.day) \in ParsePart(expr.month, 1, Months)
      /\ DayOfWeek(u.day) \in ParsePart(expr.dow, 0, DaysPerWeek - 1)
  BY DEF Matches, ParseCron
<1>2. PartMeaning(expr.minute, 0, MinutesPerHour - 1, u.min)
  BY <1>1, FieldFacts, PartFacts
<1>3. PartMeaning(expr.hour, 0, HoursPerDay - 1, u.hour)
  BY <1>1, FieldFacts, PartFacts
<1>4. PartMeaning(expr.dom, 1, DaysPerMonth, DayOfMonth(u.day))
  BY <1>1, FieldFacts, PartFacts
<1>5. PartMeaning(expr.month, 1, Months, MonthOf(u.day))
  BY <1>1, FieldFacts, PartFacts
<1>6. PartMeaning(expr.dow, 0, DaysPerWeek - 1, DayOfWeek(u.day))
  BY <1>1, FieldFacts, PartFacts
<1> QED
  BY <1>2, <1>3, <1>4, <1>5, <1>6 DEF Accepts

\* In every zone and for every calendar, a time CalculateNextRun finds is one
\* the expression, as written, accepts: no step of the parser adds a value.
THEOREM FoundTimesAreAccepted == Spec => []FoundIsAccepted
<1>1. Init => ParsedInv
  BY DEF Init, ParsedInv
<1>2. ParsedInv => FoundIsAccepted
  BY MatchIsAccepted DEF ParsedInv, FoundIsAccepted
<1> QED
  BY <1>1, <1>2, ParsedInduction, PTL DEF Spec
-----------------------------------------------------------------------------
(* How far the search gets before it gives up.                             *)

\* The order of moments is the order of their minutes.
LEMMA MinutesFacts ==
    ASSUME NEW x \in AnyMoment, NEW y \in AnyMoment
    PROVE  /\ Minutes(x) \in Nat /\ Minutes(y) \in Nat
           /\ Before(x, y) => Minutes(x) < Minutes(y)
           /\ Before(x, y) \/ Before(y, x) \/ x = y
<1> DEFINE hours(z) == z.day * HoursPerDay + z.hour
<1>1. ASSUME NEW z \in AnyMoment
      PROVE  /\ z.day \in Nat /\ z.hour \in 0..(HoursPerDay - 1) /\ z.min \in 0..(MinutesPerHour - 1)
             /\ z.hour \in Nat /\ z.min \in Nat
             /\ hours(z) \in Nat
             /\ hours(z) * MinutesPerHour + z.min \in Nat
  <2>1. /\ z.day \in Nat /\ z.hour \in 0..(HoursPerDay - 1) /\ z.min \in 0..(MinutesPerHour - 1)
        /\ z.hour \in Nat /\ z.min \in Nat
    BY DEF AnyMoment
  <2>2. hours(z) \in Nat
    BY <2>1
  <2> HIDE DEF hours
  <2>3. hours(z) * MinutesPerHour + z.min \in Nat
    BY <2>1, <2>2
  <2> QED
    BY <2>1, <2>2, <2>3
<1>2. /\ Minutes(x) = hours(x) * MinutesPerHour + x.min
      /\ Minutes(y) = hours(y) * MinutesPerHour + y.min
  BY DEF Minutes
<1>3. CASE x.day < y.day
  <2>1. hours(x) < hours(y)
    BY <1>1, <1>3, DigitFacts
  <2> HIDE DEF hours
  <2>2. hours(x) * MinutesPerHour + x.min < hours(y) * MinutesPerHour + y.min
    BY <1>1, <2>1, DigitFacts
  <2> QED
    BY <1>1, <1>2, <1>3, <2>2 DEF Before
<1>4. CASE x.day = y.day /\ x.hour < y.hour
  <2>1. x.day * HoursPerDay \in Nat
    BY <1>1
  <2>2. hours(x) < hours(y)
    BY <1>1, <1>4, <2>1
  <2> HIDE DEF hours
  <2>3. hours(x) * MinutesPerHour + x.min < hours(y) * MinutesPerHour + y.min
    BY <1>1, <2>2, DigitFacts
  <2> QED
    BY <1>1, <1>2, <1>4, <2>3 DEF Before
<1>5. CASE x.day = y.day /\ x.hour = y.hour /\ x.min < y.min
  <2>1. hours(x) = hours(y)
    BY <1>5
  <2> HIDE DEF hours
  <2>2. hours(x) * MinutesPerHour \in Nat
    BY <1>1
  <2> QED
    BY <1>1, <1>2, <1>5, <2>1, <2>2 DEF Before
<1> HIDE DEF hours
<1>6. Before(x, y) \/ Before(y, x) \/ x = y
  <2>1. \/ x.day = y.day /\ x.hour = y.hour /\ x.min = y.min
        \/ Before(x, y) \/ Before(y, x)
    <3>1. /\ x.day \in Int /\ x.hour \in Int /\ x.min \in Int
          /\ y.day \in Int /\ y.hour \in Int /\ y.min \in Int
      BY DEF AnyMoment
    <3> QED
      BY <3>1 DEF Before
  <2>2. CASE x.day = y.day /\ x.hour = y.hour /\ x.min = y.min
    BY <2>2 DEF AnyMoment
  <2> QED
    BY <2>1, <2>2
<1> QED
  BY <1>1, <1>2, <1>3, <1>4, <1>5, <1>6 DEF Before

\* Every expression, as far as it is free of a-b/k.
PlainExprs ==
    \A e \in Exprs : /\ PlainPart(e.minute) /\ PlainPart(e.hour) /\ PlainPart(e.dom)
                     /\ PlainPart(e.month) /\ PlainPart(e.dow)

\* A moment that a plain expression accepts as written fits the parsed fields.
LEMMA AcceptedIsMatch ==
    ASSUME PlainExprs, expr \in Exprs, ExprValid(expr), fields = ParseCron(expr),
           NEW u \in Moments, Accepts(u)
    PROVE  Matches(u)
<1>1. /\ u.day \in 0..LastDay /\ u.hour \in 0..(HoursPerDay - 1)
      /\ u.min \in 0..(MinutesPerHour - 1)
  BY DEF Moments
<1>2. /\ MonthOf(u.day) \in 1..Months /\ DayOfMonth(u.day) \in 1..DaysPerMonth
      /\ DayOfWeek(u.day) \in 0..(DaysPerWeek - 1)
  BY <1>1, CalendarAssumption
<1>3. /\ PlainPart(expr.minute) /\ PlainPart(expr.hour) /\ PlainPart(expr.dom)
      /\ PlainPart(expr.month) /\ PlainPart(expr.dow)
  BY DEF PlainExprs
<1>4. u.min \in ParsePart(expr.minute, 0, MinutesPerHour - 1)
  BY <1>1, <1>3, FieldFacts, PartFacts DEF Accepts
<1>5. u.hour \in ParsePart(expr.hour, 0, HoursPerDay - 1)
  BY <1>1, <1>3, FieldFacts, PartFacts DEF Accepts
<1>6. DayOfMonth(u.day) \in ParsePart(expr.dom, 1, DaysPerMonth)
  BY <1>2, <1>3, FieldFacts, PartFacts DEF Accepts
<1>7. MonthOf(u.day) \in ParsePart(expr.month, 1, Months)
  BY <1>2, <1>3, FieldFacts, PartFacts DEF Accepts
<1>8. DayOfWeek(u.day) \in ParsePart(expr.dow, 0, DaysPerWeek - 1)
  BY <1>2, <1>3, FieldFacts, PartFacts DEF Accepts
<1> QED
  BY <1>4, <1>5, <1>6, <1>7, <1>8 DEF Matches, ParseCron

\* Every round of the loop takes the search at least one minute on.
Progress ==
    /\ phase = "parse" => i = 0
    /\ phase = "search" => Minutes(t) > Minutes(from) + i

\* A round that goes to a later moment does.
LEMMA RoundProgress ==
    ASSUME Types, Progress, phase = "search", NEW v \in AnyMoment, Round(v), Before(t, v)
    PROVE  Progress'
<1>1. from \in AnyMoment /\ t \in AnyMoment
  BY DEF Types, Moments, AnyMoment
<1>2. /\ Minutes(from) \in Nat /\ Minutes(t) \in Nat /\ Minutes(v) \in Nat
      /\ Minutes(t) < Minutes(v)
  BY <1>1, MinutesFacts
<1>3. i \in Nat /\ Minutes(t) > Minutes(from) + i
  BY DEF Types, Progress
<1>4. Minutes(v) > Minutes(from) + (i + 1)
  BY <1>2, <1>3
<1>5. Minutes(t)' = Minutes(v) /\ Minutes(from)' = Minutes(from) /\ i' = i + 1 /\ phase' = "search"
  BY DEF Round, Minutes
<1> HIDE DEF Minutes
<1> QED
  BY <1>4, <1>5 DEF Progress

\* On a machine that keeps UTC, every step keeps the progress.
LEMMA ProgressInduction ==
    ASSUME ZoneHour = 0, ZoneMin = 0
    PROVE  Types /\ Progress /\ [Next]_vars => Progress'
<1> SUFFICES ASSUME Types, Progress, [Next]_vars PROVE Progress'
  OBVIOUS
<1>0. t \in AnyMoment /\ from \in AnyMoment
  BY DEF Types, Moments, AnyMoment
<1>1. CASE Parse
  <2>1. /\ AddMinute(from) \in AnyMoment /\ Before(from, AddMinute(from))
    BY <1>0, AddMinuteFacts
  <2>2. /\ Minutes(from) \in Nat /\ Minutes(AddMinute(from)) \in Nat
        /\ Minutes(from) < Minutes(AddMinute(from))
    BY <1>0, <2>1, MinutesFacts
  <2>3. /\ Minutes(t)' = Minutes(AddMinute(from)) /\ Minutes(from)' = Minutes(from)
        /\ i' = 0 /\ phase' = "search"
    BY <1>1 DEF Parse, Minutes, Progress
  <2>4. Minutes(t)' > Minutes(from)' + i'
    BY <2>2, <2>3
  <2> QED
    BY <2>3, <2>4 DEF Progress
<1>2. CASE ParseFails \/ Found \/ GiveUp
  BY <1>2 DEF ParseFails, Found, GiveUp, Progress
<1>3. CASE SkipMonth
  <2> DEFINE v == TruncateDay([t EXCEPT !.day = NextMonth(t.day)])
  <2>1. t.day \in 0..LastDay /\ phase = "search" /\ Round(v)
    BY <1>0, <1>3 DEF SkipMonth, Searching, AnyMoment
  <2>2. v = [day |-> NextMonth(t.day), hour |-> 0, min |-> 0]
    BY <1>0, <2>1, CalendarAssumption DEF TruncateDay, AnyMoment
  <2>3. v \in AnyMoment /\ Before(t, v)
    BY <2>1, <2>2, CalendarAssumption DEF AnyMoment, Before
  <2> QED
    BY <2>1, <2>3, RoundProgress
<1>4. CASE SkipDay
  <2> DEFINE v == TruncateDay([t EXCEPT !.day = @ + 1])
  <2>1. phase = "search" /\ Round(v)
    BY <1>4 DEF SkipDay, Searching
  <2>2. v = [day |-> t.day + 1, hour |-> 0, min |-> 0]
    BY <1>0 DEF TruncateDay, AnyMoment
  <2>3. v \in AnyMoment /\ Before(t, v)
    BY <1>0, <2>2 DEF AnyMoment, Before
  <2> QED
    BY <2>1, <2>3, RoundProgress
<1>5. CASE SkipHour
  <2>1. phase = "search" /\ Round(NextHour(t))
    BY <1>5 DEF SkipHour, Searching
  <2>2. NextHour(t) \in AnyMoment /\ Before(t, NextHour(t))
    BY <1>0, NextHourFacts DEF NextHour, Before, AnyMoment
  <2> QED
    BY <2>1, <2>2, RoundProgress
<1>6. CASE SkipMinute
  <2>1. phase = "search" /\ Round(AddMinute(t))
    BY <1>6 DEF SkipMinute, Searching
  <2>2. AddMinute(t) \in AnyMoment /\ Before(t, AddMinute(t))
    BY <1>0, AddMinuteFacts
  <2> QED
    BY <2>1, <2>2, RoundProgress
<1>7. CASE UNCHANGED vars
  BY <1>7 DEF vars, Progress, Minutes
<1> QED
  BY <1>1, <1>2, <1>3, <1>4, <1>5, <1>6, <1>7 DEF Next

\* When the loop gives up, it has gone past the last minute of the year
\* without having skipped a moment that the expression accepts.
LEMMA YearInduction ==
    ASSUME PlainExprs
    PROVE  Types /\ NothingSkipped /\ ParsedInv /\ Progress /\ YearIsSearched /\ [Next]_vars
           => YearIsSearched'
<1> SUFFICES ASSUME Types, NothingSkipped, ParsedInv, Progress, YearIsSearched, [Next]_vars
             PROVE  YearIsSearched'
  OBVIOUS
<1>1. ASSUME GiveUp, NEW u \in Moments, Before(from, u), Minutes(u) <= Minutes(from) + MaxIter
      PROVE  ~Accepts(u)
  <2>1. from \in AnyMoment /\ t \in AnyMoment /\ u \in AnyMoment
    BY DEF Types, Moments, AnyMoment
  <2>2. Minutes(from) \in Nat /\ Minutes(t) \in Nat /\ Minutes(u) \in Nat
    BY <2>1, MinutesFacts
  <2>3. phase = "search" /\ i = MaxIter
    BY <1>1 DEF GiveUp, Types
  <2>4. Minutes(t) > Minutes(from) + MaxIter
    BY <2>3 DEF Progress
  <2>5. Minutes(u) < Minutes(t)
    BY <1>1, <2>2, <2>4
  <2>6. Before(u, t)
    <3>1. ~Before(t, u) /\ u # t
      <4>1. Before(t, u) => Minutes(t) < Minutes(u)
        BY <2>1, MinutesFacts
      <4> QED
        BY <2>2, <2>5, <4>1
    <3> QED
      BY <2>1, <3>1, MinutesFacts
  <2>7. ~Matches(u)
    BY <1>1, <2>3, <2>6 DEF NothingSkipped
  <2> QED
    BY <2>3, <2>7, AcceptedIsMatch DEF ParsedInv
<1>2. CASE GiveUp
  <2>1. expr' = expr /\ from' = from
    BY <1>2 DEF GiveUp
  <2> QED
    BY <1>1, <1>2, <2>1 DEF YearIsSearched, Accepts, Minutes, Before
<1>3. CASE ParseFails
  BY <1>3 DEF ParseFails, YearIsSearched
<1>4. CASE Parse \/ Found \/ SkipMonth \/ SkipDay \/ SkipHour \/ SkipMinute
  <2>1. phase' # "fallback"
    BY <1>4 DEF Parse, Found, SkipMonth, SkipDay, SkipHour, SkipMinute, Searching, Round
  <2> QED
    BY <2>1 DEF YearIsSearched
<1>5. CASE UNCHANGED vars
  BY <1>5 DEF vars, YearIsSearched, Accepts, Minutes, Before
<1> QED
  BY <1>2, <1>3, <1>4, <1>5 DEF Next

\* On a machine that keeps UTC, CalculateNextRun falls back to one hour from
\* now for a valid expression without a-b/k only when that expression, as
\* written, accepts no minute of the year after from, for every calendar.
THEOREM WholeYearInUTC ==
    ASSUME ZoneHour = 0, ZoneMin = 0, PlainExprs
    PROVE  Spec => []YearIsSearched
<1>1. Init => Types /\ NothingSkipped /\ ParsedInv /\ Progress /\ YearIsSearched
  BY DEF Init, Types, Moments, AnyMoment, NothingSkipped, ParsedInv, Progress, YearIsSearched
<1>2. Types /\ NothingSkipped /\ [Next]_vars => NothingSkipped'
  BY SkipInduction
<1>3. Types /\ Progress /\ [Next]_vars => Progress'
  BY ProgressInduction
<1>4. Types /\ NothingSkipped /\ ParsedInv /\ Progress /\ YearIsSearched /\ [Next]_vars
      => YearIsSearched'
  BY YearInduction
<1> QED
  BY <1>1, <1>2, <1>3, <1>4, TypesInduction, ParsedInduction, PTL DEF Spec
=============================================================================
