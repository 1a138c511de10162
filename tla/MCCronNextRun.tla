--------------------------- MODULE MCCronNextRun ---------------------------
(***************************************************************************)
(* Instances of CronNextRun for TLC: a calendar with years of two months,  *)
(* of three and of two days, weeks of three days, days of two hours and    *)
(* hours of three minutes, so that a year has thirty minutes.              *)
(***************************************************************************)
EXTENDS CronNextRun, TLC

MCMonthOf(d) == IF d % 5 < 3 THEN 1 ELSE 2
MCDayOfMonth(d) == IF d % 5 < 3 THEN (d % 5) + 1 ELSE (d % 5) - 2
MCDayOfWeek(d) == d % 3
MCNextMonth(d) == (d - (d % 5)) + (IF d % 5 < 3 THEN 3 ELSE 5)

MCStarts ==
    { [day |-> 0, hour |-> 0, min |-> 0], [day |-> 1, hour |-> 1, min |-> 1],
      [day |-> 2, hour |-> 1, min |-> 2], [day |-> 3, hour |-> 0, min |-> 2],
      [day |-> 4, hour |-> 1, min |-> 2] }

Token(kind, lo, hi, step) == [kind |-> kind, lo |-> lo, hi |-> hi, step |-> step]
Star(step) == [kind |-> "star", step |-> step, items |-> {}]
List(items) == [kind |-> "list", step |-> 1, items |-> items]
Value(n) == List({Token("value", n, n, 1)})

MCExprs ==
    [minute : {Star(1), Star(2), Value(0), Value(2), List({Token("valueStep", 1, 1, 2)}),
               Value(3), Star(0)},
     hour : {Star(1), Value(1), List({Token("starStep", 0, 0, 2)})},
     dom : {Star(1), Value(3), List({Token("range", 2, 3, 1)}),
            List({Token("value", 1, 1, 1), Token("range", 3, 2, 1)})},
     month : {Star(1), Value(2), List({Token("valueStep", 1, 1, 0), Token("junk", 0, 0, 1)})},
     dow : {Star(1), Value(0), List({Token("value", 1, 1, 1), Token("value", 2, 2, 1)})}]

\* Expressions with a-b/k in the field of the days.
RangeStepExprs ==
    [minute : {Value(0)}, hour : {Star(1)}, dom : {List({Token("rangeStep", 1, 3, 2)})},
     month : {Star(1)}, dow : {Star(1)}]
=============================================================================
