----------------------------- MODULE MinorUnits -----------------------------
(***************************************************************************)
(* NUMERIC(p,s) as an integer of minor units.                              *)
(*                                                                         *)
(* A column of two decimal places holds 1.50 as 150.  Every expression     *)
(* over such a column is therefore translated for a scale, which the       *)
(* translator infers from the text of the expression alone: scale_of.      *)
(* Literals and parameters beside a scaled value are moved onto its scale, *)
(* scaled operands onto a common one, and casts and roundings become       *)
(* integer arithmetic.  The module evaluates the source exactly and the    *)
(* emitted form on the stored numbers, and compares them at the scale the  *)
(* result is read at.                                                      *)
(*                                                                         *)
(* A decimal is [n, s]: n / 10^s.  REAL arithmetic is taken as exact, and  *)
(* the 64-bit bound is left to the column's own CHECK.                     *)
(***************************************************************************)
EXTENDS Integers, Sequences, SequencesExt

CONSTANTS
    Expressions,  \* expressions to translate
    Around(_),    \* larger ones about an expression
    TableColumns, \* the scale of every column, Unscaled for an integer one
    TableRow,     \* what every column stores
    MaxPrecision, \* MAX_NUMERIC_PRECISION
    ColumnDigits  \* the declared precision of the scaled columns

VARIABLE expression

Unscaled == -1
NoExpression == [op |-> "idle"]

----------------------------------------------------------------------------
(* Decimals                                                                *)

Abs(n) == IF n < 0 THEN -n ELSE n
Sign(n) == IF n < 0 THEN -1 ELSE IF n = 0 THEN 0 ELSE 1
Larger(a, b) == IF a > b THEN a ELSE b

\* Integer division of SQLite truncates towards zero, and % goes with it.
Quotient(a, b) == Sign(a) * Sign(b) * (Abs(a) \div Abs(b))
Rest(a, b) == a - b * Quotient(a, b)

Dec(n, s) == [n |-> n, s |-> s]
At(d, s) == d.n * 10^(s - d.s)
Common(a, b) == Larger(a.s, b.s)
Same(a, b) == At(a, Common(a, b)) = At(b, Common(a, b))
Bool(b) == Dec(IF b THEN 1 ELSE 0, 0)

----------------------------------------------------------------------------
(* Expressions                                                             *)

Col(c) == [op |-> "col", name |-> c]
Lit(n, s) == [op |-> "lit", n |-> n, s |-> s]
Param(n, s) == [op |-> "param", n |-> n, s |-> s]
Neg(e) == [op |-> "neg", arg |-> e]
Bin(op, l, r) == [op |-> op, left |-> l, right |-> r]
CastTo(e, s) == [op |-> "cast", arg |-> e, scale |-> s]
Round(e, places) == [op |-> "round", arg |-> e, places |-> places]
Unary(op, e) == [op |-> op, arg |-> e]
Write(e, s) == [op |-> "write", arg |-> e, scale |-> s]

Arithmetic == {"+", "-", "%"}
Comparison == {"=", "<"}
\* Two-argument calls whose result has the common type of the arguments, and
\* CASE with two arms; IN with one element.
Calls == {"coalesce", "greatest"}
Binary == Arithmetic \cup Comparison \cup Calls \cup {"*", "/", "case", "in", "mod", "div"}

----------------------------------------------------------------------------
(* What the server answers (external)                                      *)

RoundTo(d, s) ==
    IF s >= d.s THEN Dec(At(d, s), s)
    ELSE LET unit == 10^(d.s - s)
         IN  Dec(Sign(d.n) * ((Abs(d.n) + unit \div 2) \div unit), s)

Floor(d) == d.n \div 10^d.s

RECURSIVE Server(_)
Server(e) ==
    CASE e.op = "col" -> Dec(TableRow[e.name], Larger(TableColumns[e.name], 0))
      [] e.op \in {"lit", "param"} -> Dec(e.n, e.s)
      [] e.op = "neg" -> Dec(-Server(e.arg).n, Server(e.arg).s)
      [] e.op \in {"cast", "write"} -> RoundTo(Server(e.arg), e.scale)
      [] e.op = "round" ->
             IF e.places >= 0 THEN RoundTo(Server(e.arg), e.places)
             ELSE LET d == Server(e.arg)
                  IN  Dec(RoundTo(Dec(d.n, d.s - e.places), 0).n * 10^(-e.places), 0)
      [] e.op = "floor" -> Dec(Floor(Server(e.arg)), 0)
      [] e.op = "ceil" -> Dec(-Floor(Server(Neg(e.arg))), 0)
      [] e.op = "trunc" -> Dec(Quotient(Server(e.arg).n, 10^Server(e.arg).s), 0)
      [] e.op \in Binary ->
             LET l == Server(e.left)
                 r == Server(e.right)
                 s == Common(l, r)
                 L == At(l, s)
                 R == At(r, s)
             IN  CASE e.op = "+" -> Dec(L + R, s)
                   [] e.op = "-" -> Dec(L - R, s)
                   [] e.op \in {"%", "mod"} -> Dec(Rest(L, R), s)
                   [] e.op = "div" -> Dec(Quotient(L, R), 0)
                   [] e.op = "*" -> Dec(l.n * r.n, l.s + r.s)
                   [] e.op \in {"=", "in"} -> Bool(L = R)
                   [] e.op = "<" -> Bool(L < R)
                   [] e.op = "coalesce" -> Dec(L, s)
                   [] e.op = "greatest" -> Dec(Larger(L, R), s)
                   [] e.op = "case" -> Dec(R, s)

----------------------------------------------------------------------------
(* The scale of an expression                                              *)

RECURSIVE ScaleOf(_)
\* numeric_precision_and_scale_of, its second half.
ScaleOf(e) ==
    CASE e.op = "neg" -> ScaleOf(e.arg)
      [] e.op = "lit" -> IF e.s = 0 THEN 0 ELSE Unscaled
      [] e.op = "cast" -> IF e.scale > 0 THEN e.scale ELSE Unscaled
      [] e.op = "col" -> TableColumns[e.name]
      \* rounding_keeps_the_scale: only for places above zero.
      [] e.op = "round" -> IF e.places > 0 /\ ScaleOf(e.arg) > 0 THEN ScaleOf(e.arg) ELSE Unscaled
      [] e.op \in Calls -> LET w == Larger(ScaleOf(e.left), ScaleOf(e.right))
                           IN  IF w > 0 THEN w ELSE Unscaled
      [] e.op \in {"+", "-"} -> Larger(ScaleOf(e.left), ScaleOf(e.right))
      [] e.op = "*" -> IF Unscaled \notin {ScaleOf(e.left), ScaleOf(e.right)}
                       THEN ScaleOf(e.left) + ScaleOf(e.right)
                       ELSE Larger(ScaleOf(e.left), ScaleOf(e.right))
      [] OTHER -> Unscaled

RECURSIVE DigitsOf(_)
\* Its first half, for what multiplication asks: the precision.
DigitsOf(e) ==
    CASE e.op = "col" -> ColumnDigits
      [] e.op \in {"neg", "cast", "round"} -> DigitsOf(e.arg)
      [] e.op = "*" -> DigitsOf(e.left) + DigitsOf(e.right)
      [] e.op \in Binary -> Larger(DigitsOf(e.left), DigitsOf(e.right))
      [] OTHER -> 1

RECURSIVE Integral(_)
\* is_integral_expression
Integral(e) ==
    CASE e.op = "neg" -> Integral(e.arg)
      [] e.op = "lit" -> e.s = 0
      [] e.op = "cast" -> e.scale = 0
      [] e.op = "col" -> TableColumns[e.name] = Unscaled
      [] OTHER -> FALSE

Scaled(e) == ScaleOf(e) > 0

\* scale_decimal_literal applies to a number, or a sign before one.
IsLiteral(e) == e.op = "lit" \/ (e.op = "neg" /\ e.arg.op = "lit")
Places(e) == IF e.op = "neg" THEN e.arg.s ELSE e.s
IsParam(e) == e.op = "param"

----------------------------------------------------------------------------
(* The emitted form on stored numbers                                      *)

\* Fault: shrinking a scale truncates.
RescaleTruncating(d, from, to) ==
    IF to >= from THEN Dec(d.n * 10^(to - from), d.s)
    ELSE Dec(Quotient(d.n, 10^(from - to)), 0)

\* rescale_minor_units: multiply to grow; to shrink add half a unit with the
\* sign of the value and divide.
Rescale(d, from, to) ==
    IF to >= from THEN Dec(d.n * 10^(to - from), d.s)
    ELSE LET divisor == 10^(from - to)
         IN  Dec(Quotient(d.n + (divisor \div 2) * Sign(d.n), divisor), 0)

\* numeric_floor_or_ceil: (x - (x % f + f) % f) / f, and - floor(-x).
FloorOf(x, f) == Quotient(x - Rest(Rest(x, f) + f, f), f)

\* Plain arithmetic of SQLite on two stored numbers.
Plain(op, l, r) ==
    LET s == Common(l, r)
    IN  CASE op = "+" -> Dec(At(l, s) + At(r, s), s)
          [] op = "-" -> Dec(At(l, s) - At(r, s), s)
          [] op \in {"%", "mod"} -> Dec(Rest(Quotient(l.n, 10^l.s), Quotient(r.n, 10^r.s)), 0)
          [] op = "*" -> Dec(l.n * r.n, l.s + r.s)
          [] op = "/" -> Dec(Quotient(l.n, r.n), 0)
          [] op \in {"=", "in"} -> Bool(Same(l, r))
          [] op = "<" -> Bool(At(l, s) < At(r, s))

\* scale_decimal_literal and scale_parameter: onto the scale.
OntoScale(d, scale) == Dec(RoundTo(d, scale).n, 0)

RECURSIVE Stored(_)

\* scale_or_translate: a literal or a parameter onto the scale.
ScaleOrTranslate(e, scale) ==
    IF scale > 0 /\ (IsLiteral(e) \/ IsParam(e)) THEN OntoScale(Server(e), scale) ELSE Stored(e)

\* multiply_by_plain_operand: a literal of the other side at its own places.
LiteralAtOwnScale(e) ==
    IF IsLiteral(e) /\ ~ Scaled(e) THEN Dec(Server(e).n, 0) ELSE Stored(e)

\* translate_numeric_arithmetic: a product is at the sum of the scales.
Multiply(l, r) ==
    IF ~ Scaled(l) /\ ~ Scaled(r) THEN Plain("*", Stored(l), Stored(r))
    ELSE IF IsLiteral(r) /\ ~ Scaled(r) THEN Plain("*", Stored(l), LiteralAtOwnScale(r))
    ELSE Plain("*", LiteralAtOwnScale(l), Stored(r))

\* translate_numeric_arithmetic and align_minor_units: both sides on one scale.
OnCommonScale(op, l, r) ==
    LET common == Larger(ScaleOf(l), ScaleOf(r))
    IN  Plain(op, Rescale(Stored(l), Larger(ScaleOf(l), 0), common),
                  Rescale(Stored(r), Larger(ScaleOf(r), 0), common))

\* translate_binary_op: the arms in their order.
BinaryOp(op, l, r) ==
    CASE op = "*" -> Multiply(l, r)
      [] op # "*" /\ Scaled(l) /\ (IsLiteral(r) \/ IsParam(r)) ->
             Plain(op, Stored(l), OntoScale(Server(r), ScaleOf(l)))
      [] op # "*" /\ ~ (Scaled(l) /\ (IsLiteral(r) \/ IsParam(r))) /\ Scaled(r) /\ (IsLiteral(l) \/ IsParam(l)) ->
             Plain(op, OntoScale(Server(l), ScaleOf(r)), Stored(r))
      [] OTHER ->
             IF /\ Scaled(l) \/ Scaled(r)
                /\ \/ op \in Arithmetic /\ ScaleOf(l) # Unscaled /\ ScaleOf(r) # Unscaled
                   \/ /\ op \in Comparison
                      /\ ScaleOf(l) # Unscaled \/ Integral(l)
                      /\ ScaleOf(r) # Unscaled \/ Integral(r)
             THEN OnCommonScale(op, l, r)
             ELSE Plain(op, Stored(l), Stored(r))

\* scale_call_arguments: literals, parameters and narrower values widened.
CallArgument(e, scale) ==
    IF IsLiteral(e) \/ IsParam(e) THEN ScaleOrTranslate(e, scale)
    ELSE IF ScaleOf(e) # Unscaled /\ ScaleOf(e) < scale THEN Rescale(Stored(e), ScaleOf(e), scale)
    ELSE Stored(e)

\* translate_numeric_cast; an integer cast of minor units rounds.
CastStored(e) ==
    IF Scaled(e.arg) \/ e.scale > 0
    THEN Rescale(Stored(e.arg), Larger(ScaleOf(e.arg), 0), e.scale)
    ELSE Stored(e.arg)

\* NumericRound and round_to_multiple_of_ten: the result keeps the scale.
RoundStored(e) ==
    LET s == Larger(ScaleOf(e.arg), 0)
        target == IF e.places < s THEN e.places ELSE s
    IN  IF e.places <= 0 THEN Rescale(Rescale(Stored(e.arg), s - e.places, 0), 0, -e.places)
        ELSE Rescale(Rescale(Stored(e.arg), s, target), target, s)

\* numeric_floor_or_ceil
FloorStored(e) == Dec(FloorOf(Stored(e.arg).n, 10^Larger(ScaleOf(e.arg), 0)), 0)
CeilStored(e) == Dec(-FloorOf(-Stored(e.arg).n, 10^Larger(ScaleOf(e.arg), 0)), 0)

\* truncate_to_scale, to no digits
TruncStored(e) == Dec(Quotient(Stored(e.arg).n, 10^Larger(ScaleOf(e.arg), 0)), 0)

\* aligned_minor_unit_operands, of div(a, b)
DivStored(e) ==
    LET c == Larger(Larger(ScaleOf(e.left), ScaleOf(e.right)), 0)
    IN  Plain("/", Rescale(Stored(e.left), Larger(ScaleOf(e.left), 0), c),
                   Rescale(Stored(e.right), Larger(ScaleOf(e.right), 0), c))

\* coalesce and greatest: the arguments on the widest scale
CallStored(e) ==
    LET l == CallArgument(e.left, Larger(ScaleOf(e), 0))
        r == CallArgument(e.right, Larger(ScaleOf(e), 0))
    IN  IF e.op = "coalesce" \/ At(l, Common(l, r)) >= At(r, Common(l, r)) THEN l ELSE r

\* CASE: literal arms go onto the widest scale of the others.
CaseStored(e) == ScaleOrTranslate(e.right, Larger(ScaleOf(e.left), ScaleOf(e.right)))

\* IN and BETWEEN: literals go onto the scale of the expression tested.
InStored(e) == Plain("in", Stored(e.left), ScaleOrTranslate(e.right, ScaleOf(e.left)))

\* finish_value with scale_literal_for_column: what is no literal and no
\* parameter is taken to be at the column's scale.
WriteStored(e) == ScaleOrTranslate(e.arg, e.scale)

\* Expr::translate, one arm per kind.
Stored(e) ==
    CASE e.op = "col" -> Dec(TableRow[e.name], 0)
      [] e.op \in {"lit", "param"} -> Dec(e.n, e.s)
      [] e.op = "neg" -> Dec(-Stored(e.arg).n, Stored(e.arg).s)
      [] e.op = "cast" -> CastStored(e)
      [] e.op = "round" -> RoundStored(e)
      [] e.op = "floor" -> FloorStored(e)
      [] e.op = "ceil" -> CeilStored(e)
      [] e.op = "trunc" -> TruncStored(e)
      [] e.op = "mod" -> OnCommonScale("mod", e.left, e.right)
      [] e.op = "div" -> DivStored(e)
      [] e.op \in Calls -> CallStored(e)
      [] e.op = "case" -> CaseStored(e)
      [] e.op = "in" -> InStored(e)
      [] e.op = "write" -> WriteStored(e)
      [] OTHER -> BinaryOp(e.op, e.left, e.right)

----------------------------------------------------------------------------
(* Refusals                                                                *)

\* A cast to a scale of what has none and is no integer.
RefusedCast(e) == e.scale > 0 /\ ScaleOf(e.arg) = Unscaled /\ ~ Integral(e.arg)
\* scale_literal_for_column: a literal finer than the column.
RefusedWrite(e) == IsLiteral(e.arg) /\ Places(e.arg) > e.scale
RefusedQuotient(e) == Scaled(e.left) \/ Scaled(e.right)
\* translate_numeric_arithmetic: a product with too many digits
RefusedProduct(e) ==
    /\ ~ IsLiteral(e.left) /\ ~ IsLiteral(e.right)
    /\ Unscaled \notin {ScaleOf(e.left), ScaleOf(e.right)}
    /\ DigitsOf(e.left) + DigitsOf(e.right) > MaxPrecision
\* scale_decimal_literal: a literal finer than the scale it is moved onto
RefusedLiteral(e) ==
    \/ Scaled(e.left) /\ IsLiteral(e.right) /\ Places(e.right) > ScaleOf(e.left)
    \/ Scaled(e.right) /\ IsLiteral(e.left) /\ Places(e.left) > ScaleOf(e.right)

RECURSIVE Refused(_)
Refused(e) ==
    CASE e.op \in {"col", "lit", "param", "idle"} -> FALSE
      [] e.op = "cast" -> Refused(e.arg) \/ RefusedCast(e)
      [] e.op = "write" -> Refused(e.arg) \/ RefusedWrite(e)
      [] e.op \in {"neg", "round", "floor", "ceil", "trunc"} -> Refused(e.arg)
      [] OTHER ->
             \/ Refused(e.left) \/ Refused(e.right)
             \/ e.op = "/" /\ RefusedQuotient(e)
             \/ e.op = "*" /\ RefusedProduct(e)
             \/ e.op \notin {"*", "/", "mod", "div"} /\ RefusedLiteral(e)

----------------------------------------------------------------------------
(* Reading the result                                                      *)

RECURSIVE ReadScale(_)
\* The scale the emitted number is at, which a reader has to know: that of the
\* server's result, with a rounding kept at its operand's scale.
ReadScale(e) ==
    CASE e.op = "col" -> Larger(TableColumns[e.name], 0)
      [] e.op \in {"lit", "param"} \cup Comparison \cup {"floor", "ceil", "trunc", "div", "in"} -> 0
      [] e.op = "neg" -> ReadScale(e.arg)
      [] e.op \in {"cast", "write"} -> e.scale
      [] e.op = "round" -> IF e.places > 0 THEN ReadScale(e.arg) ELSE 0
      [] e.op = "*" -> LET Of(a, b) == IF IsLiteral(a) /\ Scaled(b) THEN Places(a) ELSE ReadScale(a)
                       IN  Of(e.left, e.right) + Of(e.right, e.left)
      [] OTHER -> Larger(ReadScale(e.left), ReadScale(e.right))

\* Every operand's scale is the one inferred for it.
Tracked(e) == IsLiteral(e) \/ IsParam(e) \/ ReadScale(e) = Larger(ScaleOf(e), 0)

\* A whole number that is no literal beside a scaled value: only comparisons
\* and products take account of it.
MixesIntegers(l, r) ==
    \/ Scaled(l) /\ ScaleOf(r) = Unscaled /\ ~ IsLiteral(r) /\ ~ IsParam(r)
    \/ Scaled(r) /\ ScaleOf(l) = Unscaled /\ ~ IsLiteral(l) /\ ~ IsParam(l)

\* A parameter is rounded onto the scale of the value beside it.
Fits(e, beside) == IsParam(e) => e.s <= Larger(ScaleOf(beside), 0)

RECURSIVE WellScaled(_)
WellScaled(e) ==
    CASE e.op \in {"col", "lit", "param", "idle"} -> TRUE
      [] e.op = "write" -> /\ WellScaled(e.arg) /\ Tracked(e.arg)
                           /\ IsLiteral(e.arg) \/ IsParam(e.arg) \/ ReadScale(e.arg) = e.scale
      [] e.op \in {"neg", "cast", "round", "floor", "ceil", "trunc"} ->
             /\ WellScaled(e.arg) /\ Tracked(e.arg) /\ ~ IsParam(e.arg)
             /\ e.op \in {"round", "floor", "ceil", "trunc"} => Scaled(e.arg)
             /\ e.op = "cast" => Scaled(e.arg) \/ Integral(e.arg)
      [] OTHER ->
             /\ WellScaled(e.left) /\ WellScaled(e.right)
             /\ Tracked(e.left) /\ Tracked(e.right)
             /\ Scaled(e.left) \/ Scaled(e.right)
             /\ e.op \in {"%", "mod", "div"} => Server(e.right).n # 0
             /\ Fits(e.left, e.right) /\ Fits(e.right, e.left)
             /\ e.op \in Comparison =>
                    ~ MixesIntegers(e.left, e.right) \/ (Integral(e.left) \/ Integral(e.right))
             /\ e.op \in Arithmetic \cup Calls \cup {"case", "in"} => ~ MixesIntegers(e.left, e.right)
             /\ e.op = "*" => ~ IsParam(e.left) /\ ~ IsParam(e.right)
             /\ e.op \in {"mod", "div"} => /\ Scaled(e.left) \/ Integral(e.left)
                                           /\ Scaled(e.right) \/ Integral(e.right)
             /\ e.op = "in" => Scaled(e.left)
             /\ e.op \in {"case", "in"} => \/ IsLiteral(e.left) \/ IsLiteral(e.right)
                                          \/ IsParam(e.left) \/ IsParam(e.right)
                                          \/ ScaleOf(e.left) = ScaleOf(e.right)

ValueAgrees(e) ==
    LET stored == Stored(e)
    IN  Same(Dec(stored.n, stored.s + ReadScale(e)), Server(e))

ExpressionInit == expression = NoExpression
TranslateExpression == \E e \in Expressions : \E f \in Around(e) \cup {e} : expression' = f

\* An expression over minor units that is not refused has, at the scale of its
\* result, exactly the server's value: literals, parameters, sums, products,
\* remainders, comparisons, casts, roundings, calls and writes, for every
\* expression whose operands' scales the text gives away.
MinorUnitsAreExact ==
    ~ Refused(expression) /\ WellScaled(expression) /\ expression # NoExpression
    => ValueAgrees(expression)
=============================================================================
