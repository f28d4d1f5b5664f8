------------------------------ MODULE Fractions ------------------------------
(***************************************************************************)
(* Exact rational arithmetic, the stand-in for the JavaScript numbers of   *)
(* the viewport.  A fraction is a record [n, d] in lowest terms, d > 0.    *)
(* Rounding of binary floating point is not modelled: every value the     *)
(* viewport computes is exact here.                                        *)
(***************************************************************************)
LOCAL INSTANCE Integers

RECURSIVE GCD(_, _)
GCD(a, b) == IF b = 0 THEN a ELSE GCD(b, a % b)

LOCAL Abs(k) == IF k < 0 THEN -k ELSE k

\* n / d in lowest terms (d # 0).
Frac(n, d) ==
    LET s == IF d < 0 THEN -1 ELSE 1
        g == GCD(Abs(n), Abs(d))
    IN  [n |-> (s * n) \div g, d |-> (s * d) \div g]

QInt(k) == [n |-> k, d |-> 1]

QAdd(a, b) == Frac(a.n * b.d + b.n * a.d, a.d * b.d)
QSub(a, b) == Frac(a.n * b.d - b.n * a.d, a.d * b.d)
QMul(a, b) == Frac(a.n * b.n, a.d * b.d)
QDiv(a, b) == Frac(a.n * b.d, a.d * b.n)

QLt(a, b) == a.n * b.d < b.n * a.d
QLe(a, b) == a.n * b.d <= b.n * a.d

\* Math.min, Math.max and Math.floor.
QMin(a, b) == IF QLe(a, b) THEN a ELSE b
QMax(a, b) == IF QLe(a, b) THEN b ELSE a
QFloor(a) == a.n \div a.d

=============================================================================
