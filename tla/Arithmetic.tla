----------------------------- MODULE Arithmetic -----------------------------
(***************************************************************************)
(* Integers of queries (internal/exec/eval.go): arithmetic in two's         *)
(* complement from -Half to Half - 1, with the tests by which the code      *)
(* notices that a result has wrapped around ("openCypher integers do not    *)
(* wrap around").  An expression is worked out operation by operation;      *)
(* sum() adds up its rows with addInt.  Half is 2^63 in the code.           *)
(***************************************************************************)
EXTENDS Integers

CONSTANT Half

\* The width is any.
ASSUME Width == Half \in Nat \ {0}

MinInt == -Half
MaxInt == Half - 1
Int64 == MinInt..MaxInt

\* What an operation of the machine leaves of a result.
Wrap(x) == ((x + Half) % (2 * Half)) - Half

Magnitude(x) == IF x < 0 THEN -x ELSE x
Negative(x) == x < 0

\* Go's division truncates; MinInt / -1 wraps to MinInt.
Quo(a, b) == IF Negative(a) = Negative(b) THEN Magnitude(a) \div Magnitude(b)
             ELSE -(Magnitude(a) \div Magnitude(b))
Rem(a, b) == a - b * Quo(a, b)

\* The outcome of an operation.
Value(c) == [ok |-> TRUE, value |-> c]
Overflow == [ok |-> FALSE, value |-> 0]

\* Mutant of addInt: only one operand's sign is looked at.
addInt_OneSign(a, b) ==
    LET c == Wrap(a + b)
    IN IF Negative(a) # Negative(c) THEN Overflow ELSE Value(c)

\* (a^c)&(b^c) < 0: both operands have the other sign than the result.
addInt(a, b) ==
    LET c == Wrap(a + b)
    IN IF Negative(a) # Negative(c) /\ Negative(b) # Negative(c) THEN Overflow ELSE Value(c)

\* (a^b)&(a^c) < 0
subInt(a, b) ==
    LET c == Wrap(a - b)
    IN IF Negative(a) # Negative(b) /\ Negative(a) # Negative(c) THEN Overflow ELSE Value(c)

mulInt(a, b) ==
    LET c == Wrap(a * b)
    IN IF a = 0 \/ b = 0 THEN Value(0)
       ELSE IF Wrap(Quo(c, b)) # a \/ (a = -1 /\ b = MinInt) \/ (b = -1 /\ a = MinInt) THEN Overflow
       ELSE Value(c)

divInt(a, b) == IF a = MinInt /\ b = -1 THEN Overflow ELSE Value(Wrap(Quo(a, b)))
modInt(a, b) == Value(Rem(a, b))
negateInt(a) == IF a = MinInt THEN Overflow ELSE Value(Wrap(-a))
fnAbs(a) == IF a < 0 THEN negateInt(a) ELSE Value(a)

Ops == {"+", "-", "*", "/", "%", "neg", "abs"}

\* intArithmetic, evalUnary, fnAbs; a division by zero is refused before it.
intArithmetic(op, a, b) ==
    CASE op = "+" -> addInt(a, b)
      [] op = "-" -> subInt(a, b)
      [] op = "*" -> mulInt(a, b)
      [] op = "/" -> divInt(a, b)
      [] op = "%" -> modInt(a, b)
      [] op = "neg" -> negateInt(a)
      [] op = "abs" -> fnAbs(a)

\* The same operation on the integers of mathematics.
Exact(op, a, b) ==
    CASE op = "+" -> a + b
      [] op = "-" -> a - b
      [] op = "*" -> a * b
      [] op = "/" -> Quo(a, b)
      [] op = "%" -> Rem(a, b)
      [] op = "neg" -> -a
      [] op = "abs" -> Magnitude(a)

VARIABLES value,   \* the value so far
          exact,   \* what it would be without a width
          calc     \* "ok", "overflow" or "zero"

arithmeticVars == <<value, exact, calc>>

ArithmeticInit == value \in Int64 /\ exact = value /\ calc = "ok"

Apply(op, n) ==
    /\ calc = "ok"
    /\ \/ /\ op \in {"/", "%"} /\ n = 0
          /\ calc' = "zero" /\ UNCHANGED <<value, exact>>
       \/ /\ op \in {"/", "%"} => n # 0
          /\ exact' = Exact(op, exact, n)
          /\ LET r == intArithmetic(op, value, n)
             IN IF r.ok THEN value' = r.value /\ UNCHANGED calc
                ELSE calc' = "overflow" /\ UNCHANGED value

ArithmeticNext == \E op \in Ops, n \in Int64 : Apply(op, n)

ArithmeticSpec == ArithmeticInit /\ [][ArithmeticNext]_arithmeticVars

-----------------------------------------------------------------------------
\* Integers never wrap around: an expression's value is the one of mathematics,
\* and it fails with ErrIntegerOverflow exactly when a result does not fit in
\* int64 (intArithmetic, addInt, negateInt).
NeverWraps ==
    /\ value \in Int64
    /\ calc = "ok" => exact = value
    /\ calc = "overflow" => exact \notin Int64
=============================================================================
