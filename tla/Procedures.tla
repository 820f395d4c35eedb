------------------------------ MODULE Procedures ------------------------------
(***************************************************************************)
(* The procedures a program calls with numbers (subr_base_arith.cpp,       *)
(* subr_r5rs_arith.cpp, subr_bitwise.cpp): they take any number of any     *)
(* objects, refuse what they are not defined for, and leave the rest to    *)
(* arith.cpp, pairs of fixnums excepted.  Flonums are left out.            *)
(***************************************************************************)
EXTENDS Numbers

Refused == [type |-> "refused"]      \* a violation is raised

Other == [type |-> "other"]          \* an object that is no number

True == [type |-> "true"]

False == [type |-> "false"]

Truth(b) == IF b THEN True ELSE False

IsNumber(x) == x.type \in {"fixnum", "bignum", "rational", "complex"}

IsRealNumber(x) == IsNumber(x) /\ IsReal(x)

(***************************************************************************)
(* + - * / and the bit operations: none, one, two or more arguments.       *)
(***************************************************************************)
ArithOps == {"add", "sub", "mul", "div"}

Accepts(op, x) == IF op \in BitOps THEN IsInteger(x) ELSE IsNumber(x)

NoArgument(op) ==
  CASE op \in {"sub", "div"}        -> Refused
    [] op \in {"add", "ior", "xor"} -> Fixnum(0)
    [] op = "mul"                   -> Fixnum(1)
    [] op = "and"                   -> Fixnum(-1)

OneArgument(op, x) ==
  CASE op = "sub"                      -> Negate(x)
    [] op = "div" /\ x = Fixnum(0)     -> Refused
    [] op = "div" /\ x # Fixnum(0)     -> Reciprocal(x)
    [] OTHER                           -> x

OnFixnums(op, m, n) ==
  CASE op = "add" -> IntToInteger(m + n)
    [] op = "sub" -> IntToInteger(m - n)
    [] op = "mul" -> IntToInteger(m * n)

Combine(op, acc, x) ==
  IF acc = Refused \/ (op = "div" /\ x = Fixnum(0)) THEN Refused
  ELSE IF op \in BitOps THEN Logical(op, acc, x) ELSE Arith(op, acc, x)

RECURSIVE Accumulate(_, _, _)
Accumulate(op, acc, args) ==
  IF args = <<>> THEN acc ELSE Accumulate(op, Combine(op, acc, Head(args)), Tail(args))

Call(op, args) ==
  IF \E i \in DOMAIN args : ~Accepts(op, args[i]) THEN Refused
  ELSE CASE Len(args) = 0 -> NoArgument(op)
         [] Len(args) = 1 -> OneArgument(op, Head(args))
         [] OTHER -> IF /\ op \in {"add", "sub", "mul"} /\ Len(args) = 2
                        /\ BothFixnums(args[1], args[2])
                     THEN OnFixnums(op, args[1].n, args[2].n)
                     ELSE Accumulate(op, Head(args), Tail(args))

(***************************************************************************)
(* = and the orders: every argument is looked at before any is compared.   *)
(***************************************************************************)
Related(op, c) ==
  CASE op = "<" -> c < 0
    [] op = ">" -> c > 0
    [] op = "<=" -> c <= 0
    [] op = ">=" -> c >= 0

NumEqual(args) ==
  IF args = <<>> \/ \E i \in DOMAIN args : ~IsNumber(args[i]) THEN Refused
  ELSE Truth(\A i \in 1..(Len(args) - 1) : Equal(args[i], args[i + 1]))

NumOrder_EndsOnly(op, args) ==
  IF args = <<>> \/ \E i \in DOMAIN args : ~IsRealNumber(args[i]) THEN Refused
  ELSE Truth(Len(args) = 1 \/ Related(op, Compare(args[1], args[Len(args)])))

NumOrder(op, args) ==
  IF args = <<>> \/ \E i \in DOMAIN args : ~IsRealNumber(args[i]) THEN Refused
  ELSE Truth(\A i \in 1..(Len(args) - 1) : Related(op, Compare(args[i], args[i + 1])))

IsZero(x) == IF IsNumber(x) THEN Truth(x = Fixnum(0)) ELSE Refused

IsPositive(x) == IF IsRealNumber(x) THEN Truth(SignOf(x) > 0) ELSE Refused

IsNegative(x) == IF IsRealNumber(x) THEN Truth(SignOf(x) < 0) ELSE Refused

Parity(x) == IF IsNumber(x) /\ IsInteger(x) THEN Truth(IsEven(x)) ELSE Refused

(***************************************************************************)
(* One argument.                                                           *)
(***************************************************************************)
Roundings == {"floor", "ceiling", "truncate", "round"}

Rounded(op, x) ==
  IF ~IsRealNumber(x) THEN Refused
  ELSE CASE op = "floor"    -> Floor(x)
         [] op = "ceiling"  -> Ceiling(x)
         [] op = "truncate" -> Truncation(x)
         [] op = "round"    -> Round(x)

Parts == {"numerator", "denominator", "abs", "real-part", "imag-part"}

PartOf(op, x) ==
  CASE ~IsNumber(x)               -> Refused
    [] IsNumber(x) /\ ~IsReal(x)  -> CASE op = "real-part" -> x.real
                                       [] op = "imag-part" -> x.imag
                                       [] OTHER            -> Refused
    [] IsRealNumber(x)            -> CASE op = "real-part"   -> x
                                       [] op = "imag-part"   -> Fixnum(0)
                                       [] op = "numerator"   -> Nume(x)
                                       [] op = "denominator" -> Deno(x)
                                       [] op = "abs"         -> Magnitude(x)

(* exact-integer-sqrt: the root and the rest.                              *)
Rest(x, root) == SubInt(x, MulInt(root, root))

SqrtAndRest(op, x) ==
  IF IsInteger(x) /\ SignOf(x) >= 0
  THEN IF op = "root" THEN ExactSqrt(x) ELSE Rest(x, ExactSqrt(x))
  ELSE Refused

BitwiseNot(x) == IF IsInteger(x) THEN Lognot(x) ELSE Refused

(* The shift is a number that the program gives, a fixnum; Logash says     *)
(* what becomes of one that is no int.                                     *)
ArithmeticShift(x, shift) == IF IsInteger(x) THEN Logash(x, shift) ELSE Refused

(***************************************************************************)
(* Two arguments.                                                          *)
(***************************************************************************)
Divisions == {"div", "div0", "quotient", "remainder", "modulo"}

Divided(op, x, y) ==
  IF \/ ~IsRealNumber(x) \/ ~IsRealNumber(y) \/ y = Fixnum(0)
     \/ op \in {"quotient", "remainder", "modulo"} /\ ~(IsInteger(x) /\ IsInteger(y))
  THEN Refused
  ELSE CASE op = "div"       -> IntegerDiv(x, y)
         [] op = "div0"      -> IntegerDiv0(x, y)
         [] op = "quotient"  -> Quotient(x, y)
         [] op = "remainder" -> Remainder(x, y)
         [] op = "modulo"    -> Modulo(x, y)

(* 1, -1 and 0 have powers however large the exponent, here an integer.  0 *)
(* to a negative power is not exact, and left out.                         *)
Power(x, y) ==
  IF ~IsNumber(x) \/ ~IsNumber(y) THEN Refused
  ELSE CASE x = Fixnum(1)  -> Fixnum(1)
         [] x = Fixnum(-1) -> Fixnum(IF IsEven(y) THEN 1 ELSE -1)
         [] x = Fixnum(0)  -> Fixnum(IF y = Fixnum(0) THEN 1 ELSE 0)
         [] OTHER          -> IF IsFixnum(y) THEN Expt(x, y.n) ELSE Refused

MakeRectangular(x, y) ==
  IF IsRealNumber(x) /\ IsRealNumber(y) THEN NormComplex(x, y) ELSE Refused
==============================================================================
