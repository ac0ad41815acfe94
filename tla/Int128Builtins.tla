---------------------------- MODULE Int128Builtins ----------------------------
(***************************************************************************)
(* The 128-bit integer compiler builtins of wasm_interface.cpp (class      *)
(* compiler_builtins): shifts, multiplication, signed and unsigned         *)
(* division and remainder.  A contract passes each 128-bit operand as two  *)
(* 64-bit halves (low, high); the builtin joins them, computes, and        *)
(* returns the 128-bit result, or fails with arithmetic_exception on a     *)
(* zero divisor.                                                           *)
(*                                                                         *)
(* The width is scaled: an operand has Width bits made of two halves of    *)
(* Half bits.  A result is its bit pattern in 0 .. 2^Width - 1.  Where the *)
(* code shifts into the sign bit of __int128 or overflows a signed         *)
(* multiplication or division, the build (GCC/Clang and libgcc's __divti3) *)
(* wraps modulo 2^Width, and the model does the same.                      *)
(***************************************************************************)
EXTENDS Integers

CONSTANTS Half, ShiftAmounts,
          ArithmeticException   \* the exception a zero divisor raises

Width == 2 * Half
Words == 0 .. 2^Width - 1
Halves == 0 .. 2^Half - 1

ASSUME ShiftAmounts \subseteq Nat

\* lhs = ha; lhs <<= 64; lhs |= la
Join(lo, hi) == hi * 2^Half + lo
\* the pattern of an integer, and the __int128 a pattern holds
Wrap(x)     == x % 2^Width
ToSigned(u) == IF u >= 2^(Width - 1) THEN u - 2^Width ELSE u

\* C's / and % on signed operands: the quotient is truncated toward zero
CDiv(a, b) ==
    IF (a >= 0) = (b > 0) THEN (IF a >= 0 THEN a ELSE -a) \div (IF b > 0 THEN b ELSE -b)
    ELSE -((IF a >= 0 THEN a ELSE -a) \div (IF b > 0 THEN b ELSE -b))
CMod(a, b) == a - b * CDiv(a, b)

\* __ashlti3 / __lshlti3: fc::uint128_t i(high, low); i <<= shift.  fc's
\* uint128 shifts clear the value for a count of 128 or more, as the
\* multiplication does.  A shift yields the set of results the build may
\* produce, one result here.
Ashlti3(low, high, shift) == {Wrap(Join(low, high) * 2^shift)}
Lshlti3(low, high, shift) == {Wrap(Join(low, high) * 2^shift)}

\* __lshrti3: fc::uint128_t i(high, low); i >>= shift
Lshrti3(low, high, shift) == {Join(low, high) \div 2^shift}

\* an arithmetic right shift of the __int128 a pattern holds
ArithShift(u, s) == Wrap(ToSigned(u) \div 2^s)

\* __ashrti3: ret = high; ret <<= 64; ret |= low; ret >>= shift keeps the
\* sign.  The native >>= of a count of Width or more is undefined; x86-64
\* GCC and Clang emit shrd/sar on the count masked to 6 bits and test bit
\* 6, which shifts by the count modulo the width
Ashrti3(low, high, shift) ==
    {ArithShift(Join(low, high), shift % Width)}

\* mutant: the quotient rounded toward minus infinity
Divti3Floor(la, ha, lb, hb) ==
    LET lhs == ToSigned(Join(la, ha))
        rhs == ToSigned(Join(lb, hb))
    IN  IF rhs = 0 THEN ArithmeticException ELSE Wrap(lhs \div rhs)

\* __divti3: the zero check, then lhs /= rhs
Divti3(la, ha, lb, hb) ==
    LET lhs == ToSigned(Join(la, ha))
        rhs == ToSigned(Join(lb, hb))
    IN  IF rhs = 0 THEN ArithmeticException ELSE Wrap(CDiv(lhs, rhs))

\* __udivti3
Udivti3(la, ha, lb, hb) ==
    IF Join(lb, hb) = 0 THEN ArithmeticException ELSE Join(la, ha) \div Join(lb, hb)

\* __multi3: lhs *= rhs on __int128
Multi3(la, ha, lb, hb) ==
    Wrap(ToSigned(Join(la, ha)) * ToSigned(Join(lb, hb)))

\* __modti3
Modti3(la, ha, lb, hb) ==
    LET lhs == ToSigned(Join(la, ha))
        rhs == ToSigned(Join(lb, hb))
    IN  IF rhs = 0 THEN ArithmeticException ELSE Wrap(CMod(lhs, rhs))

\* __umodti3
Umodti3(la, ha, lb, hb) ==
    IF Join(lb, hb) = 0 THEN ArithmeticException ELSE Join(la, ha) % Join(lb, hb)

-----------------------------------------------------------------------------
(***************************************************************************)
(* Calls by a contract: the state is the last call and its result.         *)
(***************************************************************************)
VARIABLES fn, args, res
vars == <<fn, args, res>>

ShiftFns  == {"ashlti3", "ashrti3", "lshlti3", "lshrti3"}
SignedFns == {"divti3", "multi3", "modti3"}
Fns == ShiftFns \cup SignedFns \cup {"udivti3", "umodti3"}

TypeOK ==
    /\ fn \in Fns \cup {"none"}
    /\ res = ArithmeticException \/ res \in Words

Init == fn = "none" /\ args = <<>> /\ res = 0

Idle == fn = "none"

Shift(name, F(_, _, _)) ==
    /\ Idle
    /\ \E lo, hi \in Halves, s \in ShiftAmounts :
          fn' = name /\ args' = <<lo, hi, s>> /\ res' \in F(lo, hi, s)

Binary(name, F(_, _, _, _)) ==
    /\ Idle
    /\ \E la, ha, lb, hb \in Halves :
          fn' = name /\ args' = <<la, ha, lb, hb>> /\ res' = F(la, ha, lb, hb)

Return == ~Idle /\ fn' = "none" /\ args' = <<>> /\ res' = 0

Next ==
    \/ Shift("ashlti3", Ashlti3) \/ Shift("ashrti3", Ashrti3)
    \/ Shift("lshlti3", Lshlti3) \/ Shift("lshrti3", Lshrti3)
    \/ Binary("divti3", Divti3) \/ Binary("udivti3", Udivti3)
    \/ Binary("multi3", Multi3) \/ Binary("modti3", Modti3)
    \/ Binary("umodti3", Umodti3)
    \/ Return

Spec == Init /\ [][Next]_vars
-----------------------------------------------------------------------------
(***************************************************************************)
(* Reference definitions, independent of the code's C operators: the       *)
(* quotient of C99 division is the q with a = q * b + r, |r| < |b| and r   *)
(* zero or of the sign of a; an arithmetic right shift fills the vacated   *)
(* bits with the sign bit; a product of two's-complement patterns is the   *)
(* product of the unsigned patterns, modulo 2^Width.                       *)
(***************************************************************************)
AbsOf(x) == IF x >= 0 THEN x ELSE -x
RefQuotient(a, b) ==
    CHOOSE q \in -(2^Width) .. 2^Width :
        LET r == a - q * b
        IN  AbsOf(r) < AbsOf(b) /\ (r = 0 \/ (r > 0) = (a > 0))
RefAshr(u, s) ==
    u \div 2^s + (IF u >= 2^(Width - 1) THEN 2^Width - 2^(Width - s) ELSE 0)

Operands == <<Join(args[1], args[2]), Join(args[3], args[4])>>

(***************************************************************************)
(* ArithmeticMatchesReference: a call of __divti3, __modti3, __udivti3,   *)
(* __umodti3, __multi3, or of __ashrti3 by less than the width, returns    *)
(* the reference result modulo 2^Width, reading its operands as the        *)
(* two's-complement values of the joined halves, and a zero divisor        *)
(* raises arithmetic_exception.  It relates the joining of the halves, the *)
(* sign handling of / and % and of >>, and the zero check.  __ashlti3,     *)
(* __lshlti3 and __lshrti3 are not checked (each is one fc shift), and     *)
(* __ashrti3 by the width or more is SignedResultsExact's case.            *)
(***************************************************************************)
ArithmeticMatchesReference ==
    LET u == Operands[1]
        v == Operands[2]
        a == ToSigned(u)
        b == ToSigned(v)
    IN  /\ fn \in {"divti3", "modti3", "udivti3", "umodti3"} =>
              (res = ArithmeticException) = (v = 0)
        /\ fn = "divti3" /\ v # 0 => res = Wrap(RefQuotient(a, b))
        /\ fn = "modti3" /\ v # 0 => res = Wrap(a - b * RefQuotient(a, b))
        /\ fn = "udivti3" /\ v # 0 => res = Wrap(RefQuotient(u, v))
        /\ fn = "umodti3" /\ v # 0 => res = Wrap(u - v * RefQuotient(u, v))
        /\ fn = "multi3" => res = Wrap(u * v)
        /\ fn = "ashrti3" /\ args[3] < Width => res = RefAshr(Join(args[1], args[2]), args[3])

(***************************************************************************)
(* SignedResultsExact: a signed builtin that returns gives the exact       *)
(* result of its operands, as a contract reading "divide by zero" as the   *)
(* only failure expects: __divti3 the exact quotient, and __ashrti3 the    *)
(* floor of a / 2^shift, which for a count of the width or more is 0 or -1 *)
(* (the sign), as __lshrti3's fc shift gives 0.  Both INT128_MIN / -1 and  *)
(* a count past the width reach C++ operations the standard leaves         *)
(* undefined.                                                              *)
(***************************************************************************)
SignedResultsExact ==
    /\ fn = "divti3" /\ res # ArithmeticException =>
          ToSigned(res) = RefQuotient(ToSigned(Operands[1]), ToSigned(Operands[2]))
    /\ fn = "ashrti3" =>
          ToSigned(res) = LET a == ToSigned(Join(args[1], args[2]))
                          IN  IF args[3] < Width THEN a \div 2^args[3]
                              ELSE IF a < 0 THEN -1 ELSE 0
=============================================================================
