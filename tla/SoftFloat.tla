------------------------------ MODULE SoftFloat ------------------------------
(***************************************************************************)
(* The softfloat intrinsics of wasm_interface.cpp (class softfloat_api)    *)
(* on a binary floating-point format of ExpBits exponent bits and ManBits  *)
(* fraction bits.  A value is its bit pattern, a natural number below      *)
(* 2^W, exactly as float32_t.v / float64_t.v holds it; the bit tricks of   *)
(* the code are translated with W, ExpBits, ManBits and Bias in place of   *)
(* 32, 8, 23 and 0x7F (or 64, 11, 52 and 0x3FF).                           *)
(*                                                                         *)
(* The library functions the code calls (f32_lt, f32_le, f32_eq, f32_add, *)
(* f32_sub, f32_to_i32...) are modelled by what IEEE 754 says they do.     *)
(* Real numbers are represented exactly as integers scaled by Den, the     *)
(* reciprocal of the smallest subnormal.                                   *)
(***************************************************************************)
EXTENDS Integers

CONSTANTS ExpBits, ManBits

W       == 1 + ExpBits + ManBits
Bias    == 2^(ExpBits - 1) - 1
ExpMax  == 2^ExpBits - 1
Words   == 0 .. 2^W - 1
SignBit == 2^(W - 1)
Den     == 2^(Bias - 1 + ManBits)

SignOf(x)   == x \div SignBit
ExpField(x) == (x \div 2^ManBits) % 2^ExpBits
ManField(x) == x % 2^ManBits

\* f32_is_nan / f64_is_nan (is_nan)
IsNaN(x) == ExpField(x) = ExpMax /\ ManField(x) # 0
IsInf(x) == ExpField(x) = ExpMax /\ ManField(x) = 0

\* the exact value of a finite pattern, times Den
Val(x) ==
    LET sig   == IF ExpField(x) = 0 THEN ManField(x) ELSE 2^ManBits + ManField(x)
        shift == IF ExpField(x) = 0 THEN 0 ELSE ExpField(x) - 1
    IN  (IF SignOf(x) = 1 THEN -1 ELSE 1) * sig * 2^shift

\* the pattern of a representable magnitude m (times Den), m >= 0
Binade(m) ==
    IF m < 2^(ManBits + 1) THEN 0
    ELSE CHOOSE s \in 1 .. ExpMax - 2 :
             2^(ManBits + s) <= m /\ m < 2^(ManBits + 1 + s)
Encode(m) ==
    IF m < 2^ManBits THEN m
    ELSE (Binade(m) + 1) * 2^ManBits + (m \div 2^Binade(m) - 2^ManBits)

PosOne == Bias * 2^ManBits               \* 0x3F800000
NegOne == SignBit + PosOne               \* 0xBF800000
PowerOfTwo(k) == Encode(Den * 2^k)       \* 2^k as a float constant

(***************************************************************************)
(* IEEE operations of the softfloat library, on non-NaN finite operands   *)
(* where the code uses them: round-to-nearest-even addition, and the      *)
(* ordered comparisons (false on a NaN operand, -0 = +0).                 *)
(***************************************************************************)
RoundMag(m) ==
    LET u == 2^Binade(m)
        q == m \div u
        r == m % u
    IN  u * (IF 2 * r > u \/ (2 * r = u /\ q % 2 = 1) THEN q + 1 ELSE q)
RoundVal(v) ==
    IF v = 0 THEN 0
    ELSE IF v > 0 THEN Encode(RoundMag(v)) ELSE SignBit + Encode(RoundMag(-v))

FAdd(x, y) == RoundVal(Val(x) + Val(y))
FSub(x, y) == RoundVal(Val(x) - Val(y))
FLt(x, y) == ~IsNaN(x) /\ ~IsNaN(y) /\ Val(x) < Val(y)
FLe(x, y) == ~IsNaN(x) /\ ~IsNaN(y) /\ Val(x) <= Val(y)
FEq(x, y) == ~IsNaN(x) /\ ~IsNaN(y) /\ Val(x) = Val(y)

-----------------------------------------------------------------------------
(***************************************************************************)
(* The intrinsics.                                                         *)
(***************************************************************************)

\* mutant: min without the signed-zero branch
MinNoSignBranch(a, b) ==
    IF IsNaN(a) THEN a ELSE IF IsNaN(b) THEN b
    ELSE IF FLt(a, b) THEN a ELSE b

\* _eosio_f32_min: a NaN operand is returned as it is (a's first), operands
\* of different sign are ordered by sign, the rest by f32_lt
Min(a, b) ==
    IF IsNaN(a) THEN a ELSE IF IsNaN(b) THEN b
    ELSE IF SignOf(a) # SignOf(b) THEN (IF SignOf(a) = 1 THEN a ELSE b)
    ELSE IF FLt(a, b) THEN a ELSE b

\* _eosio_f32_max
Max(a, b) ==
    IF IsNaN(a) THEN a ELSE IF IsNaN(b) THEN b
    ELSE IF SignOf(a) # SignOf(b) THEN (IF SignOf(a) = 1 THEN b ELSE a)
    ELSE IF FLt(a, b) THEN b ELSE a

\* _eosio_f32_copysign, _eosio_f32_abs, _eosio_f32_neg: sign-bit surgery
Copysign(a, b) == (a % SignBit) + SignOf(b) * SignBit
Abs(a)         == a % SignBit
Neg(a)         == (a % SignBit) + (1 - SignOf(a)) * SignBit

\* a.v &= ~m for m = 2^k - 1
ClearLow(v, k) == v - (v % 2^k)

\* _eosio_f32_ceil (from libc): e = unbiased exponent; an integral or
\* special value is returned as it is, a fraction is cleared after adding
\* the mask to a positive pattern; |a| < 1 goes to -0, +1 or stays +0
F32Ceil(a) ==
    LET e == ExpField(a) - Bias
    IN  IF e >= ManBits THEN a
        ELSE IF e >= 0
        THEN IF a % 2^(ManBits - e) = 0 THEN a
             ELSE ClearLow(IF SignOf(a) = 0
                           THEN (a + 2^(ManBits - e) - 1) % 2^W ELSE a,
                           ManBits - e)
        ELSE IF SignOf(a) = 1 THEN SignBit
        ELSE IF a % SignBit # 0 THEN PosOne
        ELSE a

\* mutant: floor adds the mask to positive patterns (ceil's test)
F32FloorWrongSign(a) ==
    LET e == ExpField(a) - Bias
    IN  IF e >= ManBits THEN a
        ELSE IF e >= 0
        THEN IF a % 2^(ManBits - e) = 0 THEN a
             ELSE ClearLow(IF SignOf(a) = 0
                           THEN (a + 2^(ManBits - e) - 1) % 2^W ELSE a,
                           ManBits - e)
        ELSE IF SignOf(a) = 0 THEN 0
        ELSE IF a % SignBit # 0 THEN NegOne
        ELSE a

\* _eosio_f32_floor (from libc)
F32Floor(a) ==
    LET e == ExpField(a) - Bias
    IN  IF e >= ManBits THEN a
        ELSE IF e >= 0
        THEN IF a % 2^(ManBits - e) = 0 THEN a
             ELSE ClearLow(IF SignOf(a) = 1
                           THEN (a + 2^(ManBits - e) - 1) % 2^W ELSE a,
                           ManBits - e)
        ELSE IF SignOf(a) = 0 THEN 0
        ELSE IF a % SignBit # 0 THEN NegOne
        ELSE a

\* _eosio_f32_trunc: e counts the sign and exponent bits too (+ 9), and
\* |a| < 1 keeps only the sign (e = 1)
Trunc(a) ==
    LET e0 == ExpField(a) - Bias + ExpBits + 1
        e  == IF e0 < ExpBits + 1 THEN 1 ELSE e0
    IN  IF e0 >= ManBits + ExpBits + 1 THEN a
        ELSE IF a % 2^(W - e) = 0 THEN a
        ELSE ClearLow(a, W - e)

\* _eosio_f32_nearest: adding and removing 2^ManBits (inv_float_eps)
\* rounds to an integer, to nearest even; a zero result takes a's sign
InvEps == (Bias + ManBits) * 2^ManBits   \* 0x4B000000
Nearest(a) ==
    IF ExpField(a) >= Bias + ManBits THEN a
    ELSE LET y == IF SignOf(a) = 1 THEN FAdd(FSub(a, InvEps), InvEps)
                  ELSE FSub(FAdd(a, InvEps), InvEps)
         IN  IF FEq(y, 0) THEN SignOf(a) * SignBit ELSE y

\* _eosio_f64_ceil / _eosio_f64_floor use another libc algorithm: y is the
\* gap from a to its nearest integer, computed by the same additions
RoundingGap(a) ==
    IF SignOf(a) = 1 THEN FSub(FAdd(FSub(a, InvEps), InvEps), a)
    ELSE FSub(FSub(FAdd(a, InvEps), InvEps), a)

\* _eosio_f64_ceil: integral, special and zero values are returned, |a| < 1
\* goes to -0 or +1, else a + y, plus one when y < 0
F64Ceil(a) ==
    IF ExpField(a) >= Bias + ManBits \/ FEq(a, 0) THEN a
    ELSE IF ExpField(a) <= Bias - 1 THEN (IF SignOf(a) = 1 THEN SignBit ELSE PosOne)
    ELSE IF FLt(RoundingGap(a), 0) THEN FAdd(FAdd(a, RoundingGap(a)), PosOne)
    ELSE FAdd(a, RoundingGap(a))

\* _eosio_f64_floor: -0 and +0 are returned as they are, |a| < 1 goes to
\* -1 or +0, else a + y, minus one when y > 0
F64Floor(a) ==
    IF a = SignBit THEN a
    ELSE IF ExpField(a) >= Bias + ManBits \/ a = 0 THEN a
    ELSE IF ExpField(a) <= Bias - 1 THEN (IF SignOf(a) = 1 THEN NegOne ELSE 0)
    ELSE IF ~FLe(RoundingGap(a), 0) THEN FSub(FAdd(a, RoundingGap(a)), PosOne)
    ELSE FAdd(a, RoundingGap(a))

\* mutant: gt without the NaN guards
GtNoNaNGuard(a, b) == ~FLe(a, b)

\* _eosio_f32_gt / _eosio_f32_ge: false on a NaN operand, else the
\* negation of f32_le / f32_lt
Gt(a, b) == IF IsNaN(a) \/ IsNaN(b) THEN FALSE ELSE ~FLe(a, b)
Ge(a, b) == IF IsNaN(a) \/ IsNaN(b) THEN FALSE ELSE ~FLt(a, b)


(***************************************************************************)
(* The quad-precision comparison builtins of compiler_builtins: the        *)
(* helper ___cmptf2 returns -1, 0 or 1, or the caller's sentinel when an   *)
(* operand is NaN (__unordtf2).                                            *)
(***************************************************************************)
\* __unordtf2
Unordtf2(a, b) == IF IsNaN(a) \/ IsNaN(b) THEN 1 ELSE 0

\* ___cmptf2
Cmptf2(a, b, nanValue) ==
    IF Unordtf2(a, b) = 1 THEN nanValue
    ELSE IF FLt(a, b) THEN -1
    ELSE IF FEq(a, b) THEN 0
    ELSE 1

\* mutant: __getf2 passes the sentinel of __letf2
TfSentinelGeSwapped(name) ==
    CASE name \in {"eqtf2", "netf2", "letf2", "cmptf2"} -> 1
      [] name = "getf2" -> 1
      [] name \in {"gttf2", "lttf2"} -> 0

\* the sentinel each of __eqtf2 ... __cmptf2 passes to ___cmptf2
TfSentinel(name) ==
    CASE name \in {"eqtf2", "netf2", "letf2", "cmptf2"} -> 1
      [] name = "getf2" -> -1
      [] name \in {"gttf2", "lttf2"} -> 0

(***************************************************************************)
(* _eosio_f{32,64}_trunc_{i32,u32,i64,u64}{s,u}: an N-bit conversion.  A   *)
(* signed one traps when a >= 2^(N-1) or a < -2^(N-1), an unsigned one     *)
(* when a >= 2^N or a <= -1, and both on NaN; otherwise f32_to_i32 of      *)
(* trunc(a), an exact integer.  The outcome is [trap, val].                *)
(***************************************************************************)
\* mutant: the signed upper limit tested with gt instead of ge
TruncToIntGtLimit(a, n, signed) ==
    LET over == IF signed
                THEN Gt(a, PowerOfTwo(n - 1)) \/ FLt(a, SignBit + PowerOfTwo(n - 1))
                ELSE Ge(a, PowerOfTwo(n)) \/ FLe(a, NegOne)
    IN  IF over \/ IsNaN(a) THEN [trap |-> TRUE, val |-> 0]
        ELSE [trap |-> FALSE, val |-> Val(Trunc(a)) \div Den]

\* mutant: the is_nan test dropped
TruncToIntNoNaNCheck(a, n, signed) ==
    LET over == IF signed
                THEN Ge(a, PowerOfTwo(n - 1)) \/ FLt(a, SignBit + PowerOfTwo(n - 1))
                ELSE Ge(a, PowerOfTwo(n)) \/ FLe(a, NegOne)
    IN  IF over THEN [trap |-> TRUE, val |-> 0]
        ELSE [trap |-> FALSE, val |-> Val(Trunc(a)) \div Den]

TruncToInt(a, n, signed) ==
    LET over == IF signed
                THEN Ge(a, PowerOfTwo(n - 1)) \/ FLt(a, SignBit + PowerOfTwo(n - 1))
                ELSE Ge(a, PowerOfTwo(n)) \/ FLe(a, NegOne)
    IN  IF over \/ IsNaN(a) THEN [trap |-> TRUE, val |-> 0]
        ELSE [trap |-> FALSE, val |-> Val(Trunc(a)) \div Den]

-----------------------------------------------------------------------------
(***************************************************************************)
(* Reference definitions: IEEE 754 / WebAssembly semantics on exact values *)
(***************************************************************************)
FloorInt(v)   == v \div Den
CeilInt(v)    == -((-v) \div Den)
TruncInt(v)   == IF v >= 0 THEN FloorInt(v) ELSE CeilInt(v)
NearestInt(v) ==
    LET q == v \div Den
        r == v % Den
    IN  IF 2 * r > Den \/ (2 * r = Den /\ q % 2 = 1) THEN q + 1 ELSE q

\* r is a correct rounding of a to an integer by the rule RefInt
RoundedTo(a, r, RefInt(_)) ==
    IF IsNaN(a) THEN IsNaN(r)
    ELSE /\ ~IsNaN(r)
         /\ SignOf(r) = SignOf(a)
         /\ IsInf(a) => r = a
         /\ ~IsInf(a) => ~IsInf(r) /\ Val(r) = Den * RefInt(Val(a))

RoundingOk(op, a, r) ==
    CASE op = "ceil"    -> RoundedTo(a, r, CeilInt)
      [] op = "floor"   -> RoundedTo(a, r, FloorInt)
      [] op = "trunc"   -> RoundedTo(a, r, TruncInt)
      [] op = "nearest" -> RoundedTo(a, r, NearestInt)
      [] OTHER          -> TRUE

\* r is the WebAssembly min (Less = TRUE) or max of a and b: NaN if either
\* is, else an operand no greater (no less) than both, -0 below +0
MinMaxOf(a, b, r, Less) ==
    IF IsNaN(a) \/ IsNaN(b) THEN IsNaN(r)
    ELSE /\ r \in {a, b}
         /\ \A z \in {a, b} :
               IF Less THEN Val(r) < Val(z) \/ (Val(r) = Val(z) /\ SignOf(r) >= SignOf(z))
               ELSE Val(r) > Val(z) \/ (Val(r) = Val(z) /\ SignOf(r) <= SignOf(z))

\* the truncation of a is an N-bit integer
Representable(a, n, signed) ==
    /\ ~IsNaN(a) /\ ~IsInf(a)
    /\ IF signed THEN TruncInt(Val(a)) \in -(2^(n - 1)) .. 2^(n - 1) - 1
       ELSE TruncInt(Val(a)) \in 0 .. 2^n - 1
=============================================================================
