---------------------------- MODULE SoftFloatCalls ----------------------------
(***************************************************************************)
(* Calls of the softfloat intrinsics of wasm_interface.cpp by a contract.  *)
(* Each step is one call of one intrinsic with arguments chosen freely;    *)
(* the state records the call (format, operation, arguments) and its       *)
(* outcome, so that the invariants relate every outcome to the reference   *)
(* semantics of its operation.                                             *)
(*                                                                         *)
(* f32 and f64 are two formats of SoftFloat: (E32, M32) and (E64, M64)     *)
(* exponent and fraction bits, scaled down from (8, 23) and (11, 52).  The *)
(* integer widths N32 and N64 stand for 32 and 64 and keep the relations   *)
(* of the real widths: M32 < N32 - 1 < M64 < N64 - 1.                      *)
(***************************************************************************)
EXTENDS Integers, Sequences

CONSTANTS E32, M32, E64, M64, E128, M128, N32, N64,
          Sample64     \* the f64 operands of the two-operand intrinsics

F32 == INSTANCE SoftFloat WITH ExpBits <- E32, ManBits <- M32
F64 == INSTANCE SoftFloat WITH ExpBits <- E64, ManBits <- M64
F128 == INSTANCE SoftFloat WITH ExpBits <- E128, ManBits <- M128

ASSUME M32 < N32 - 1 /\ N32 - 1 < M64 /\ M64 < N64 - 1
ASSUME Sample64 \subseteq F64!Words

VARIABLES fmt, op, arg, res
vars == <<fmt, op, arg, res>>

RoundingOps   == {"ceil", "floor", "trunc", "nearest"}
ConversionOps == {"trunc_i32s", "trunc_i32u", "trunc_i64s", "trunc_i64u"}
TfOps == {"eqtf2", "netf2", "getf2", "gttf2", "letf2", "lttf2", "cmptf2", "unordtf2"}
Ops == RoundingOps \cup ConversionOps \cup TfOps \cup
       {"min", "max", "copysign", "abs", "neg", "gt", "ge"}

\* the values of the C result type of an n-bit conversion
IntOf(n, signed) == IF signed THEN -(2^(n - 1)) .. 2^(n - 1) - 1 ELSE 0 .. 2^n - 1
WordsOf(f) == CASE f = "f32" -> F32!Words [] f = "f64" -> F64!Words [] f = "f128" -> F128!Words

TypeOK ==
    /\ fmt \in {"none", "f32", "f64", "f128"}
    /\ op \in Ops \cup {"none"}
    /\ op \in ConversionOps => /\ arg \in WordsOf(fmt) \X {N32, N64} \X BOOLEAN
                               /\ res \in [trap : BOOLEAN, val : IntOf(arg[2], arg[3])]
    /\ op \in {"gt", "ge"} => arg \in WordsOf(fmt) \X WordsOf(fmt) /\ res \in BOOLEAN
    /\ op \in TfOps => arg \in WordsOf(fmt) \X WordsOf(fmt) /\ res \in -1 .. 1
    /\ op \in RoundingOps \cup {"min", "max", "copysign", "abs", "neg"} =>
          arg \in Seq(WordsOf(fmt)) /\ res \in WordsOf(fmt)

Init == fmt = "none" /\ op = "none" /\ arg = <<>> /\ res = 0

\* the contract calls an intrinsic when its previous call has returned
Idle == op = "none"

Call(f, o, args, r) == fmt' = f /\ op' = o /\ arg' = args /\ res' = r

\* the intrinsic's result is consumed and the contract goes on
Return == op # "none" /\ fmt' = "none" /\ op' = "none" /\ arg' = <<>> /\ res' = 0

\* a conversion intrinsic _eosio_<f>_trunc_<int>: n bits, signed or not
Convert(f, o, a, n, signed, r) == Call(f, o, <<a, n, signed>>, r)

EosioF32Min      == Idle /\ \E a, b \in F32!Words : Call("f32", "min", <<a, b>>, F32!Min(a, b))
EosioF32Max      == Idle /\ \E a, b \in F32!Words : Call("f32", "max", <<a, b>>, F32!Max(a, b))
EosioF32Copysign == Idle /\ \E a, b \in F32!Words : Call("f32", "copysign", <<a, b>>, F32!Copysign(a, b))
EosioF32Abs      == Idle /\ \E a \in F32!Words : Call("f32", "abs", <<a>>, F32!Abs(a))
EosioF32Neg      == Idle /\ \E a \in F32!Words : Call("f32", "neg", <<a>>, F32!Neg(a))
EosioF32Ceil     == Idle /\ \E a \in F32!Words : Call("f32", "ceil", <<a>>, F32!F32Ceil(a))
EosioF32Floor    == Idle /\ \E a \in F32!Words : Call("f32", "floor", <<a>>, F32!F32Floor(a))
EosioF32Trunc    == Idle /\ \E a \in F32!Words : Call("f32", "trunc", <<a>>, F32!Trunc(a))
EosioF32Nearest  == Idle /\ \E a \in F32!Words : Call("f32", "nearest", <<a>>, F32!Nearest(a))
EosioF32Gt       == Idle /\ \E a, b \in F32!Words : Call("f32", "gt", <<a, b>>, F32!Gt(a, b))
EosioF32Ge       == Idle /\ \E a, b \in F32!Words : Call("f32", "ge", <<a, b>>, F32!Ge(a, b))
EosioF32TruncI32s == Idle /\ \E a \in F32!Words : Convert("f32", "trunc_i32s", a, N32, TRUE, F32!TruncToInt(a, N32, TRUE))
EosioF32TruncI32u == Idle /\ \E a \in F32!Words : Convert("f32", "trunc_i32u", a, N32, FALSE, F32!TruncToInt(a, N32, FALSE))
EosioF32TruncI64s == Idle /\ \E a \in F32!Words : Convert("f32", "trunc_i64s", a, N64, TRUE, F32!TruncToInt(a, N64, TRUE))
EosioF32TruncI64u == Idle /\ \E a \in F32!Words : Convert("f32", "trunc_i64u", a, N64, FALSE, F32!TruncToInt(a, N64, FALSE))

EosioF64Min      == Idle /\ \E a, b \in Sample64 : Call("f64", "min", <<a, b>>, F64!Min(a, b))
EosioF64Max      == Idle /\ \E a, b \in Sample64 : Call("f64", "max", <<a, b>>, F64!Max(a, b))
EosioF64Copysign == Idle /\ \E a, b \in Sample64 : Call("f64", "copysign", <<a, b>>, F64!Copysign(a, b))
EosioF64Abs      == Idle /\ \E a \in F64!Words : Call("f64", "abs", <<a>>, F64!Abs(a))
EosioF64Neg      == Idle /\ \E a \in F64!Words : Call("f64", "neg", <<a>>, F64!Neg(a))
EosioF64Ceil     == Idle /\ \E a \in F64!Words : Call("f64", "ceil", <<a>>, F64!F64Ceil(a))
EosioF64Floor    == Idle /\ \E a \in F64!Words : Call("f64", "floor", <<a>>, F64!F64Floor(a))
EosioF64Trunc    == Idle /\ \E a \in F64!Words : Call("f64", "trunc", <<a>>, F64!Trunc(a))
EosioF64Nearest  == Idle /\ \E a \in F64!Words : Call("f64", "nearest", <<a>>, F64!Nearest(a))
EosioF64Gt       == Idle /\ \E a, b \in Sample64 : Call("f64", "gt", <<a, b>>, F64!Gt(a, b))
EosioF64Ge       == Idle /\ \E a, b \in Sample64 : Call("f64", "ge", <<a, b>>, F64!Ge(a, b))
EosioF64TruncI32s == Idle /\ \E a \in F64!Words : Convert("f64", "trunc_i32s", a, N32, TRUE, F64!TruncToInt(a, N32, TRUE))
EosioF64TruncI32u == Idle /\ \E a \in F64!Words : Convert("f64", "trunc_i32u", a, N32, FALSE, F64!TruncToInt(a, N32, FALSE))
EosioF64TruncI64s == Idle /\ \E a \in F64!Words : Convert("f64", "trunc_i64s", a, N64, TRUE, F64!TruncToInt(a, N64, TRUE))
EosioF64TruncI64u == Idle /\ \E a \in F64!Words : Convert("f64", "trunc_i64u", a, N64, FALSE, F64!TruncToInt(a, N64, FALSE))

\* __eqtf2 ... __cmptf2: the halves joined into a float128_t, then
\* ___cmptf2 with the builtin's NaN sentinel; __unordtf2 on its own
TfCompare(name) ==
    Idle /\ \E a, b \in F128!Words :
              Call("f128", name, <<a, b>>, F128!Cmptf2(a, b, F128!TfSentinel(name)))
Unordtf2 == Idle /\ \E a, b \in F128!Words : Call("f128", "unordtf2", <<a, b>>, F128!Unordtf2(a, b))

Next ==
    \/ EosioF32Min \/ EosioF32Max \/ EosioF32Copysign \/ EosioF32Abs
    \/ EosioF32Neg \/ EosioF32Ceil \/ EosioF32Floor \/ EosioF32Trunc
    \/ EosioF32Nearest \/ EosioF32Gt \/ EosioF32Ge \/ EosioF32TruncI32s
    \/ EosioF32TruncI32u \/ EosioF32TruncI64s \/ EosioF32TruncI64u \/ EosioF64Min
    \/ EosioF64Max \/ EosioF64Copysign \/ EosioF64Abs \/ EosioF64Neg
    \/ EosioF64Ceil \/ EosioF64Floor \/ EosioF64Trunc \/ EosioF64Nearest
    \/ EosioF64Gt \/ EosioF64Ge \/ EosioF64TruncI32s \/ EosioF64TruncI32u
    \/ EosioF64TruncI64s \/ EosioF64TruncI64u
    \/ \E name \in TfOps \ {"unordtf2"} : TfCompare(name)
    \/ Unordtf2
    \/ Return

Spec == Init /\ [][Next]_vars

-----------------------------------------------------------------------------
(***************************************************************************)
(* RoundingMatchesReference: ceil, floor, trunc and nearest of both        *)
(* formats -- the f32 libc bit tricks on the pattern, the f64 ceil/floor   *)
(* through the rounding gap, nearest through inv_float_eps additions --    *)
(* return the integral value the rounding rule gives, keep the sign (so    *)
(* ceil(-0.5) is -0), and return NaN for NaN and an infinity unchanged.    *)
(***************************************************************************)
RoundingMatchesReference ==
    op \in RoundingOps =>
        IF fmt = "f32" THEN F32!RoundingOk(op, arg[1], res)
        ELSE F64!RoundingOk(op, arg[1], res)

(***************************************************************************)
(* MinMaxMatchesReference: _eosio_f*_min / _max return NaN when an operand *)
(* is NaN, -0 as the min (+0 as the max) of two zeros, and otherwise an    *)
(* operand no greater (no less) than the other: the sign branch and the    *)
(* f32_lt branch together implement the WebAssembly min/max.               *)
(***************************************************************************)
MinMaxMatchesReference ==
    op \in {"min", "max"} =>
        IF fmt = "f32" THEN F32!MinMaxOf(arg[1], arg[2], res, op = "min")
        ELSE F64!MinMaxOf(arg[1], arg[2], res, op = "min")

(***************************************************************************)
(* ComparisonsMatchReference: _eosio_f*_gt / _ge, built as the negation of *)
(* f*_le / f*_lt, are false whenever an operand is NaN and otherwise the   *)
(* ordered comparison of the values (-0 = +0).                             *)
(***************************************************************************)
ComparisonsMatchReference ==
    op \in {"gt", "ge"} =>
        LET a == arg[1]
            b == arg[2]
        IN  IF fmt = "f32"
        THEN res = (~F32!IsNaN(a) /\ ~F32!IsNaN(b) /\
                    IF op = "gt" THEN F32!Val(a) > F32!Val(b) ELSE F32!Val(a) >= F32!Val(b))
        ELSE res = (~F64!IsNaN(a) /\ ~F64!IsNaN(b) /\
                    IF op = "gt" THEN F64!Val(a) > F64!Val(b) ELSE F64!Val(a) >= F64!Val(b))

(***************************************************************************)
(* TfComparisonsMatchRelation: each quad comparison builtin gives the      *)
(* answer of the IEEE relation it stands for under the libgcc convention   *)
(* its callers test -- __eqtf2 r = 0, __netf2 r # 0, __getf2 r >= 0,       *)
(* __gttf2 r > 0, __letf2 r <= 0, __lttf2 r < 0 -- and so is false on an   *)
(* unordered pair except for "not equal"; __cmptf2 returns the sign of     *)
(* a - b, or 1 when unordered; __unordtf2 is 1 exactly when a NaN is       *)
(* involved.  The NaN sentinel of each builtin decides this.               *)
(***************************************************************************)
TfComparisonsMatchRelation ==
    op \in TfOps =>
        LET a == arg[1]
            b == arg[2]
            ordered == ~F128!IsNaN(a) /\ ~F128!IsNaN(b)
            x == F128!Val(a)
            y == F128!Val(b)
        IN  CASE op = "eqtf2"    -> (res = 0) = (ordered /\ x = y)
              [] op = "netf2"    -> (res # 0) = ~(ordered /\ x = y)
              [] op = "getf2"    -> (res >= 0) = (ordered /\ x >= y)
              [] op = "gttf2"    -> (res > 0) = (ordered /\ x > y)
              [] op = "letf2"    -> (res <= 0) = (ordered /\ x <= y)
              [] op = "lttf2"    -> (res < 0) = (ordered /\ x < y)
              [] op = "cmptf2"   -> res = IF ~ordered THEN 1
                                          ELSE IF x < y THEN -1 ELSE IF x = y THEN 0 ELSE 1
              [] op = "unordtf2" -> (res = 1) = ~ordered

(***************************************************************************)
(* TruncConversionSound: a float-to-integer conversion that does not trap  *)
(* returns the truncation of its argument, and that truncation fits the    *)
(* integer type: the limit tests 2^(N-1) / -2^(N-1) (signed) and 2^N / -1  *)
(* (unsigned) together with the NaN test let nothing unrepresentable       *)
(* through to f32_to_i32.                                                  *)
(***************************************************************************)
Representable(f, a, n, signed) ==
    IF f = "f32" THEN F32!Representable(a, n, signed) ELSE F64!Representable(a, n, signed)
Truncated(f, a) ==
    IF f = "f32" THEN F32!TruncInt(F32!Val(a)) ELSE F64!TruncInt(F64!Val(a))

TruncConversionSound ==
    op \in ConversionOps /\ ~res.trap =>
        /\ Representable(fmt, arg[1], arg[2], arg[3])
        /\ res.val = Truncated(fmt, arg[1])

(***************************************************************************)
(* MinMaxNaNReturnsOther: the spec's softfloat invariant -- min and max    *)
(* with one NaN operand return the other operand.                          *)
(***************************************************************************)
IsNaNIn(f, a) == IF f = "f32" THEN F32!IsNaN(a) ELSE F64!IsNaN(a)
MinMaxNaNReturnsOther ==
    op \in {"min", "max"} /\ IsNaNIn(fmt, arg[1]) # IsNaNIn(fmt, arg[2]) =>
        res = IF IsNaNIn(fmt, arg[1]) THEN arg[2] ELSE arg[1]
=============================================================================
