----------------------------- MODULE MCSoftFloat -----------------------------
(***************************************************************************)
(* f32 as 1 + 4 + 2 bits and f64 as 1 + 4 + 4 bits; N32 = 4, N64 = 6.     *)
(* The f64 two-operand calls take their operands from the special values   *)
(* and a few ordinary ones.                                                *)
(*                                                                         *)
(* The contract also keeps a table with an idx_double secondary index,     *)
(* whose keys are f64 values of the same format: the softfloat calls and   *)
(* the index calls interleave, one call at a time.                         *)
(***************************************************************************)
EXTENDS SoftFloatCalls

CONSTANTS Primaries, NoRow, End, TransactionException

VARIABLES rows, dfn, dargs, dres

MCSample64 ==
    LET nan == F64!ExpMax * 2^M64 + 1
        inf == F64!ExpMax * 2^M64
        s   == F64!SignBit
    IN  {0, s, 1, s + 1, F64!PosOne, F64!NegOne, F64!PosOne + 2^(M64 - 1),
         inf, s + inf, nan, s + nan}

\* the index keys: -0 and +0 (equal, of distinct patterns), 1.0, and a NaN
MCKeys == {F64!SignBit, 0, F64!PosOne, F64!ExpMax * 2^M64 + 1}

X == INSTANCE FloatSecondaryIndex
         WITH ExpBits <- E64, ManBits <- M64, Keys <- MCKeys,
              fn <- dfn, args <- dargs, res <- dres

indexVars == <<rows, dfn, dargs, dres>>
MCVars == <<vars, indexVars>>

MCInit == Init /\ X!Init

MCNext ==
    \/ X!Idle /\ Next /\ UNCHANGED indexVars
    \/ Idle /\ X!Next /\ UNCHANGED vars

MCSpec == MCInit /\ [][MCNext]_MCVars

\* the index's properties, checked on the composition
IndexTypeOK == X!TypeOK
SecondaryQueriesSound == X!SecondaryQueriesSound
=============================================================================
