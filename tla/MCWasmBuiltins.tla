---------------------------- MODULE MCWasmBuiltins ----------------------------
(***************************************************************************)
(* A contract calling the intrinsics of one wasm instance: the 128-bit     *)
(* compiler builtins, the memory intrinsics, the console intrinsics and    *)
(* the buffer-read intrinsics, one call at a time (the contract is         *)
(* single-threaded and every intrinsic returns before the next             *)
(* instruction).  The linear memory persists across the calls: the memory  *)
(* and buffer-read intrinsics write it, and the console intrinsics read it.*)
(***************************************************************************)
EXTENDS Integers

CONSTANTS Half, ShiftAmounts, ArithmeticException,
          MemSize, ByteBits, MaxLength, Values, OverlappingMemoryError, Width64,
          MaxData, NameBytes

VARIABLES ifn, iargs, ires, mem, old, fn, args, res, ignore, cfn, cargs, appended,
          bfn, bargs, bres

I == INSTANCE Int128Builtins WITH fn <- ifn, args <- iargs, res <- ires
M == INSTANCE MemoryIntrinsics
C == INSTANCE ConsoleApi WITH Width128 <- 2 * Half, fn <- cfn, args <- cargs
B == INSTANCE BufferIntrinsics WITH fn <- bfn, args <- bargs, res <- bres

ivars == <<ifn, iargs, ires>>
mvars == <<mem, old, fn, args, res>>
cvars == <<ignore, cfn, cargs, appended>>
bvars == <<bfn, bargs, bres>>
vars  == <<ivars, mvars, cvars, bvars>>

Init == I!Init /\ M!Init /\ C!Init /\ B!Init

\* a component calls only while the others are idle; the console's prints
\* read the memory and leave it as it is, and the buffer reads write it
Next ==
    \/ M!Idle /\ C!Idle /\ B!Idle /\ I!Next /\ UNCHANGED <<mvars, cvars, bvars>>
    \/ I!Idle /\ C!Idle /\ B!Idle /\ M!Next /\ UNCHANGED <<ivars, cvars, bvars>>
    \/ I!Idle /\ M!Idle /\ B!Idle /\ C!Next /\ UNCHANGED <<ivars, old, fn, args, res, bvars>>
    \/ I!Idle /\ M!Idle /\ C!Idle /\ B!Next /\ UNCHANGED <<ivars, fn, args, res, cvars>>

\* memset's int argument: negative, zero, and above the byte range
MCValues == {-1, 0, 2}

Spec == Init /\ [][Next]_vars

\* the properties of the components, checked on the composition
ArithmeticMatchesReference == I!ArithmeticMatchesReference
MemoryCallsMatchReference == M!MemoryCallsMatchReference
ConsoleTextReadsBack == C!ConsoleTextReadsBack
BufferTypeOK == B!TypeOK
ReadsAreComplete == B!ReadsAreComplete
=============================================================================
