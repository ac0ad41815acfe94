------------------------------ MODULE ConsoleApi ------------------------------
(***************************************************************************)
(* The console intrinsics of wasm_interface.cpp (class console_api): each  *)
(* print converts its argument to text and appends it to the action's      *)
(* console, unless the node runs without contracts-console (`ignore`).     *)
(* Text is a sequence of bytes: digits are the ASCII codes '0'..'9', hex   *)
(* digits 'a'..'f' follow, and '-' is 45.                                  *)
(*                                                                         *)
(* Widths are scaled: an int64/uint64 has Width64 bits and an __int128 /   *)
(* unsigned __int128 Width128 bits; a 128-bit argument is its pattern.     *)
(* prints, prints_l and printhex read the contract's linear memory `mem`,  *)
(* which the array_ptr / null_terminated_ptr wrappers have checked.        *)
(* printsf, printdf, printqf (scientific float formatting) and printn      *)
(* (name::to_string, outside this repository) are not modelled.            *)
(***************************************************************************)
EXTENDS Integers, SequencesExt

CONSTANTS Width64, Width128, MemSize, ByteBits, MaxLength

Addr  == 0 .. MemSize - 1
Bytes == 0 .. 2^ByteBits - 1
Minus == 45

\* the ASCII code of a digit in base 16, lower case as fc::to_hex writes it
DigitChar(d) == IF d < 10 THEN 48 + d ELSE 87 + d

\* the digits of n in a base, most significant first (n >= 0)
RECURSIVE Digits(_, _)
Digits(n, base) == IF n < base THEN <<n>> ELSE Digits(n \div base, base) \o <<n % base>>

\* the decimal text of a non-negative integer
Dec(n) == [i \in 1 .. Len(Digits(n, 10)) |-> DigitChar(Digits(n, 10)[i])]

\* std::ostringstream << int64_t / uint64_t
OstreamDec(x) == IF x < 0 THEN <<Minus>> \o Dec(-x) ELSE Dec(x)

\* fc::to_hex: two lower-case hex digits per byte, high nibble first
ToHex(bytes) == FoldLeft(LAMBDA acc, b : acc \o <<DigitChar(b \div 16), DigitChar(b % 16)>>,
                         <<>>, bytes)

\* the __int128 a pattern holds
I128(u) == IF u >= 2^(Width128 - 1) THEN u - 2^Width128 ELSE u

\* mutant: the pattern of val printed for a negative val as well
MagnitudeNoNegate(u) == u

\* static_cast<unsigned __int128>(-val): the negation overflows at
\* INT128_MIN, which the build wraps to INT128_MIN, whose unsigned pattern
\* is 2^127, the right magnitude
Magnitude(u) == IF I128(u) < 0 THEN (-I128(u)) % 2^Width128 ELSE u

\* fc::uint128_t v(m >> 64, (uint64_t)m) and its decimal string: the high
\* word m >> 64 fits a uint64_t, and (uint64_t)m keeps m modulo 2^64
Uint128Dec(m) ==
    LET half == 2^(Width128 \div 2)
    IN  Dec((m \div half) * half + (m % half))

\* the bytes [p, p + n) of the memory
Slice(m, p, n) == [i \in 1 .. n |-> m[p + i - 1]]

\* the bytes from p up to, not including, the first zero byte
CString(m, p) == LET z == Min({a \in p .. MemSize - 1 : m[a] = 0}) IN Slice(m, p, z - p)

VARIABLES mem, ignore, fn, args, appended
vars == <<mem, ignore, fn, args, appended>>

Fns == {"prints", "prints_l", "printi", "printui", "printi128", "printui128", "printhex"}

Char == Bytes \cup {DigitChar(d) : d \in 0 .. 15} \cup {Minus}

TypeOK ==
    /\ mem \in [Addr -> Bytes] /\ ignore \in BOOLEAN
    /\ fn \in Fns \cup {"none"}
    /\ appended \in Seq(Char)

\* ignore = !control.contracts_console(), fixed when the node starts
Init ==
    /\ mem \in [Addr -> Bytes] /\ ignore \in BOOLEAN
    /\ fn = "none" /\ args = <<>> /\ appended = <<>>

Idle == fn = "none"

\* context.console_append(text), skipped when ignore is set
ConsoleAppend(name, a, text) ==
    /\ Idle
    /\ fn' = name /\ args' = a
    /\ appended' = IF ignore THEN <<>> ELSE text
    /\ UNCHANGED <<mem, ignore>>

Int64s  == -(2^(Width64 - 1)) .. 2^(Width64 - 1) - 1
UInt64s == 0 .. 2^Width64 - 1
Words   == 0 .. 2^Width128 - 1

prints ==
    \E p \in {a \in Addr : \E z \in a .. MemSize - 1 : mem[z] = 0} :
        ConsoleAppend("prints", <<p>>, CString(mem, p))

prints_l ==
    \E p \in 0 .. MemSize, n \in 0 .. MaxLength :
        p + n <= MemSize /\ ConsoleAppend("prints_l", <<p, n>>, Slice(mem, p, n))

printi   == \E v \in Int64s : ConsoleAppend("printi", <<v>>, OstreamDec(v))
printui  == \E v \in UInt64s : ConsoleAppend("printui", <<v>>, OstreamDec(v))

printi128 ==
    \E u \in Words :
        ConsoleAppend("printi128", <<u>>,
              (IF I128(u) < 0 THEN <<Minus>> ELSE <<>>) \o Uint128Dec(Magnitude(u)))

printui128 == \E u \in Words : ConsoleAppend("printui128", <<u>>, Uint128Dec(u))

printhex ==
    \E p \in 0 .. MemSize, n \in 0 .. MaxLength :
        p + n <= MemSize /\ ConsoleAppend("printhex", <<p, n>>, ToHex(Slice(mem, p, n)))

Return == ~Idle /\ fn' = "none" /\ args' = <<>> /\ appended' = <<>> /\ UNCHANGED <<mem, ignore>>

Next == prints \/ prints_l \/ printi \/ printui \/ printi128 \/ printui128 \/ printhex \/ Return

Spec == Init /\ [][Next]_vars
-----------------------------------------------------------------------------
(***************************************************************************)
(* Reading text back, without the conversion's digit recursion: a decimal  *)
(* numeral is a non-empty run of '0'..'9' with no leading zero, read left  *)
(* to right; a hex digit is '0'..'9' or 'a'..'f'.                          *)
(***************************************************************************)
Canonical(s) ==
    /\ s # <<>>
    /\ \A i \in 1 .. Len(s) : s[i] \in 48 .. 57
    /\ Len(s) > 1 => s[1] # 48

ReadDec(s) == FoldLeft(LAMBDA acc, c : 10 * acc + (c - 48), 0, s)

HexVal(c) == IF c \in 97 .. 102 THEN c - 87 ELSE c - 48

\* the number a print was given, as the contract meant it
ValuePrinted == IF fn = "printi128" THEN I128(args[1]) ELSE args[1]

(***************************************************************************)
(* ConsoleTextReadsBack: with contracts-console on, every integer print    *)
(* appends a canonical decimal numeral, with a '-' exactly when the value  *)
(* is negative, that reads back as the value, INT128_MIN included (the     *)
(* case printi128's comment on -val is about); printhex appends two hex    *)
(* digits per byte that read back as the bytes in memory; with it off, no  *)
(* print appends anything.                                                 *)
(***************************************************************************)
ConsoleTextReadsBack ==
    LET s    == appended
        neg  == s # <<>> /\ s[1] = Minus
        body == IF neg THEN Tail(s) ELSE s
    IN  /\ ignore => s = <<>>
        /\ ~ignore /\ fn \in {"printi", "printui", "printi128", "printui128"} =>
              /\ Canonical(body)
              /\ neg <=> ValuePrinted < 0
              /\ (IF neg THEN -ReadDec(body) ELSE ReadDec(body)) = ValuePrinted
        /\ ~ignore /\ fn = "printhex" =>
              /\ Len(s) = 2 * args[2]
              /\ \A i \in 1 .. args[2] :
                    16 * HexVal(s[2 * i - 1]) + HexVal(s[2 * i]) = mem[args[1] + i - 1]
=============================================================================
