--------------------------- MODULE MemoryIntrinsics ---------------------------
(***************************************************************************)
(* The memory intrinsics of wasm_interface.cpp (class memory_api): memcpy, *)
(* memmove, memcmp and memset on the contract's linear memory.  Each one   *)
(* hands its pointers to the C library; memcpy first asserts that the two  *)
(* pointers are at least `length` apart, since ::memcpy on overlapping     *)
(* ranges is undefined, and memcmp folds ::memcmp's result into -1, 0, 1.  *)
(*                                                                         *)
(* The memory is scaled down to MemSize bytes of ByteBits bits.  The       *)
(* array_ptr wrappers reject a range that leaves the memory before the     *)
(* intrinsic runs, so only ranges inside it are enumerated.  What the      *)
(* library may do where the C standard leaves it open is a choice: an      *)
(* overlapping ::memcpy copies upward or downward, and ::memcmp returns    *)
(* any integer of the right sign.                                          *)
(***************************************************************************)
EXTENDS Integers, Sequences, FiniteSetsExt

CONSTANTS MemSize, ByteBits, MaxLength,
          Values,                  \* the int arguments given to memset
          OverlappingMemoryError   \* the exception memcpy's assertion raises

Addr  == 0 .. MemSize - 1
Bytes == 0 .. 2^ByteBits - 1

ASSUME MaxLength \in 0 .. MemSize /\ Values \subseteq Int

\* the bytes [p, p + n) as a sequence
Slice(m, p, n) == [i \in 1 .. n |-> m[p + i - 1]]

\* byte-by-byte copies, upward from the first byte or downward from the last
RECURSIVE CopyUp(_, _, _, _, _)
CopyUp(m, d, s, i, n) ==
    IF i = n THEN m ELSE CopyUp([m EXCEPT ![d + i] = m[s + i]], d, s, i + 1, n)

RECURSIVE CopyDown(_, _, _, _)
CopyDown(m, d, s, i) ==
    IF i = 0 THEN m ELSE CopyDown([m EXCEPT ![d + i - 1] = m[s + i - 1]], d, s, i - 1)

\* ::memcpy: the memories it may leave; both orders agree on disjoint ranges
LibcMemcpy(m, d, s, n) == {CopyUp(m, d, s, 0, n), CopyDown(m, d, s, n)}

\* ::memmove copies away from the overlap: downward when dest is above src
LibcMemmove(m, d, s, n) == IF d > s THEN CopyDown(m, d, s, n) ELSE CopyUp(m, d, s, 0, n)

\* ::memcmp: the sign of the first differing pair of unsigned chars
LibcMemcmp(m, d, s, n) ==
    LET diff == {i \in 0 .. n - 1 : m[d + i] # m[s + i]}
        k    == Min(diff)
    IN  IF diff = {} THEN {0}
        ELSE {r \in -(2^ByteBits) .. 2^ByteBits : r # 0 /\ (r > 0) = (m[d + k] > m[s + k])}

\* (unsigned char) value, as ::memset stores it
ToByte(v) == v % 2^ByteBits

VARIABLES mem, old, fn, args, res
vars == <<mem, old, fn, args, res>>

Fns == {"memcpy", "memmove", "memcmp", "memset"}

TypeOK ==
    /\ mem \in [Addr -> Bytes] /\ old \in [Addr -> Bytes]
    /\ fn \in Fns \cup {"none"}
    /\ res \in {OverlappingMemoryError, -1, 0, 1} \cup Addr \cup {MemSize}

\* the data segments leave any bytes in the memory
Init == mem \in [Addr -> Bytes] /\ old = mem /\ fn = "none" /\ args = <<>> /\ res = 0

Idle == fn = "none"

\* the (dest, src, length) triples whose ranges lie inside the memory
Ranges == {t \in (0 .. MemSize) \X (0 .. MemSize) \X (0 .. MaxLength) :
              t[1] + t[3] <= MemSize /\ t[2] + t[3] <= MemSize}

Call(name, t) == fn' = name /\ args' = t /\ old' = mem

\* mutant: the distance taken as dest - src, without std::abs
MemcpyNoAbs(d, s, n) ==
    IF d - s >= n THEN LibcMemcpy(mem, d, s, n) ELSE {}

\* memory_api::memcpy: the non-aliasing assertion, then ::memcpy
MemcpyOk(d, s, n) ==
    IF (IF d >= s THEN d - s ELSE s - d) >= n THEN LibcMemcpy(mem, d, s, n) ELSE {}

Memcpy ==
    /\ Idle
    /\ \E t \in Ranges :
          /\ Call("memcpy", t)
          /\ IF MemcpyOk(t[1], t[2], t[3]) = {}
               THEN mem' = mem /\ res' = OverlappingMemoryError
               ELSE mem' \in MemcpyOk(t[1], t[2], t[3]) /\ res' = t[1]

Memmove ==
    /\ Idle
    /\ \E t \in Ranges :
          /\ Call("memmove", t)
          /\ mem' = LibcMemmove(mem, t[1], t[2], t[3])
          /\ res' = t[1]

\* mutant: ::memcmp's result passed back as it is
NormaliseRaw(ret) == ret

\* memory_api::memcmp: ret < 0 -> -1, ret > 0 -> 1, else 0
Normalise(ret) == IF ret < 0 THEN -1 ELSE IF ret > 0 THEN 1 ELSE 0

Memcmp ==
    /\ Idle
    /\ \E t \in Ranges :
          \E ret \in LibcMemcmp(mem, t[1], t[2], t[3]) :
             /\ Call("memcmp", t)
             /\ res' = Normalise(ret)
             /\ UNCHANGED mem

MemsetByte(v) == ToByte(v)

Memset ==
    /\ Idle
    /\ \E t \in Ranges, v \in Values :
          /\ Call("memset", <<t[1], v, t[3]>>)
          /\ mem' = [a \in Addr |-> IF t[1] <= a /\ a < t[1] + t[3] THEN MemsetByte(v)
                                    ELSE mem[a]]
          /\ res' = t[1]

Return == ~Idle /\ fn' = "none" /\ args' = <<>> /\ res' = 0 /\ old' = mem /\ UNCHANGED mem

Next == Memcpy \/ Memmove \/ Memcmp \/ Memset \/ Return

Spec == Init /\ [][Next]_vars
-----------------------------------------------------------------------------
(***************************************************************************)
(* Reference definitions, written without the library's copy loops: two   *)
(* ranges overlap when each starts before the other ends; byte strings     *)
(* compare lexicographically.                                              *)
(***************************************************************************)
Overlap(d, s, n) == n > 0 /\ d < s + n /\ s < d + n

RECURSIVE LexCmp(_, _)
LexCmp(x, y) ==
    IF x = <<>> THEN 0
    ELSE IF Head(x) < Head(y) THEN -1
    ELSE IF Head(x) > Head(y) THEN 1
    ELSE LexCmp(Tail(x), Tail(y))

(***************************************************************************)
(* MemoryCallsMatchReference: memcpy raises overlapping_memory_error       *)
(* exactly when its ranges overlap, so that ::memcpy is never given an     *)
(* overlap whatever order it copies in; a memcpy or memmove that returns   *)
(* leaves in dest the bytes src held before the call and touches nothing  *)
(* else; memcmp returns -1, 0 or 1 as the unsigned byte strings compare,   *)
(* whatever magnitude ::memcmp chose.                                      *)
(***************************************************************************)
MemoryCallsMatchReference ==
    LET d == args[1]
        s == args[2]
        n == args[3]
    IN  /\ fn = "memcpy" => ((res = OverlappingMemoryError) <=> Overlap(d, s, n))
        /\ fn \in {"memcpy", "memmove"} /\ res # OverlappingMemoryError =>
              /\ Slice(mem, d, n) = Slice(old, s, n)
              /\ \A a \in Addr : (a < d \/ a >= d + n) => mem[a] = old[a]
        /\ fn = "memcmp" => res = LexCmp(Slice(old, d, n), Slice(old, s, n))
=============================================================================
