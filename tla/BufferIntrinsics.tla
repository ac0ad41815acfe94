--------------------------- MODULE BufferIntrinsics ---------------------------
(***************************************************************************)
(* The intrinsics of wasm_interface.cpp that copy host data into a buffer  *)
(* of the contract's linear memory.  Each answers a buffer_size of 0 with  *)
(* the size of the data, and otherwise follows one of two conventions:     *)
(*   - get_active_producers, read_action_data and read_transaction copy    *)
(*     min(buffer_size, size) bytes and return that count;                 *)
(*   - get_blockchain_parameters_packed, get_system_token_list_packed,     *)
(*     get_trx_fee_for_action_packed and                                   *)
(*     get_top_transaction_vote_receivers_packed pack the value only when  *)
(*     it fits, returning its size, and otherwise write nothing and        *)
(*     return 0.                                                           *)
(*                                                                         *)
(* The data is its bytes: the packing of fc::raw::pack is abstracted to a  *)
(* byte sequence of the packed size, which is never empty (a vector starts *)
(* with its length, a struct with its fields).  The runtime's array_ptr   *)
(* check has made sure that [ptr, ptr + buffer_size) lies in the memory   *)
(* (for get_active_producers it checks buffer_size names, more than the    *)
(* buffer_size bytes copied), so only such buffers are enumerated.  Memory *)
(* is scaled as in MemoryIntrinsics; an account_name takes NameBytes bytes.*)
(***************************************************************************)
EXTENDS Integers, Sequences, FiniteSetsExt

CONSTANTS MemSize, ByteBits, MaxData, NameBytes

Addr  == 0 .. MemSize - 1
Bytes == 0 .. 2^ByteBits - 1

\* byte strings of length lo .. MaxData
Blobs(lo) == UNION {[1 .. k -> Bytes] : k \in lo .. MaxData}

VARIABLES mem, old, fn, args, res
vars == <<mem, old, fn, args, res>>

Fns == {"get_active_producers", "read_action_data", "read_transaction",
        "get_blockchain_parameters_packed", "get_system_token_list_packed",
        "get_trx_fee_for_action_packed", "get_top_transaction_vote_receivers_packed"}

TypeOK ==
    /\ mem \in [Addr -> Bytes] /\ old \in [Addr -> Bytes]
    /\ fn \in Fns \cup {"none"}
    /\ res \in 0 .. MaxData

Init == mem \in [Addr -> Bytes] /\ old = mem /\ fn = "none" /\ args = <<>> /\ res = 0

Idle == fn = "none"

\* the buffers (ptr, buffer_size) the array_ptr check lets through
Buffers == {b \in (0 .. MemSize) \X (0 .. MemSize) : b[1] + b[2] <= MemSize}

\* the memory with bytes written from address p on
Write(m, p, bytes) ==
    [a \in Addr |-> IF p <= a /\ a < p + Len(bytes) THEN bytes[a - p + 1] ELSE m[a]]

Call(name, p, n, data, r, m) ==
    fn' = name /\ args' = <<p, n, data>> /\ res' = r /\ old' = mem /\ mem' = m

\* mutant: the size returned in place of the count copied
CopyOutReturnsSize(name, data) ==
    \E b \in Buffers :
        LET p == b[1]  n == b[2]  s == Len(data)  copy == Min({n, s})
        IN  IF n = 0 THEN Call(name, p, n, data, s, mem)
            ELSE Call(name, p, n, data, s, Write(mem, p, SubSeq(data, 1, copy)))

\* if( buffer_size == 0 ) return s; copy_size = std::min(buffer_size, s);
\* memcpy( buffer, data, copy_size ); return copy_size
CopyOut(name, data) ==
    \E b \in Buffers :
        LET p == b[1]  n == b[2]  s == Len(data)  copy == Min({n, s})
        IN  IF n = 0 THEN Call(name, p, n, data, s, mem)
            ELSE Call(name, p, n, data, copy, Write(mem, p, SubSeq(data, 1, copy)))

\* mutant: a buffer too small answered with -1 instead of 0
PackOutMinusOne(name, data) ==
    \E b \in Buffers :
        LET p == b[1]  n == b[2]  s == Len(data)
        IN  IF n = 0 THEN Call(name, p, n, data, s, mem)
            ELSE IF s <= n THEN Call(name, p, n, data, s, Write(mem, p, data))
            ELSE Call(name, p, n, data, -1, mem)

\* s = fc::raw::pack_size( v ); if( buffer_size == 0 ) return s;
\* if( s <= buffer_size ) { pack v into [buffer, buffer + s); return s; } return 0
PackOut(name, data) ==
    \E b \in Buffers :
        LET p == b[1]  n == b[2]  s == Len(data)
        IN  IF n = 0 THEN Call(name, p, n, data, s, mem)
            ELSE IF s <= n THEN Call(name, p, n, data, s, Write(mem, p, data))
            ELSE Call(name, p, n, data, 0, mem)

\* producer_api::get_active_producers: the names as len * sizeof(account_name)
\* bytes; the copy may end inside a name
GetActiveProducers ==
    /\ Idle
    /\ \E k \in 0 .. MaxData \div NameBytes :
          \E data \in [1 .. k * NameBytes -> Bytes] : CopyOut("get_active_producers", data)

\* action_api::read_action_data: the action's data, possibly empty
ReadActionData == Idle /\ \E data \in Blobs(0) : CopyOut("read_action_data", data)

\* context_free_transaction_api::read_transaction: the packed transaction
ReadTransaction == Idle /\ \E data \in Blobs(1) : CopyOut("read_transaction", data)

\* privileged_api::get_blockchain_parameters_packed: gpo.configuration
GetBlockchainParametersPacked ==
    Idle /\ \E data \in Blobs(1) : PackOut("get_blockchain_parameters_packed", data)

\* system_token_api::get_system_token_list_packed: the system-token vector
GetSystemTokenListPacked ==
    Idle /\ \E data \in Blobs(1) : PackOut("get_system_token_list_packed", data)

\* infrablockchain_transaction_api::get_trx_fee_for_action_packed: the
\* tx_fee_for_action the fee table's lookup returns
GetTrxFeeForActionPacked ==
    Idle /\ \E data \in Blobs(1) : PackOut("get_trx_fee_for_action_packed", data)

\* infrablockchain_transaction_api::get_top_transaction_vote_receivers_packed
GetTopTransactionVoteReceiversPacked ==
    Idle /\ \E data \in Blobs(1) : PackOut("get_top_transaction_vote_receivers_packed", data)

Return == ~Idle /\ fn' = "none" /\ args' = <<>> /\ res' = 0 /\ old' = mem /\ UNCHANGED mem

Next ==
    \/ GetActiveProducers \/ ReadActionData \/ ReadTransaction
    \/ GetBlockchainParametersPacked \/ GetSystemTokenListPacked
    \/ GetTrxFeeForActionPacked \/ GetTopTransactionVoteReceiversPacked
    \/ Return

Spec == Init /\ [][Next]_vars
-----------------------------------------------------------------------------
(***************************************************************************)
(* ReadsAreComplete: whichever convention an intrinsic follows, a contract *)
(* can tell from the result alone whether it holds all the data.  A size   *)
(* query (buffer_size 0) returns the size and writes nothing; otherwise    *)
(* the result r equals the size exactly when the data fits the buffer,     *)
(* the first r bytes of the buffer are the first r bytes of the data, and  *)
(* no byte outside the buffer changes.  So a size query followed by a read *)
(* with that size always delivers the whole data, and a short buffer is    *)
(* never mistaken for complete data, at the boundary size = buffer_size    *)
(* included.                                                               *)
(***************************************************************************)
ReadsAreComplete ==
    LET p == args[1]  n == args[2]  data == args[3]  s == Len(data)
    IN  fn # "none" =>
          IF n = 0 THEN res = s /\ mem = old
          ELSE /\ (res = s) <=> (s <= n)
               /\ \A i \in 1 .. res : mem[p + i - 1] = data[i]
               /\ \A a \in Addr : (a < p \/ a >= p + n) => mem[a] = old[a]
=============================================================================
