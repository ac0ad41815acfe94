# TLA+ models of the InfraBlockchain execution core

This directory holds TLA+ models of the repository's code in `src/`, the TLC
configurations that check them, and `PROJECT.json`. `PROJECT.json` lists the
components, the runs, the mutants, the source lines each definition models
(`map`), the findings and the hazards.

## The system and its parts

| Part | Source | State | Operations |
|---|---|---|---|
| Transaction-fee table | `libraries/chain/infrablockchain/transaction_fee_table_manager.cpp` | `transaction_fee_object` rows keyed by (code, action) | `set_tx_fee_for_action` (and its common-action and default forms), `unset_tx_fee_entry_for_action`, the three-level `get_*` lookup |
| Standard token manager | `libraries/chain/yosemite/standard_token_manager.cpp` (+ header) | token meta rows, (token, account) balance rows, RAM billed per account, the weighted system-token list | `set_token_meta_info`, `add/subtract_token_balance`, `update_token_total_supply`, `pay_transaction_fee` |
| System-token intrinsics | `libraries/chain/wasm_interface.cpp` 1634-1703 | - | `set_system_token_list_packed` validates a list and hands it to the manager |
| yx.ntoken contract | `contracts/yx.ntoken/yx.ntoken.cpp` | `stats_native` supply per depository, `accounts_native` rows per (owner, depository), `accounts_native_total` per owner, `kyc_rule` | `nissue`, `nredeem`, `transfer`, `wptransfer`, `ntransfer`, `wpntransfer`, `payfee`, `feetransfer`, `setkycrule` |
| Fee contract base | `contracts/eosiolib/yx_fee.hpp` | the `fees` table (operation → fee) | `setfee` |
| Producer-schedule intrinsics | `libraries/chain/wasm_interface.cpp` 206-283 | the schedule handed to the controller; the `disallow_empty_producer_schedule` feature | `set_proposed_producers`, `set_proposed_producers_ex`, their common validation |
| Softfloat intrinsics | `libraries/chain/wasm_interface.cpp` 323-779 | none (pure functions of bit patterns) | f32/f64 min, max, copysign, abs, neg, ceil, floor, trunc, nearest, gt, ge, the eight float-to-integer conversions |
| Compiler builtins | `libraries/chain/wasm_interface.cpp` 1819-2067 | none | 128-bit shifts, `__multi3`, `__divti3`/`__udivti3`/`__modti3`/`__umodti3`, the float128 comparisons `__eqtf2` ... `__unordtf2` |
| Memory intrinsics | `libraries/chain/wasm_interface.cpp` 1447-1473 | the contract's linear memory | `memcpy` (with its non-aliasing assertion), `memmove`, `memcmp`, `memset` |
| Console intrinsics | `libraries/chain/wasm_interface.cpp` 1144-1276 | the text appended to the action's console; the node's contracts-console switch | `prints`, `prints_l`, `printi`, `printui`, `printi128`, `printui128`, `printhex` (and the unmodelled `printsf`/`printdf`/`printqf`/`printn`) |
| Float secondary-index intrinsics | `libraries/chain/wasm_interface.cpp` 1368-1404, 1443 | the rows of an `idx_double` index | `db_idx_double_store/update/remove/find_secondary/find_primary/lowerbound/upperbound` |
| Other intrinsics | `libraries/chain/wasm_interface.cpp` | none of their own; they wrap the apply context | the i64 table and the integer secondary indexes, crypto, action, permission and transaction host functions |
| yx.dcontract | `contracts/yx.dcontract/yx.dcontract.hpp` | - | declarations only |
| chain API plugin | `plugins/chain_api_plugin/chain_api_plugin.cpp` | - | HTTP endpoint wiring |

How the parts interact:
- The transaction controller looks a fee up in the fee table and calls
  `pay_transaction_fee`.
- `pay_transaction_fee` walks the system-token list. For each token it
  dispatches a `txfee` action, which moves balance rows from the payer to the
  fee account.
- yx.ntoken charges its own fee:
  - `charge_fee` reads the fee contract's table and queues an inline `payfee`;
  - `payfee` queues one `feetransfer` per row of the payer.
- An inline action runs after the action that sent it, and actions run in the
  order they were sent, depth first.
- Every `eosio_assert` / `EOS_ASSERT` failure aborts the whole transaction, and
  chainbase's undo session discards every write made since it started,
  including the writes of inline actions that already ran.
- A contract calls the intrinsics of its wasm instance one at a time. The
  memory intrinsics write the linear memory, and the console prints read it.
  The float secondary index compares its keys with the softfloat library that
  the softfloat intrinsics also use.

## Hard behaviours

- **pay_transaction_fee:**
  - It has a weighted, rounding walk over the token list.
  - It writes state part way through: each `txfee` is dispatched before the
    final assertion, so a failure must roll back every balance change made so
    far.
- **yx.ntoken inline order:**
  - `wptransfer` queues `payfee` and then the `ntransfer`s.
  - `payfee` runs first, so `wptransfer` must predict what it will take, by
    calculation, from rows that the fee payment has not yet touched.
  - `nissue` charges the issuer before the issued tokens move.
- **Zero-valued rows:**
  - The standard token manager removes a row that reaches 0.
  - yx.ntoken keeps it, and a later `feetransfer` of 0 then adds 0 to a zero
    row.
- **Fallback lookup:** fee lookups fall back across three keys, so removing a
  specific row exposes the next key.
- **Caps** at `asset::max_amount`, asserted after an addition.

## Modules

Modules are listed in order of importance. The contract-level parts share
only the chain database, and each part's writes go to tables that no other
modelled part writes, so they are checked one by one. The intrinsics of one
wasm instance are composed in three MC modules:
- **`MCWasmBuiltins`** composes `Int128Builtins`, `MemoryIntrinsics`,
  `ConsoleApi` and `BufferIntrinsics`.
  - Its four instances share the linear memory `mem`: the memory and
    buffer-read intrinsics write it, and the console prints read it.
  - A component calls only while the others are idle.
- **`MCSoftFloat`** composes `SoftFloatCalls` with `FloatSecondaryIndex` on
  the same f64 format.
- **`MCTxFeeTable`** checks `IntrinsicGate`, which instantiates `TxFeeTable`.
  The fee table is written only through the fee intrinsics, within actions
  that roll back on an exception.

1. **`StandardToken`** (`MCStandardToken`) models the standard token manager
   and the fee walk.
   - **Variables:**
     - `meta`: the token meta rows;
     - `balance`: the balance rows (`NoRow` for an absent one);
     - `ram`: the RAM billed by `add_ram_usage`;
     - `sysTokens`: the system-token list;
     - `metaSymbol`: a ghost holding the symbol the last accepted
       `settokenmeta` carried.
   - **Actions:**
     - one per handler: `SetTokenMetaInfo`, `IssueToken`, `TransferToken`,
       `RetireToken`, `SetSystemTokenListPacked`, `PayTransactionFee`;
     - the balance helpers act on a record `db = [balance, ram]`;
     - `PayTransactionFee` is one step. Its loop is `FeeWalk`, a `FoldLeft` of
       `PayFeeForSysToken` over the list, which models the early `break` and
       the meta assertion.
     - A call that fails leaves no trace, as the undo session guarantees.
   - **Modelled from the spec:** the `txfee` handler, issue/transfer/retire
     and the manager's list setter live in the apply context, outside `src/`.
2. **`NToken`** (`MCNToken`) models the yx.ntoken contract together with the
   transaction that runs it.
   - **Variables:**
     - `stats`, `native`, `total`, `kycRule`: the contract's tables;
     - `fees`: the fee contract's table;
     - `pending`: the inline-action queue;
     - `snap`: the tables as the transaction found them;
     - `status`: the transaction's status;
     - `feeDue` and `request`: ghosts holding the fees charged so far and the
       top-level action. They are cleared with `snap` when the transaction
       ends, so that idle states carry no history.
   - **Actions:**
     - `Submit` starts a transaction with one top-level action;
     - each handler (`NIssue`, `NRedeem`, `WpTransfer`, `WpnTransfer`,
       `PayFee`, `FeeTransfer`) runs the head of `pending`.
     - A handler either finishes, putting the actions it sent ahead of the
       rest (`Finish`), or aborts and restores `snap` (`Abort`).
     - `SetKycRule` and `SetFee` are transactions of their own.
   - **Fairness:** `FairSpec` adds `WF_vars(Execute)`, where `Execute` is the
     disjunction of the handlers. This is justified because apply_context runs
     each queued inline action as soon as the one before it returns, and
     nothing else can run while `pending` is non-empty.
   - **Abstractions:**
     - the identity contract's state (KYC flags, blacklist) is a constant;
     - `get_transaction_fee` reads `fees`, and a missing row asserts;
     - `asset::max_amount` is scaled down to 2, so its assertions are
       reachable.
   - **Refinement:** `NativeLedger` is what the native token promises.
     - Its state: holdings per account and depository, supply per
       depository, and the request in flight.
     - A transaction either leaves all of it unchanged (`Cancel`) or settles
       at once (`Settle`).
     - `Settle` conserves each depository's token, except what an issue
       adds and a redeem removes.
     - It debits only the request's signer or fee payer, and credits only
       the recipient or the fee account.
     - `NToken` maps onto it from the committed tables `snap`, so every
       inline action inside a transaction is a stuttering step.
     - `ImplementsNativeLedger` checks this mapping.
3. **`TxFeeTable`** (`MCTxFeeTable`) models the fee table.
   - **Variable:** `txfee`, a row or `NoEntry` for each (code, action).
   - **Actions:** the setters and `UnsetTxFeeEntryForAction`.
   - **Operators:** the lookups.
   - The empty name `account_name(0)` is the model value `NullName`.
   - The run checks it inside `IntrinsicGate` (item 12).

4. **`ProducerSchedule`** (`MCProducerSchedule`) models the producer-schedule
   intrinsics.
   - **Variables:**
     - `emptyDisallowed`: the protocol feature;
     - `call`: the last call's format and unpacked schedule;
     - `outcome`: `"ok"` or the first failing assertion;
     - `handedOff`: what `controller::set_proposed_producers` received.
   - **Actions:**
     - `SetProposedProducers` (legacy keys, up-converted to threshold-1
       authorities, keys validated);
     - `SetProposedProducersEx` (format 1, keys not validated);
     - `SetProposedProducersExUnknown`, `ActivateDisallowEmpty`, `Return`.
   - `SetProposedProducersCommon` is the validation in the code's order. Its
     loops are `FoldLeft`s, and the weight sum saturates as `sum_weights` does.
   - **Abstractions:** unpacking is replaced by choosing the unpacked value,
     and widths are scaled (a weight of 1 bit, the sum of 2 bits), so the
     saturation is reachable.
5. **`SoftFloat`** is the pure part: a binary float format with `ExpBits` and
   `ManBits` bits, of which f32, f64 and float128 are instances.
   - A value is its bit pattern.
   - The intrinsics are operators translated from the code's bit manipulation:
     - `F32Ceil` / `F32Floor` / `Trunc` clear masked bits;
     - `F64Ceil` / `F64Floor` go through the rounding gap;
     - `Nearest` adds and subtracts `inv_float_eps`;
     - `TruncToInt` applies the range tests and then the conversion;
     - `Cmptf2` / `TfSentinel` are the float128 comparisons.
   - The softfloat library calls the code makes (`f32_add`, `f32_lt`, ...) are
     IEEE operations with round-to-nearest-even on exact scaled values.
   - The reference definitions (`RoundingOk`, `MinMaxOf`, `Representable`)
     state the WebAssembly semantics on exact values.
6. **`SoftFloatCalls`** (`MCSoftFloat`) is a contract calling the intrinsics.
   - It has one action per intrinsic, and the state records the call and its
     result.
   - f32 is 1+4+2 bits and f64 is 1+4+4 bits. `N32` = 4 and `N64` = 6 stand
     for 32 and 64.
   - These keep the real relation `M32 < N32-1 < M64 < N64-1`, which decides
     which conversions are exact near their limits.
   - The float128 comparisons use a 1+3+1-bit format.
7. **`Int128Builtins`** models the 128-bit builtins on a 6-bit width (two
   3-bit halves).
   - `Shift` and `Binary` call a builtin with every operand.
   - Signed overflow wraps modulo `2^Width`, as the build computes it.
   - A shift count of `Width` or more is undefined behaviour in C++. It is
     modelled as what the x86-64 build does: a native `__int128 >>=` takes
     the count modulo 128. The `fc::uint128` shifts saturate to 0.
8. **`MemoryIntrinsics`** models `memory_api` on a memory of `MemSize` bytes
   of `ByteBits` bits.
   - **Variables:**
     - `mem`: the linear memory;
     - `old`: the memory before the current call;
     - `fn`, `args`, `res`: the call and its result.
   - **Actions:** `Memcpy`, `Memmove`, `Memcmp`, `Memset`, `Return`.
   - `MemcpyOk` is the code's `abs(dest - src) >= length` assertion.
   - Where the C standard leaves the library free, the model chooses:
     - `LibcMemcpy` may copy upward or downward, so an overlap that got past
       the assertion would show;
     - `LibcMemcmp` may return any integer of the right sign.
   - `ToByte` is `memset`'s conversion of its int to unsigned char.
9. **`ConsoleApi`** models `console_api`.
   - **Variables:**
     - `ignore`: the node's contracts-console switch, fixed at start;
     - `appended`: the text the last print appended, as ASCII codes;
     - `mem`: shared with `MemoryIntrinsics` in the composition.
   - **Conversions, modelled by what they do:**
     - `Dec` and `OstreamDec`: decimal numerals;
     - `Magnitude`: `printi128`'s negation through `unsigned __int128`;
     - `ToHex`: `fc::to_hex`;
     - `CString`: reading up to the terminating zero.
   - Integer widths are scaled like `Int128Builtins`.
10. **`FloatSecondaryIndex`** models the `idx_double` wrappers of
    `DB_API_METHOD_WRAPPERS_FLOAT_SECONDARY`.
    - **Variables:**
      - `rows`: the key of each primary key in one table;
      - `fn`, `args`, `res`: the call and its result.
    - **Actions:** `Store`, `Update`, `Remove`, `FindPrimary`,
      `FindSecondary`, `Lowerbound`, `Upperbound`, `Return`.
    - `KeyOk` is the NaN assertion.
    - **Modelled from the EOSIO semantics:** the index behind them
      (apply_context's generic_index, outside `src/`) is `Before` (order by
      key under `f64_lt`, then by primary key) and `FirstWhere`.

11. **`BufferIntrinsics`** models the intrinsics that copy host data into a
    contract buffer.
    - The copying ones are `get_active_producers`, `read_action_data` and
      `read_transaction` (`CopyOut`). They copy `min(buffer_size, s)`
      bytes and return that count.
    - The packing ones are `get_blockchain_parameters_packed`,
      `get_system_token_list_packed`, `get_trx_fee_for_action_packed` and
      `get_top_transaction_vote_receivers_packed` (`PackOut`). They pack the
      value when `s <= buffer_size` and otherwise return 0.
    - Both answer a `buffer_size` of 0 with the size `s`.
    - **Abstraction:** the value read is its packed bytes, chosen freely.
      Producer names take `NameBytes` bytes each.
    - It shares `mem` with `MemoryIntrinsics` in `MCWasmBuiltins`.

12. **`IntrinsicGate`** (`MCTxFeeTable`) models the dispatcher's access
    checks and the intrinsics that write chain-wide state.
    - **Variables:**
      - `privileged`: the accounts' privileged flags;
      - `config`, `sysTokens`, `limits`: the chain configuration, the
        system-token list and the resource limits;
      - `txfee`: `TxFeeTable`'s table;
      - `act`: the running action (receiver, context-free or not, privilege
        as read at its start, whether `eosio` authorized it, calls made);
      - `snap`: the chain state at the action's start.
    - **Access checks:** `Refused(cls)` is the constructor checks.
      `context_aware_api` refuses a class not in `ContextFreeApis` inside a
      context-free action. `context_free_api` refuses other actions.
      `privileged_api` refuses an unprivileged receiver.
    - **Actions:** `SetPrivileged`, `ActivateFeature` (always throws),
      `SetBlockchainParametersPacked`, `SetResourceLimits`,
      `SetSystemTokenListPacked` (its own `is_privileged` check and
      `require_authorization(eosio)`), `SetTrxFeeForAction` and
      `UnsetTrxFeeForAction` (through `TxFeeTable`).
    - Any exception is `Abort`, which restores `snap`.
    - **Modelled from EOSIO semantics (outside `src/`):**
      - apply_context reads the privileged flag when an action starts;
      - the fee setters' privilege check is done by apply_context, as the
        source comment says;
      - one action is one transaction.
    - **Abstractions:** packed configurations and lists are model values,
      one of which fails validation.

The `INSTANCE`s of the MC modules compose components. The one refinement is
`NToken` to `NativeLedger`, described under `NToken` above.

## Runs

| Run | Config | Checks | Result |
|---|---|---|---|
| `txfee_table` | `MCTxFeeTable.cfg` | `TypeOK`, `LookupIsMostSpecific`, `ChainWrittenOnlyByPrivileged`, `ContextFreeActionsWriteNothing` | pass, about 1.37M states, 35 s |
| `token_manager` | `MCStandardToken.cfg` | `TypeOK`, `SupplyConserved`, `BalanceRowsPositive`, `RamMatchesRows`, `NoOvercharge`, `FeeOnlyFailsWhenShort` | pass, about 65k states |
| `fee_rounding` | `MCStandardTokenFee.cfg` | `FeeFullyCharged` | violation: a fee of 1 is paid by a 2x token with a zero-amount `txfee` |
| `meta_symbol` | `MCStandardTokenMeta.cfg` | `MetaSymbolIsRequested` | violation: the stored symbol is the default one |
| `ntoken` | `MCNToken.cfg` | `TypeOK`, `SupplyMatchesBalances`, `TotalMatchesRows`, `FeeCollected`, `ImplementsNativeLedger`, `TransactionCompletes` | pass, about 370k states, 2 min (liveness included) |
| `ntoken_partial_transfer` | `MCNTokenTransfer.cfg` | `TransferExact` | violation: a system-signed transfer of 2 from a balance of 1 commits, sending 1 |
| `ntoken_zero_feetransfer` | `MCNTokenFeeTransfer.cfg` | `FeeTransferNeverAborts` | violation: a zero-amount `feetransfer` trips `amount > 0` |
| `softfloat` | `MCSoftFloat.cfg` | `TypeOK`, `RoundingMatchesReference`, `MinMaxMatchesReference`, `ComparisonsMatchReference`, `TfComparisonsMatchRelation`, `TruncConversionSound`, `IndexTypeOK`, `SecondaryQueriesSound` | pass, about 1.55M states |
| `softfloat_min_nan` | `MCSoftFloatMinNaN.cfg` | `MinMaxNaNReturnsOther` | violation: `min(NaN, 0)` returns the NaN |
| `producer_schedule` | `MCProducerSchedule.cfg` | `TypeOK`, `ScheduleAcceptedIffValid` | pass, about 125k states |
| `wasm_builtins` | `MCWasmBuiltins.cfg` | `ArithmeticMatchesReference`, `MemoryCallsMatchReference`, `ConsoleTextReadsBack`, `BufferTypeOK`, `ReadsAreComplete` | pass, about 777k states |
| `int128_signed_exact` | `MCInt128BuiltinsSigned.cfg` | `SignedResultsExact` | violation: `__ashrti3(1, 6)` on 6 bits returns 1 (and `__divti3(MIN, -1)` returns `MIN`) |

What the passing properties say:
- **`NoOvercharge` and `FeeOnlyFailsWhenShort`** are stated for every payer and
  every fee in every reachable state. They value tokens exactly, as the sum of
  amount * w, not with the loop's own `cur * w / 1x` rounded down.
  - The code does not charge exactly the fee's worth. A partial charge reduces
    the fee by `cur * w / 1x` rounded down (line 167), so it can take tokens
    that count for nothing: 1 unit of a 0.5x token plus 1 unit of a 1x token
    pay a fee of 1, a worth of 1.5.
  - For the same reason a payer holding enough can be refused: two 0.5x
    tokens of 1 each against a fee of 1.
  - Both statements without an allowance are violated by the code; TLC finds
    the two examples above.
  - The properties bound that rounding instead. Each allows less than one fee
    unit (1x - 1) per token of weight other than 1x whose whole balance the
    walk takes (`NoOvercharge`) or the payer holds (`FeeOnlyFailsWhenShort`).
  - Within that allowance, a successful call takes no more than the fee is
    worth, and a call fails only when the holdings fall short of the fee.
  - Charging the covering token more than its share, or failing to reduce the
    fee after a partial charge, breaks them (the mutants).
- **`FeeCollected`** (a step property, checked at the commit step): the fee
  account's gain equals the fees that `charge_fee` queued. This ties
  `wptransfer`'s fee calculation to what `payfee` actually takes.
- **`ImplementsNativeLedger`** (refinement): the committed tables behave as
  `NativeLedger`.
  - Every committing transaction conserves each depository's token, apart
    from what its issue or redeem changes.
  - It lowers only rows of the top-level action's signer or payer, and raises
    only rows of the recipient or the fee account.
  - The inline `wpntransfer`, `payfee` and `feetransfer` carry system or
    contract authority and check nothing of their own. Only the handlers'
    choice of `from`, `to` and `payer` keeps this true.
- **`ReadsAreComplete`:** for every buffer-read intrinsic, a size query
  returns the size and writes nothing.
  - Otherwise the result equals the size exactly when the data fits, at
    `s = buffer_size` included.
  - The buffer's first result bytes are the data's.
  - Nothing outside the buffer changes.
  - So a contract can tell a truncated copy, or an unwritten packed buffer,
    from a complete one by the result alone.
- **`ChainWrittenOnlyByPrivileged`** (a step property): the privileged
  flags, the chain configuration, the resource limits, the system-token list
  and the fee table change only in steps of actions whose receiver was
  privileged when the action started.
  - The check lives in three places: the `privileged_api` constructor,
    `set_system_token_list_packed`'s own assertion, and apply_context for
    the fee intrinsics.
  - A privilege granted by one action takes effect in the next. A
    privilege revoked in an action still holds until that action ends.
- **`ContextFreeActionsWriteNothing`** (a step property): a context-free
  action never changes that state, even for a privileged receiver.
- **`TransactionCompletes`** (liveness, under `WF_vars(Execute)`): every
  submitted transaction commits or aborts. The tree of inline actions is
  finite without the runtime's depth limit.
- **`MemoryCallsMatchReference`:**
  - `memcpy` refuses exactly the overlapping ranges: ranges that only touch
    pass, and a one-byte overlap in either direction fails;
  - `memcpy` and `memmove` leave in dest the bytes src held before the call;
  - `memcmp` returns -1/0/1 as a lexicographic comparison does.
- **`ConsoleTextReadsBack`:**
  - every integer print appends a canonical numeral that reads back as its
    value, with a '-' exactly for negatives, `INT128_MIN` included;
  - `printhex` appends two hex digits per byte. With one-bit bytes only the
    digits 0 and 1 occur, so the letters a..f of `DigitChar` are not
    exercised;
  - nothing is appended with contracts-console off.
- **`SecondaryQueriesSound`:**
  - `find_secondary` returns a row equal to the query;
  - `lowerbound` and `upperbound` return the first row >= / > the query, and
    every row before it is < / <=;
  - this holds for -0 and +0 rows, with NaN refused by the assertions.
  - `IndexTypeOK` states that no row holds a NaN.

- **`RoundingMatchesReference`, `MinMaxMatchesReference`,
  `ComparisonsMatchReference`** hold for every f32 pattern. For f64 they hold
  for every pattern in the one-operand intrinsics, and for the special values
  and a few ordinary ones in the two-operand ones. They cover -0, subnormals,
  infinities and NaNs.
- **`TruncConversionSound`:** no unrepresentable value gets past the range
  tests. `TypeOK` also requires a conversion's result to be a value of its C
  return type.
- **`TfComparisonsMatchRelation`:** every float128 comparison gives its IEEE
  relation under the libgcc convention the caller tests (`__getf2` r >= 0, and
  so on), including on NaN operands.
- **`ScheduleAcceptedIffValid`:** a schedule reaches the controller exactly
  when it satisfies the reference definition of validity, in which the
  weights are summed without bound.
- **`ArithmeticMatchesReference`:**
  - `__divti3`, `__modti3`, `__udivti3`, `__umodti3` and `__multi3` match
    C99 division and remainder and the two's-complement product;
  - `__ashrti3` by less than the width matches the arithmetic shift;
  - `__ashlti3`, `__lshlti3` and `__lshrti3` are not checked, since each is
    a single fc shift;
  - `__ashrti3` by the width or more is the case of the `int128_signed_exact`
    violation run.
- The wasm components have no type invariants of their own beyond
  `BufferTypeOK`. Theirs held by construction (every result is taken modulo
  its width), so they said nothing about the code.

Findings of the violation runs (details in `PROJECT.json`):
- **`fee_rounding`:** the code rounds a fee's worth down, where spec 4.4 says
  ceil.
- **`meta_symbol`:** a shadowed lambda parameter makes `settokenmeta` store
  nothing it was given.
- **`ntoken_partial_transfer`:** a transfer without a fee can commit short.
- **`ntoken_zero_feetransfer`:** `payfee` aborts on a payer's emptied first row.
- **`softfloat_min_nan`:** min/max propagate NaN, as WebAssembly does. The
  spec's invariant says they return the other operand.
- **`int128_signed_exact`:** two signed builtins miss the exact result.
  - `__ashrti3` by 128 or more shifts by the count modulo 128, under the
    build's masking of the undefined shift. So `x >> 128` returns `x`,
    where `__lshrti3` returns 0.
    - TLC's shortest trace is `1 >> 6` on 6 bits, returning 1.
  - `INT128_MIN / -1` returns `INT128_MIN` with no exception. TLC shows it
    when the shifts are limited to 0..5.

An observation without a run of its own: `_eosio_f64_trunc_i32s` traps on
values in (-2^31 - 1, -2^31), whose truncation fits an int32. This agrees with
spec.md and only ever errs towards trapping.

Every property of a passing run has a mutant in `PROJECT.json`: a plausible bug
in the mapped code that TLC catches.

## Bounds and why they are enough

- **StandardToken:**
  - two tokens and four accounts (both token owners, a user, the fee account);
  - supply at most 3, amounts 1..2, fees 1..2;
  - weights 0.5x and 1x, and lists of up to 2 tokens.
  - These bounds reach:
    - partial and covering charges;
    - a walk over two tokens;
    - failures that roll back a dispatched `txfee`;
    - rows removed and recreated.
  - The violation run uses 1x/2x weights, where the rounding shows.
- **NToken:**
  - two depositories, one plain user and the fee account;
  - `max_amount` = 2 and amounts 1..2, so a single credit of 2 onto a row of 1 already passes the cap.
  - An account can hold rows of both depositories, so a transfer or a fee
    spans two rows.
  - Fees are 1 (a `setfee` of -1 is rejected).
  - The system-signed variant reaches the zero-fee path of `wptransfer`.
- **TxFeeTable and IntrinsicGate:**
  - one code and one action besides the empty name. These give the four
    keys of the fallback chain: exact, common, default, and a code with the
    empty action.
  - values -1..1 and an unsupported fee type;
  - the system account and one user;
  - two chain configurations and two token lists, plus an invalid one of
    each;
  - resource-limit arguments -2 and 0;
  - at most 2 intrinsic calls per action, so a first write can be rolled
    back by a failing second call.
  - A second code would multiply the states by 9 and take the run past
    five minutes.
- **ProducerSchedule:**
  - 3 accounts and a non-account, `max_producers` = 2, and schedules of up to
    3 producers, so the size limit, duplicate names and missing accounts are
    each the first failure in some call;
  - nine authorities, covering each assertion of the key loop, a 4x1 weight
    sum that saturates at 3, and a zero weight;
  - both formats, with the feature active and inactive.
- **SoftFloat:**
  - every f32 pattern, every f64 pattern for the one-operand intrinsics, and
    every float128 pair;
  - the formats have subnormals, infinities, NaNs and integers at the limits
    of the scaled integer widths.
- **Int128Builtins:** every pair of 6-bit operands and shifts 0..7. This
  includes zero divisors, `MIN / -1`, sign changes on shift, and shifts by
  the width and beyond.
- **BufferIntrinsics:** the 4-byte memory above, data of 0..3 bytes and
  2-byte names, and every in-bounds buffer. This gives buffers smaller
  than, equal to and larger than the data, the size query, and a producer
  copy that ends inside a name.
- **MemoryIntrinsics:**
  - every content of 4 one-bit bytes, and every in-bounds (dest, src, length)
    with length up to 3;
  - this gives overlaps by one byte in both directions, touching ranges and
    length 0;
  - memset values are -1, 0 and 2, which reduce to 1, 0, 0.
- **ConsoleApi:**
  - 4-bit int64s;
  - 6-bit 128-bit integers (so `INT128_MIN` is -32);
  - the memory above.
- **FloatSecondaryIndex:** two primary keys and the keys -0, +0, 1.0 and a NaN,
  in the 1+4+4-bit f64.
  - This is enough for two equal keys with distinct patterns, an ordered pair,
    and a NaN against every stored key.

Fairness: only `MCNToken`'s `FairSpec` assumes any, weak fairness of the
inline-action executor (see `NToken` above). It is needed only for
`TransactionCompletes`. Every other property is a safety property, and nothing
else in this code waits or retries.

## Not modelled, and why

- **Snapshot read/write of the managers:** serialisation.
- **The chain API plugin:** HTTP wiring.
- **yx.dcontract:** declarations only.
- **The WASM backends and memory-bounds checking** (`array_ptr` validation):
  outside `src/`. The models enumerate only in-bounds ranges.
- **`printsf`/`printdf`/`printqf`:** scientific float formatting through
  iostreams and an 80-bit conversion.
- **`printn`:** `name::to_string` is outside `src/`.
- **`preactivate_feature`:** a call into the controller's protocol-feature
  manager, outside `src/`. Its only check here is the `privileged_api`
  constructor, which `IntrinsicGate` models.
- **The read-only privileged intrinsics** (`is_privileged`,
  `get_resource_limits`, `is_feature_active`): they change nothing once the
  constructor check has passed.
- **`set_resource_limits`' `validate_ram_usage` entry:** a RAM check at the
  end of the transaction, outside `src/`.
- **The i64 table and the integer and array secondary indexes:** one-line
  forwards to apply_context with no check of their own. The only check,
  `data_len == ARR_SIZE`, is a single guard.
- **`require_recipient` notifications:** they run other contracts' code.
- **Softfloat pass-throughs:** `_eosio_f*_add/sub/mul/div`, `eq/ne/lt/le`,
  promote/demote and the integer-to-float conversions are each a single
  softfloat library call.
  - Within the model, the library is the IEEE reference itself, so a property
    of these wrappers would only restate the reference.
  - Their use inside the other intrinsics is modelled.
- **Float128 arithmetic and conversions** (`__addtf3` ... `__floatuntidf`):
  single library calls for the same reason.

## Further work

1. **`wasm_interface.cpp`:** tie `standard_token_api`
   `issue/transfer/retire_token` to `StandardToken` through `IntrinsicGate`.
2. **The standard token manager refining `NativeLedger`'s idea:** a ledger
   of token balances that moves atomically per committed transaction, as
   `NToken` already does.
3. **More intrinsics:** give the float index a second table, so that lookups
   by primary key can cross tables, and model the integer secondary indexes'
   `data_len` check.
