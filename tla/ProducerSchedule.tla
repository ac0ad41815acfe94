--------------------------- MODULE ProducerSchedule ---------------------------
(***************************************************************************)
(* The privileged intrinsics that propose a producer schedule              *)
(* (wasm_interface.cpp, privileged_api): set_proposed_producers (the       *)
(* legacy format of producer keys), set_proposed_producers_ex (format 0 or *)
(* 1) and their common validation set_proposed_producers_common, which     *)
(* hands an accepted schedule to the controller.                           *)
(*                                                                         *)
(* Each step is one call with a schedule chosen from small sets; the state *)
(* records the call, its outcome (the first failing assertion, or "ok")    *)
(* and the schedule handed to the controller.  A failing assertion aborts  *)
(* the action, so a rejected call hands nothing over.                      *)
(*                                                                         *)
(* Widths are scaled: a key weight has KeyWeightBits bits (uint16_t) and a *)
(* threshold and the weight sum SumBits bits (uint32_t).                   *)
(***************************************************************************)
EXTENDS Integers, Sequences, SequencesExt, FiniteSets, Functions

CONSTANTS
    Names,                 \* producer names offered in schedules
    Accounts,              \* the names that are existing accounts
    Keys,                  \* public keys
    KeyType,               \* key -> its variant index (key.which())
    ValidKeys,             \* the keys for which key.valid() holds
    NumSupportedKeyTypes,  \* protocol_state_object::num_supported_key_types
    KeyWeightBits,         \* width of key_weight::weight
    SumBits,               \* width of the threshold and of sum_weights
    MaxProducers,          \* config::max_producers
    Authorities,           \* candidate block_signing_authority_v0 values
    NoSchedule             \* nothing handed to the controller

ASSUME Accounts \subseteq Names /\ KeyType \in [Keys -> Nat] /\ ValidKeys \subseteq Keys
ASSUME \A a \in Authorities :
          /\ a.threshold \in 0 .. 2^SumBits - 1
          /\ \A j \in DOMAIN a.keys : a.keys[j][1] \in Keys /\
                                      a.keys[j][2] \in 0 .. 2^KeyWeightBits - 1

VARIABLES
    emptyDisallowed,  \* builtin feature disallow_empty_producer_schedule active
    call,             \* the last call: [fmt, producers] or NoSchedule
    outcome,          \* "idle", "ok" or the failed assertion
    handedOff         \* the schedule given to controller::set_proposed_producers
vars == <<emptyDisallowed, call, outcome, handedOff>>

Producer == [name : Names, authority : Authorities]
LegacyProducer == [name : Names, key : Keys]
Schedules == BoundedSeq(Producer, MaxProducers + 1)
LegacySchedules == BoundedSeq(LegacyProducer, MaxProducers + 1)

\* a producer_authority as the unpacked data can hold it
ProducerAuthority ==
    [name : Names,
     authority : [threshold : 0 .. 2^SumBits - 1,
                  keys : Seq(Keys \X (0 .. 2^KeyWeightBits - 1))]]

TypeOK ==
    /\ emptyDisallowed \in BOOLEAN
    /\ call \in [fmt : {0, 1}, producers : Seq(ProducerAuthority)] \cup {NoSchedule}
    /\ \/ handedOff = NoSchedule
       \/ handedOff \in Seq(ProducerAuthority) /\ Len(handedOff) <= MaxProducers
    /\ outcome \in STRING

Init ==
    /\ emptyDisallowed \in BOOLEAN
    /\ call = NoSchedule /\ outcome = "idle" /\ handedOff = NoSchedule

UInt32Max == 2^SumBits - 1

\* mutant: sum_weights wraps around instead of saturating
WrappingAdd(sum, w) == (sum + w) % 2^SumBits

\* sum_weights += kw.weight, saturating at numeric_limits<uint32_t>::max()
SaturatingAdd(sum, w) == IF UInt32Max - sum <= w THEN UInt32Max ELSE sum + w

\* one iteration of the loop over a.keys: key type, key validity, weight
KeyStep(validateKeys, acc, kw) ==
        IF acc.err # "ok" THEN acc
        ELSE IF KeyType[kw[1]] >= NumSupportedKeyTypes
        THEN [acc EXCEPT !.err = "unactivated_key_type"]
        ELSE IF validateKeys /\ kw[1] \notin ValidKeys
        THEN [acc EXCEPT !.err = "invalid_key"]
        ELSE [err |-> "ok", sum |-> SaturatingAdd(acc.sum, kw[2]),
              keys |-> acc.keys \cup {kw[1]}]

\* the visitor on a producer's authority: the key loop, then the duplicate
\* key, zero threshold and unsatisfiable-authority assertions
AuthorityCheck(a, validateKeys) ==
    LET st == FoldLeft(LAMBDA acc, kw : KeyStep(validateKeys, acc, kw),
                       [err |-> "ok", sum |-> 0, keys |-> {}], a.keys)
    IN  IF st.err # "ok" THEN st.err
        ELSE IF Len(a.keys) # Cardinality(st.keys) THEN "duplicated_key"
        ELSE IF ~(a.threshold > 0) THEN "zero_threshold"
        ELSE IF ~(st.sum >= a.threshold) THEN "unsatisfiable_authority"
        ELSE "ok"

\* mutant: the size limit off by one
SetProposedProducersCommonSizeOffByOne(producers, validateKeys) ==
    IF ~(Len(producers) <= MaxProducers + 1) THEN "too_many_producers"
    ELSE IF ~(Len(producers) > 0 \/ ~emptyDisallowed) THEN "empty_schedule"
    ELSE LET step(acc, p) ==
                 IF acc.err # "ok" THEN acc
                 ELSE IF p.name \notin Accounts
                 THEN [acc EXCEPT !.err = "nonexisting_account"]
                 ELSE IF AuthorityCheck(p.authority, validateKeys) # "ok"
                 THEN [acc EXCEPT !.err = AuthorityCheck(p.authority, validateKeys)]
                 ELSE [acc EXCEPT !.names = @ \cup {p.name}]
             st == FoldLeft(step, [err |-> "ok", names |-> {}], producers)
         IN  IF st.err # "ok" THEN st.err
             ELSE IF Len(producers) # Cardinality(st.names) THEN "duplicate_producer"
             ELSE "ok"

\* set_proposed_producers_common: size, emptiness, then per producer the
\* account and its authority, then the unique-name assertion
SetProposedProducersCommon(producers, validateKeys) ==
    IF ~(Len(producers) <= MaxProducers) THEN "too_many_producers"
    ELSE IF ~(Len(producers) > 0 \/ ~emptyDisallowed) THEN "empty_schedule"
    ELSE LET step(acc, p) ==
                 IF acc.err # "ok" THEN acc
                 ELSE IF p.name \notin Accounts
                 THEN [acc EXCEPT !.err = "nonexisting_account"]
                 ELSE IF AuthorityCheck(p.authority, validateKeys) # "ok"
                 THEN [acc EXCEPT !.err = AuthorityCheck(p.authority, validateKeys)]
                 ELSE [acc EXCEPT !.names = @ \cup {p.name}]
             st == FoldLeft(step, [err |-> "ok", names |-> {}], producers)
         IN  IF st.err # "ok" THEN st.err
             ELSE IF Len(producers) # Cardinality(st.names) THEN "duplicate_producer"
             ELSE "ok"

Returned(fmt, producers, result) ==
    /\ call' = [fmt |-> fmt, producers |-> producers]
    /\ outcome' = result
    /\ handedOff' = IF result = "ok" THEN producers ELSE NoSchedule
    /\ UNCHANGED emptyDisallowed

\* the legacy producer_key list up-converted to authorities of threshold 1
UpConvert(old) ==
    [i \in DOMAIN old |->
        [name |-> old[i].name,
         authority |-> [threshold |-> 1, keys |-> <<<<old[i].key, 1>>>>]]]

Idle == outcome = "idle"

\* set_proposed_producers, and set_proposed_producers_ex with format 0:
\* keys are validated
SetProposedProducers ==
    /\ Idle
    /\ \E old \in LegacySchedules :
          Returned(0, UpConvert(old),
                   SetProposedProducersCommon(UpConvert(old), TRUE))

\* set_proposed_producers_ex with format 1: keys are not validated
SetProposedProducersEx ==
    /\ Idle
    /\ \E ps \in Schedules :
          Returned(1, ps, SetProposedProducersCommon(ps, FALSE))

\* set_proposed_producers_ex with an unknown format throws
SetProposedProducersExUnknown ==
    /\ Idle
    /\ call' = NoSchedule /\ outcome' = "unknown_format" /\ handedOff' = NoSchedule
    /\ UNCHANGED emptyDisallowed

\* the builtin protocol feature disallow_empty_producer_schedule activates
ActivateDisallowEmpty ==
    /\ Idle /\ ~emptyDisallowed
    /\ emptyDisallowed' = TRUE
    /\ UNCHANGED <<call, outcome, handedOff>>

\* the intrinsic has returned (or thrown) to the contract
Return ==
    /\ ~Idle
    /\ call' = NoSchedule /\ outcome' = "idle" /\ handedOff' = NoSchedule
    /\ UNCHANGED emptyDisallowed

Next ==
    \/ SetProposedProducers \/ SetProposedProducersEx
    \/ SetProposedProducersExUnknown \/ ActivateDisallowEmpty \/ Return

Spec == Init /\ [][Next]_vars
-----------------------------------------------------------------------------
(***************************************************************************)
(* Reference definition of a valid schedule (spec section on privileged    *)
(* intrinsics): at most MaxProducers distinct existing producers, not      *)
(* empty once the feature is active, and every authority with distinct    *)
(* keys of supported types (valid ones, when keys are validated), a        *)
(* positive threshold and a total weight -- summed without bound -- that   *)
(* reaches it.                                                             *)
(***************************************************************************)
ValidAuthority(a, validateKeys) ==
    LET ks == [j \in DOMAIN a.keys |-> a.keys[j][1]]
    IN  /\ \A k \in Range(ks) :
              KeyType[k] < NumSupportedKeyTypes /\ (validateKeys => k \in ValidKeys)
        /\ IsInjective(ks)
        /\ a.threshold > 0
        /\ FoldLeft(LAMBDA s, kw : s + kw[2], 0, a.keys) >= a.threshold

ValidSchedule(ps, validateKeys) ==
    /\ Len(ps) <= MaxProducers
    /\ Len(ps) > 0 \/ ~emptyDisallowed
    /\ IsInjective([i \in DOMAIN ps |-> ps[i].name])
    /\ \A i \in DOMAIN ps :
          ps[i].name \in Accounts /\ ValidAuthority(ps[i].authority, validateKeys)

(***************************************************************************)
(* ScheduleAcceptedIffValid: set_proposed_producers_common hands a         *)
(* schedule to the controller exactly when it is valid.  The code checks   *)
(* producer by producer and sums weights in a saturating uint32, so the    *)
(* property holds only if the saturation never turns a satisfiable         *)
(* authority into an unsatisfiable one (or the reverse), and the per-key   *)
(* and per-name sets catch every duplicate.                                *)
(***************************************************************************)
ScheduleAcceptedIffValid ==
    call # NoSchedule =>
        (handedOff = call.producers) = ValidSchedule(call.producers, call.fmt = 0)
=============================================================================
