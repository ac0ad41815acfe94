------------------------- MODULE MCProducerSchedule -------------------------
(***************************************************************************)
(* Three names, one of them no account; keys k1..k4 valid of type 0, kx    *)
(* invalid, kr of the unsupported type 1.  Weights are 1 bit and sums 2    *)
(* bits, so four unit weights overflow the sum.  The authorities cover one *)
(* case of each assertion and two satisfiable ones.                        *)
(***************************************************************************)
EXTENDS ProducerSchedule

CONSTANTS k1, k2, k3, k4, kx, kr

MCKeyType == [k \in Keys |-> IF k = kr THEN 1 ELSE 0]

Auth(t, kws) == [threshold |-> t, keys |-> kws]

MCAuthorities ==
    { Auth(1, <<<<k1, 1>>>>),                                    \* plain
      Auth(3, <<<<k1, 1>>, <<k2, 1>>, <<k3, 1>>, <<k4, 1>>>>),   \* sum saturates
      Auth(1, <<<<k1, 0>>, <<k2, 1>>>>),                         \* a zero weight
      Auth(3, <<<<k1, 1>>, <<k2, 1>>>>),                         \* unsatisfiable
      Auth(0, <<<<k1, 1>>>>),                                    \* zero threshold
      Auth(1, <<<<k1, 1>>, <<k1, 1>>>>),                         \* duplicated key
      Auth(1, <<<<kr, 1>>>>),                                    \* unactivated type
      Auth(1, <<<<kx, 1>>>>),                                    \* invalid key
      Auth(1, <<>>) }                                            \* no key
=============================================================================
