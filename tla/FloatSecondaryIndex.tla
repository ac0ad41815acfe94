------------------------- MODULE FloatSecondaryIndex -------------------------
(***************************************************************************)
(* The float secondary-index intrinsics of wasm_interface.cpp             *)
(* (DB_API_METHOD_WRAPPERS_FLOAT_SECONDARY, instantiated for idx_double):  *)
(* store, update, remove, find_secondary, find_primary, lowerbound and     *)
(* upperbound on one table.  Every intrinsic that hands a key to the index *)
(* to store or to compare asserts first that it is not a NaN; find_primary *)
(* only reads the key of a row and has no assertion.                       *)
(*                                                                         *)
(* The index itself (apply_context's generic_index, outside this           *)
(* repository) keeps its rows ordered by (key, primary) with softfloat's   *)
(* f64_lt on keys; a query returns the first row of that order that        *)
(* answers it.  Iterators are abstracted to the primary key of the row     *)
(* they point at, and RAM billing of the payer is left out.                *)
(***************************************************************************)
EXTENDS Integers

CONSTANTS ExpBits, ManBits,
          Primaries,             \* primary keys of the table, integers
          Keys,                  \* the float patterns a contract passes
          NoRow, End,            \* a free primary key; the end iterator
          TransactionException   \* what the NaN assertion raises

F == INSTANCE SoftFloat

ASSUME Primaries \subseteq Nat /\ Keys \subseteq F!Words

\* the keys a row may hold: the index's key type, NaN excluded
SecondaryKeys == {k \in Keys : ~F!IsNaN(k)}

VARIABLES rows, fn, args, res
vars == <<rows, fn, args, res>>

TypeOK ==
    /\ rows \in [Primaries -> SecondaryKeys \cup {NoRow}]
    /\ fn \in {"none", "store", "update", "remove", "find_secondary", "find_primary",
               "lowerbound", "upperbound"}
    /\ res \in Primaries \cup Keys \cup {End, TransactionException, 0}

Init == rows = [p \in Primaries |-> NoRow] /\ fn = "none" /\ args = <<>> /\ res = 0

Idle == fn = "none"

Stored == {p \in Primaries : rows[p] # NoRow}

\* the index order: by key under f64_lt, then by primary key
Before(p, q) == F!FLt(rows[p], rows[q]) \/ (~F!FLt(rows[q], rows[p]) /\ p < q)

\* the first stored row that satisfies Test, or the end iterator
FirstWhere(Test(_)) ==
    LET s == {p \in Stored : Test(p)}
        c == {p \in s : \A q \in s \ {p} : Before(p, q)}
    IN  IF c = {} THEN End ELSE CHOOSE p \in c : TRUE

\* EOS_ASSERT(!softfloat_api::is_nan(secondary), transaction_exception, ...)
KeyOk(k) == ~F!IsNaN(k)

Call(name, a, r) == fn' = name /\ args' = a /\ res' = r

\* mutant: db_idx_double_store without the NaN assertion
StoreNoGuard ==
    /\ Idle
    /\ \E p \in Primaries \ Stored, k \in Keys :
          rows' = [rows EXCEPT ![p] = k] /\ Call("store", <<p, k>>, p)

\* db_idx_double_store: a new row under a free primary key
Store ==
    /\ Idle
    /\ \E p \in Primaries \ Stored, k \in Keys :
          IF KeyOk(k) THEN rows' = [rows EXCEPT ![p] = k] /\ Call("store", <<p, k>>, p)
          ELSE UNCHANGED rows /\ Call("store", <<p, k>>, TransactionException)

\* db_idx_double_update: the row an iterator points at gets a new key
Update ==
    /\ Idle
    /\ \E p \in Stored, k \in Keys :
          IF KeyOk(k) THEN rows' = [rows EXCEPT ![p] = k] /\ Call("update", <<p, k>>, 0)
          ELSE UNCHANGED rows /\ Call("update", <<p, k>>, TransactionException)

\* db_idx_double_remove
Remove ==
    /\ Idle
    /\ \E p \in Stored : rows' = [rows EXCEPT ![p] = NoRow] /\ Call("remove", <<p>>, 0)

\* db_idx_double_find_primary: the key of the row with that primary key
FindPrimary ==
    /\ Idle
    /\ \E p \in Primaries :
          Call("find_primary", <<p>>, IF rows[p] = NoRow THEN End ELSE rows[p])
    /\ UNCHANGED rows

\* find_secondary, lowerbound, upperbound: the assertion, then the query
Query(name, k, Test(_)) ==
    Call(name, <<k>>, IF KeyOk(k) THEN FirstWhere(Test) ELSE TransactionException)

FindSecondary ==
    /\ Idle
    /\ \E k \in Keys :
          Query("find_secondary", k, LAMBDA p : ~F!FLt(rows[p], k) /\ ~F!FLt(k, rows[p]))
    /\ UNCHANGED rows

\* mutant: db_idx_double_lowerbound without the NaN assertion
LowerboundNoGuard ==
    /\ Idle
    /\ \E k \in Keys :
          Call("lowerbound", <<k>>, FirstWhere(LAMBDA p : ~F!FLt(rows[p], k)))
    /\ UNCHANGED rows

Lowerbound ==
    /\ Idle
    /\ \E k \in Keys : Query("lowerbound", k, LAMBDA p : ~F!FLt(rows[p], k))
    /\ UNCHANGED rows

Upperbound ==
    /\ Idle
    /\ \E k \in Keys : Query("upperbound", k, LAMBDA p : F!FLt(k, rows[p]))
    /\ UNCHANGED rows

Return == ~Idle /\ fn' = "none" /\ args' = <<>> /\ res' = 0 /\ UNCHANGED rows

Next ==
    \/ Store \/ Update \/ Remove \/ FindPrimary
    \/ FindSecondary \/ Lowerbound \/ Upperbound \/ Return

Spec == Init /\ [][Next]_vars
-----------------------------------------------------------------------------
(***************************************************************************)
(* SecondaryQueriesSound: what a contract reads from the index is what     *)
(* ordered keys promise.  A find_secondary row holds a key equal (f64_eq)  *)
(* to the query, and end means no row does; a lowerbound row holds a key   *)
(* >= the query and every row before it a key < the query; an upperbound  *)
(* row holds a key > the query and every row before it a key <= it.  A     *)
(* NaN reaching the index, stored or queried, makes these comparisons      *)
(* false and the answers arbitrary.                                        *)
(***************************************************************************)
SecondaryQueriesSound ==
    LET k == args[1]
        r == res
        before == {p \in Stored : r \in Stored /\ Before(p, r)}
    IN  /\ fn = "find_secondary" /\ r # TransactionException =>
              IF r = End THEN \A p \in Stored : ~F!FEq(rows[p], k)
              ELSE F!FEq(rows[r], k)
        /\ fn = "lowerbound" /\ r # TransactionException =>
              IF r = End THEN \A p \in Stored : F!FLt(rows[p], k)
              ELSE F!FLe(k, rows[r]) /\ \A p \in before : F!FLt(rows[p], k)
        /\ fn = "upperbound" /\ r # TransactionException =>
              IF r = End THEN \A p \in Stored : F!FLe(rows[p], k)
              ELSE F!FLt(k, rows[r]) /\ \A p \in before : F!FLe(rows[p], k)
=============================================================================
