------------------------------ MODULE Mempool ------------------------------
(***************************************************************************)
(* The transaction pool (kratos-core/src/node/mempool.rs) as the node uses *)
(* it: transactions are added without a state to validate them against,    *)
(* and neither prune, nor cleanup_expired, nor remove_stale is called.  A  *)
(* pool is a record, and the methods are operators on it.                  *)
(*                                                                         *)
(* transactions is the set of hashes, queues the by_nonce maps of the      *)
(* account queues, heap the entries of the priority queue in the order     *)
(* they were pushed: entries are compared by fee, then by age, and stay    *)
(* when their transaction is removed.  The fee of a hash is that of its    *)
(* call.  The rate limiter only refuses: a refused transaction is no step. *)
(***************************************************************************)
EXTENDS Ledger

CONSTANTS
    max_size,
    max_per_account,
    rbf_min_increase_pct,
    min_fee

ASSUME PoolAssumption ==
    {max_size, max_per_account, rbf_min_increase_pct, min_fee} \subseteq Nat

\* A transaction as it is handed over: its hash is not serialised (serde(skip)),
\* so one that was decoded has none until somebody computes it.
SignedTransaction == [transaction : Transaction, hash : BOOLEAN]

Signed(tx) == [transaction |-> tx, hash |-> TRUE]

decode(stx) == [stx EXCEPT !.hash = FALSE]

Fee(tx) == base_fee[tx.call]

\* The keys of a queue are the nonces in it.
EmptyPool ==
    [transactions |-> {}, queues |-> [a \in Account |-> [n \in {} |-> 0]], heap |-> << >>]

insert_transaction(p, tx) ==
    [p EXCEPT
        !.transactions = @ \cup {tx},
        !.heap = Append(@, tx),
        !.queues[tx.sender] =
            [n \in DOMAIN @ \cup {tx.nonce} |-> IF n = tx.nonce THEN tx ELSE @[n]]]

remove_internal(p, tx) ==
    IF tx \notin p.transactions THEN p
    ELSE [p EXCEPT !.transactions = @ \ {tx},
                   !.queues[tx.sender] = Restrict(@, DOMAIN @ \ {tx.nonce})]

\* Mutant: the replaced transaction stays in the pool.
replace_keeping_old(p, tx, existing) ==
    IF Fee(tx) < Fee(existing) + (Fee(existing) * rbf_min_increase_pct) \div 100 THEN {}
    ELSE {insert_transaction(p, tx)}

\* try_replace, as the set of its outcomes: none if the fee is not enough.
try_replace(p, tx, existing) ==
    IF Fee(tx) < Fee(existing) + (Fee(existing) * rbf_min_increase_pct) \div 100 THEN {}
    ELSE {insert_transaction(remove_internal(p, existing), tx)}

\* One of the transactions with the lowest fee, if that is below the new one.
evict_lowest_fee(p, new_fee) ==
    {remove_internal(p, tx) :
        tx \in {t \in p.transactions :
                   Fee(t) < new_fee /\ \A u \in p.transactions : Fee(t) <= Fee(u)}}

\* add, as the set of its outcomes: none if the transaction is refused.
add(p, stx) ==
    LET tx == stx.transaction
        queue == p.queues[tx.sender]
    IN  CASE ~stx.hash \/ tx \in p.transactions \/ Fee(tx) < min_fee -> {}
          [] tx.nonce \in DOMAIN queue -> try_replace(p, tx, queue[tx.nonce])
          [] Cardinality(DOMAIN queue) >= max_per_account -> {}
          [] Cardinality(p.transactions) >= max_size ->
                 {insert_transaction(q, tx) : q \in evict_lowest_fee(p, Fee(tx))}
          [] OTHER -> {insert_transaction(p, tx)}

\* The entries of the heap in the order they are popped.
PopOrder(heap) ==
    LET levels == SetToSortSeq({Fee(heap[i]) : i \in DOMAIN heap}, LAMBDA x, y : x > y)
    IN  FlattenSeq([i \in DOMAIN levels |-> SelectSeq(heap, LAMBDA tx : Fee(tx) = levels[i])])

\* Selection from the nonces given; an entry that is not next is passed over.
SelectFrom(p, max_count, nonces) ==
    LET Pop(acc, tx) ==
            IF \/ Len(acc.selected) >= max_count
               \/ tx \in Range(acc.selected)
               \/ tx \notin p.transactions
               \/ tx.nonce # acc.nonces[tx.sender]
            THEN acc
            ELSE [selected |-> Append(acc.selected, tx),
                  nonces |-> [acc.nonces EXCEPT ![tx.sender] = @ + 1]]
    IN  FoldLeft(Pop, [selected |-> << >>, nonces |-> nonces], PopOrder(p.heap)).selected

select_transactions_with_state(p, max_count, l) ==
    SelectFrom(p, max_count, [a \in Account |-> get_account(l, a).nonce])

\* A transaction of the block that has no hash is passed over.
remove_included(p, block_txs) ==
    FoldLeft(LAMBDA q, stx : IF stx.hash THEN remove_internal(q, stx.transaction) ELSE q,
             p, block_txs)
=============================================================================
