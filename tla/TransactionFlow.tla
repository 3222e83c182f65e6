-------------------------- MODULE TransactionFlow --------------------------
(***************************************************************************)
(* The way of transactions through a node: submitted over RPC or received  *)
(* by gossip into the pool, selected and executed by its producer, and     *)
(* executed again by it when they come in the blocks of others             *)
(* (kratos-core/src/node/service.rs and producer.rs).  What a block does   *)
(* besides is in modules BlockPipeline and EarlyValidators.                *)
(*                                                                         *)
(* gossiped and included are not part of the code: the transactions that   *)
(* arrived by gossip, and those of the stored blocks, in order.            *)
(***************************************************************************)
EXTENDS Mempool

CONSTANTS
    Transactions,                 \* those that clients sign
    Author,                       \* the authors of blocks
    max_transactions_per_block,
    MaxPushes,                    \* bound on the transactions added
    MaxGossip,                    \* bound on the transactions that arrive by gossip
    MaxBlocks                     \* bound on the blocks executed

ASSUME FlowAssumption ==
    /\ Transactions \subseteq Transaction
    /\ Author \subseteq Account
    /\ {max_transactions_per_block, MaxPushes, MaxGossip, MaxBlocks} \subseteq Nat

VARIABLES
    ledger,
    pool,
    chain_height,
    gossiped,
    included

vars == <<ledger, pool, chain_height, gossiped, included>>

Init ==
    /\ ledger = EmptyLedger
    /\ pool = EmptyPool
    /\ chain_height = 0
    /\ gossiped = {}
    /\ included = << >>

\* The hash is computed when the RPC's decoder has left it out.
submit_transaction(tx) ==
    /\ pool' \in add(pool, Signed(tx))
    /\ UNCHANGED <<ledger, chain_height, gossiped, included>>

\* handle_network_event: what the pool refuses is dropped.
TransactionReceived(tx) ==
    LET outcomes == add(pool, decode(Signed(tx)))
    IN  /\ pool' \in IF outcomes = {} THEN {pool} ELSE outcomes
        /\ gossiped' = gossiped \cup {tx}
        /\ UNCHANGED <<ledger, chain_height, included>>

\* The transactions executed one after another; ok tells whether all succeeded.
Executed(txs) ==
    LET Step(acc, tx) ==
            LET result == execute(acc.ledger, tx, chain_height + 1)
            IN  [ledger |-> result.ledger, fees |-> acc.fees + result.fee_paid,
                 txs |-> IF result.success THEN Append(acc.txs, tx) ELSE acc.txs]
    IN  FoldLeft(Step, [ledger |-> ledger, fees |-> 0, txs |-> << >>], txs)

\* produce_block, store_produced_block: what fails is left out of the block and
\* stays in the pool.
produce_block(author) ==
    LET selected == select_transactions_with_state(pool, max_transactions_per_block, ledger)
        block == Executed(selected)
    IN  /\ ledger' = apply_block_rewards(block.ledger, author, block.fees)
        /\ pool' = remove_included(pool, [i \in DOMAIN block.txs |-> Signed(block.txs[i])])
        /\ chain_height' = chain_height + 1
        /\ included' = included \o block.txs
        /\ UNCHANGED gossiped

\* import_block: the first transaction that fails refuses the block, and a root
\* that differs after the rewards does.
import_block(author, txs, root_matches) ==
    LET ok(n) == Len(Executed(SubSeq(txs, 1, n)).txs) = n
        first_failure == Min({n \in 1..Len(txs) : ~ok(n)})
        refused == Executed(SubSeq(txs, 1, first_failure))
        block == Executed(txs)
    IN  /\ IF ~ok(Len(txs))
           THEN /\ ledger' = [refused.ledger EXCEPT !.irregular = @ \/ refused.txs # << >>]
                /\ UNCHANGED <<pool, chain_height, included>>
           ELSE /\ ledger' = apply_block_rewards(block.ledger, author, block.fees)
                /\ IF root_matches
                   THEN /\ pool' = remove_included(pool,
                                       [i \in DOMAIN txs |-> decode(Signed(txs[i]))])
                        /\ chain_height' = chain_height + 1
                        /\ included' = included \o txs
                   ELSE UNCHANGED <<pool, chain_height, included>>
        /\ UNCHANGED gossiped

\* The bodies of the blocks that peers offer.
Bodies == UNION {[1..n -> Transactions] : n \in 0..max_transactions_per_block}

MayExecute == ledger.minted < MaxBlocks * BlockReward

Next ==
    \/ \E tx \in Transactions :
          \/ Len(pool.heap) < MaxPushes /\ submit_transaction(tx)
          \/ Cardinality(gossiped) < MaxGossip /\ TransactionReceived(tx)
    \/ MayExecute /\ \E author \in Author : produce_block(author)
    \/ MayExecute /\ \E author \in Author, txs \in Bodies, root_matches \in BOOLEAN :
          import_block(author, txs, root_matches)

Spec == Init /\ [][Next]_vars

-----------------------------------------------------------------------------
(* Properties.                                                             *)

\* Accounts, requests and the pool stay within their types.
TypeOK ==
    /\ DOMAIN ledger.accounts \subseteq Account \cup {Treasury}
    /\ \A a \in DOMAIN ledger.accounts :
           ledger.accounts[a] \in [nonce : Nat, free : Nat, reserved : Nat]
    /\ pool.transactions \subseteq Transactions
    /\ gossiped \subseteq Transactions
    /\ \A i \in DOMAIN included : included[i] \in Transactions

\* execute, apply_block_rewards: balances, reserves and unbonding requests add up
\* to what the genesis gave out and the blocks minted, less what was burned, in
\* every behaviour without the three cases that irregular records (a transfer to
\* oneself, a registration without its full fee, an import refused after it
\* executed transactions).  In those the code does not conserve the supply.
SupplyConserved ==
    ~ledger.irregular =>
        Supply(ledger) = Cardinality(Account) * InitialBalance + ledger.minted - ledger.burned

\* The nonce check of execute, with submissions, selections and blocks of others
\* in any order: no transaction is in two stored blocks, or in one twice.
IncludedOnce == IsInjective(included)

\* withdraw_matured_unbonding: what has not reached its release block when a block
\* is executed still unbonds after it.
UnbondingWaits ==
    [][\A a \in Account :
          LET waiting(l) == SumAmounts(SelectSeq(l.unbonding[a],
                                LAMBDA r : ~matured(r, chain_height + 1)))
          IN  waiting(ledger') >= waiting(ledger)]_vars

\* insert_transaction, remove_internal: the pool's indexes agree.  A transaction is
\* in the pool iff the queue of its sender has it at its nonce, and then the heap
\* has an entry for it.
IndexesAgree ==
    /\ pool.transactions = UNION {Range(pool.queues[a]) : a \in Account}
    /\ \A tx \in pool.transactions :
          /\ pool.queues[tx.sender][tx.nonce] = tx
          /\ tx \in Range(pool.heap)

\* add: replacing and evicting keep the pool within its two limits.
PoolWithinLimits ==
    /\ Cardinality(pool.transactions) <= max_size
    /\ \A a \in Account : Cardinality(DOMAIN pool.queues[a]) <= max_per_account

\* "the producer MUST use state-aware nonce tracking": unless the block is full, the
\* next transaction of every account is selected if the pool has it, also when
\* entries of later nonces or removed transactions are popped first.
NextNonceSelected ==
    LET selected == select_transactions_with_state(pool, max_transactions_per_block, ledger)
    IN  Len(selected) < max_transactions_per_block =>
            \A a \in Account :
                LET nonce == get_account(ledger, a).nonce
                IN  nonce \in DOMAIN pool.queues[a] =>
                        pool.queues[a][nonce] \in Range(selected)

-----------------------------------------------------------------------------
(* What the documents say and the code does not do.                        *)

\* "Block and transaction propagation": a transaction that gossip brings to a pool
\* with room for it is in the pool.
GossipReachesPool ==
    [][\A tx \in gossiped' \ gossiped :
          (pool.transactions = {} /\ Fee(tx) >= min_fee) => tx \in pool'.transactions]_vars
=============================================================================
