------------------------------ MODULE PoolApi ------------------------------
(* The pool's methods that its library offers beside what the node runs     *)
(* (node/mempool.rs): adding with the state and the rate limiter, expiry,   *)
(* pruning, the removal of stale transactions and of an account.  They are  *)
(* called here in any order on a pool of their own, over a state that moves *)
(* on.                                                                      *)
(*                                                                          *)
(* since and cleaned are history: when each transaction was added last, and *)
(* when cleanup_expired ran last.                                           *)
EXTENDS Mempool

CONSTANTS
    rate_limit_per_account, rate_limit_window, tx_expiration,
    max_nonce_gap, max_total_pending,
    ApiTransactions,       \* the transactions that are added
    MaxInstant, MaxAdded, MaxExecuted   \* bounds

VARIABLES
    store,        \* the pool
    added,        \* the instants at which the entries of its heap were made
    submissions,  \* rate limiter: account -> [count, start]; count 0 when there is no entry
    instant,
    books,        \* the accounts of the state
    since, cleaned

apiVars == <<store, added, submissions, instant, books, since, cleaned>>

ApiInit ==
    /\ store = EmptyPool /\ added = <<>> /\ instant = 0
    /\ submissions = [a \in Account |-> [count |-> 0, start |-> 0]]
    /\ books = EmptyLedger
    /\ since = [tx \in ApiTransactions |-> 0] /\ cleaned = 0

\* AccountRateLimiter::check, as the entry it leaves and whether it lets the account pass
check(a) ==
    LET s == submissions[a]
    IN  IF s.count = 0 \/ instant - s.start > rate_limit_window
        THEN [ok |-> TRUE, entry |-> [count |-> 1, start |-> instant]]
        ELSE IF s.count >= rate_limit_per_account THEN [ok |-> FALSE, entry |-> s]
        ELSE [ok |-> TRUE, entry |-> [s EXCEPT !.count = @ + 1]]

\* Transactions behind the first gap among the nonces of a queue
pending_count(queue) ==
    Cardinality({n \in DOMAIN queue :
        \E m \in DOMAIN queue : \E gap \in m..n : gap \notin DOMAIN queue})

\* Mutant: an old nonce ends the search.
ready_until_old(queue, expected_nonce) ==
    IF \E n \in DOMAIN queue : n < expected_nonce THEN <<>>
    ELSE LET run == {n \in DOMAIN queue : \A m \in expected_nonce..n : m \in DOMAIN queue}
         IN  [i \in 1..Cardinality(run) |-> queue[expected_nonce + i - 1]]

\* The transactions with the expected nonce and those that follow without a gap
ready_hashes(queue, expected_nonce) ==
    LET run == {n \in DOMAIN queue : n >= expected_nonce
                                     /\ \A m \in expected_nonce..n : m \in DOMAIN queue}
    IN  [i \in 1..Cardinality(run) |-> queue[expected_nonce + i - 1]]

ready_transactions(p, a, current_nonce) ==
    SelectSeq(ready_hashes(p.queues[a], current_nonce), LAMBDA tx : tx \in p.transactions)

validate_against_state(p, tx) ==
    LET account == get_account(books, tx.sender)
        queue == p.queues[tx.sender]
        pool_nonce == IF DOMAIN queue = {} THEN account.nonce
                      ELSE 1 + CHOOSE n \in DOMAIN queue : \A m \in DOMAIN queue : m <= n
        effective_expected == IF pool_nonce > account.nonce THEN pool_nonce ELSE account.nonce
        total_pending == MapThenSumSet(LAMBDA a : pending_count(p.queues[a]), Account)
        value == IF tx.call \in {"Transfer", "Stake", "CreateSidechain", "RegisterValidator"}
                 THEN tx.amount ELSE 0
    IN  /\ tx.nonce >= account.nonce
        /\ tx.nonce <= effective_expected + max_nonce_gap
        /\ ~(total_pending >= max_total_pending /\ tx.nonce > effective_expected)
        /\ account.free >= Fee(tx) + value

\* add_with_validation.  An account at its limit replaces without a look at the state.
add_with_validation(tx, with_state) ==
    LET passed == check(tx.sender)
        queue == store.queues[tx.sender]
        full == Cardinality(DOMAIN queue) >= max_per_account
        outcomes == IF ~passed.ok THEN {}
                    ELSE IF with_state /\ ~full /\ ~validate_against_state(store, tx) THEN {}
                    ELSE add(store, Signed(tx))
    IN  /\ tx \notin store.transactions /\ Fee(tx) >= min_fee
        /\ submissions' = [submissions EXCEPT ![tx.sender] = passed.entry]
        /\ \/ outcomes = {} /\ UNCHANGED <<store, added, since>>
           \/ /\ store' \in outcomes
              /\ Len(added) < MaxAdded
              /\ added' = Append(added, instant)
              /\ since' = [since EXCEPT ![tx] = instant]
        /\ UNCHANGED <<instant, books, cleaned>>

RemoveAll(p, txs) == FoldSet(LAMBDA tx, q : remove_internal(q, tx), p, txs)

remove_stale(a, current_nonce) ==
    /\ store' = RemoveAll(store, {store.queues[a][n] : n \in {n \in DOMAIN store.queues[a] :
                                                               n < current_nonce}})
    /\ UNCHANGED <<added, submissions, instant, books, since, cleaned>>

\* The elements of a sequence at some of its places
Keep(s, places) ==
    LET order == SetToSortSeq(places, LAMBDA i, j : i < j)
    IN  [k \in DOMAIN order |-> s[order[k]]]

\* The entries of the heap are looked at, those of transactions added again included.
Expired == {store.heap[i] : i \in {i \in DOMAIN added : instant - added[i] > tx_expiration}}

\* AccountRateLimiter::cleanup
KeptSubmissions ==
    [a \in Account |-> IF instant - submissions[a].start <= rate_limit_window THEN submissions[a]
                       ELSE [count |-> 0, start |-> 0]]

cleanup_expired ==
    /\ store' = RemoveAll(store, Expired)
    /\ submissions' = KeptSubmissions
    /\ cleaned' = instant
    /\ UNCHANGED <<added, instant, books, since>>

\* cleanup_expired, and the heap without the entries of what is gone
prune ==
    /\ LET rest == RemoveAll(store, Expired)
           left == {i \in DOMAIN added : store.heap[i] \in rest.transactions}
       IN  /\ store' = [rest EXCEPT !.heap = Keep(store.heap, left)]
           /\ added' = Keep(added, left)
    /\ submissions' = KeptSubmissions
    /\ cleaned' = instant
    /\ UNCHANGED <<instant, books, since>>

remove_account_transactions(a) ==
    /\ DOMAIN store.queues[a] # {}
    /\ store' = RemoveAll(store, {store.queues[a][n] : n \in DOMAIN store.queues[a]})
    /\ UNCHANGED <<added, submissions, instant, books, since, cleaned>>

\* The state moves on: a transaction of the account was executed.
executed(a) ==
    /\ books.accounts[a].nonce < MaxExecuted
    /\ books' = [books EXCEPT !.accounts[a].nonce = @ + 1]
    /\ UNCHANGED <<store, added, submissions, instant, since, cleaned>>

instants_pass ==
    /\ instant < MaxInstant
    /\ instant' = instant + 1
    /\ UNCHANGED <<store, added, submissions, books, since, cleaned>>

ApiStep ==
    \/ \E tx \in ApiTransactions, with_state \in BOOLEAN : add_with_validation(tx, with_state)
    \/ \E a \in Account : remove_stale(a, get_account(books, a).nonce)
                          \/ remove_account_transactions(a) \/ executed(a)
    \/ cleanup_expired \/ prune \/ instants_pass

-----------------------------------------------------------------------------
\* Whatever is called, the account queues are the transactions by sender and nonce, and every
\* transaction has an entry in the heap, so that it can be selected and expires
\* (insert_transaction, remove_internal, prune); after cleanup_expired nothing is older than
\* the limit.
StoreIsIndexed ==
    /\ \A a \in Account : \A n \in DOMAIN store.queues[a] :
          LET tx == store.queues[a][n]
          IN  tx \in store.transactions /\ tx.sender = a /\ tx.nonce = n
    /\ \A tx \in store.transactions :
          /\ tx.nonce \in DOMAIN store.queues[tx.sender]
          /\ store.queues[tx.sender][tx.nonce] = tx
          /\ \E i \in DOMAIN store.heap : store.heap[i] = tx
          /\ cleaned = instant => instant - since[tx] <= tx_expiration
    /\ Len(added) = Len(store.heap)

\* What select_transactions_with_state selects of an account is a beginning of what
\* ready_transactions calls ready, though one goes through the heap by fee and the other through
\* the account's queue by nonce.
SelectedAreReady ==
    \A a \in Account :
        IsPrefix(SelectSeq(select_transactions_with_state(store, max_size, books),
                           LAMBDA tx : tx.sender = a),
                 ready_transactions(store, a, get_account(books, a).nonce))
=============================================================================
