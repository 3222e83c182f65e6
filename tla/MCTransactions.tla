--------------------------- MODULE MCTransactions ---------------------------
(* TransactionFlow and PoolApi for two accounts: a behaviour runs the node, *)
(* or calls the pool's library.  The fees of the calls in use are in the    *)
(* order of the code's.                                                     *)
EXTENDS TransactionFlow, PoolApi

CONSTANTS a1, a2

Tx(sender, nonce, call, to, amount) ==
    [sender |-> sender, nonce |-> nonce, call |-> call, to |-> to, amount |-> amount]

MCFees ==
    [c \in TransactionCall |->
        CASE c = "Transfer" -> 10
          [] c = "WithdrawUnbonded" -> 12
          [] c \in {"Stake", "Unstake"} -> 15
          [] c = "RegisterValidator" -> 30
          [] c = "CreateSidechain" -> 40
          [] OTHER -> 20]

\* One account stakes, unbonds twice and withdraws, or registers with a stake; the
\* other transfers, to itself too, or makes a deposit.
MCTransactions ==
    {Tx(a1, 0, "Stake", a1, 20), Tx(a1, 0, "RegisterValidator", a1, 60),
     Tx(a1, 1, "Unstake", a1, 10), Tx(a1, 2, "Unstake", a1, 5),
     Tx(a1, 3, "WithdrawUnbonded", a1, 0),
     Tx(a2, 0, "Transfer", a1, 5), Tx(a2, 1, "Transfer", a2, 5),
     Tx(a2, 1, "CreateSidechain", a2, 20)}

\* Two transactions compete for a nonce, one follows them and one leaves a gap.
MCApiTransactions ==
    {Tx(a1, 0, "Stake", a1, 20), Tx(a1, 0, "RegisterValidator", a1, 60),
     Tx(a1, 1, "Unstake", a1, 10), Tx(a2, 1, "Transfer", a1, 5)}

VARIABLE library   \* whether the behaviour is one of the library

MCInit == Init /\ ApiInit /\ library \in BOOLEAN

MCNext ==
    \/ ~library /\ Next /\ UNCHANGED <<apiVars, library>>
    \/ library /\ ApiStep /\ UNCHANGED <<vars, library>>

MCSpec == MCInit /\ [][MCNext]_<<vars, apiVars, library>>

\* The indexes of the pool agree and its limits hold, for the node as for the library
\* (insert_transaction, remove_internal, try_replace, evict_lowest_fee, prune).
PoolsAreIndexed == IndexesAgree /\ PoolWithinLimits /\ StoreIsIndexed

\* The next transaction of an account is selected, and only ready ones are
\* (select_transactions_with_state, ready_transactions).
SelectionIsReady == NextNonceSelected /\ SelectedAreReady

\* Gossip, which changes no pool, comes first if it comes.
GossipFirst == gossiped # {} => chain_height = 0 /\ pool = EmptyPool /\ ledger = EmptyLedger

\* Once the balances do not add up, at most one transaction has been added.
IrregularIsShort == ledger.irregular => Len(pool.heap) <= 1
=============================================================================
