------------------------------- MODULE Ledger -------------------------------
(***************************************************************************)
(* What a block does to the balances: TransactionExecutor and the block    *)
(* rewards (kratos-core/src/node/producer.rs) on the accounts and the      *)
(* unbonding requests of the state (storage/state.rs).  A ledger is a      *)
(* record, and the methods are operators on it.                            *)
(*                                                                         *)
(* A transaction is its own hash, and its signature is valid: one that is  *)
(* not changes nothing.  Reads and writes of the database succeed.         *)
(* Balances stay far below 2^128, and the shares of the fees are the exact *)
(* ones rounded down, which the code's are up to the error of an f64.      *)
(*                                                                         *)
(* minted, burned and irregular are not part of the code.  irregular tells *)
(* that one of the three things happened after which the balances do not   *)
(* add up: a transfer to oneself, a registration by an account that has    *)
(* the stake and not the fee, a refused import that executed transactions. *)
(***************************************************************************)
EXTENDS Integers, SequencesExt

CONSTANTS
    Account,
    Treasury,
    base_fee,          \* the fee of each call
    BlockReward,       \* what a block mints: block reward and VC bonus
    UNBONDING_PERIOD,
    InitialBalance

ASSUME LedgerAssumption ==
    /\ Treasury \notin Account
    /\ {BlockReward, UNBONDING_PERIOD, InitialBalance} \subseteq Nat

TransactionCall ==
    {"Transfer", "Stake", "Unstake", "WithdrawUnbonded", "RegisterValidator",
     "UnregisterValidator", "CreateSidechain", "ExitSidechain", "SignalFork",
     "ProposeEarlyValidator", "VoteEarlyValidator"}

ASSUME FeesAssumption == base_fee \in [TransactionCall -> Nat]

\* to and amount are arguments of the call; a call without them ignores them.
Transaction ==
    [sender : Account, nonce : Nat, call : TransactionCall, to : Account, amount : Nat]

NewAccount == [nonce |-> 0, free |-> 0, reserved |-> 0]

\* The accounts of the genesis; the treasury's exists once it is paid.
EmptyLedger ==
    [accounts |-> [a \in Account |-> [NewAccount EXCEPT !.free = InitialBalance]],
     unbonding |-> [a \in Account |-> <<>>],
     minted |-> 0, burned |-> 0, irregular |-> FALSE]

get_account(l, a) == IF a \in DOMAIN l.accounts THEN l.accounts[a] ELSE NewAccount

set_account(l, a, info) ==
    [l EXCEPT !.accounts = [k \in DOMAIN @ \cup {a} |-> IF k = a THEN info ELSE @[k]]]

Credit(l, a, amount) ==
    set_account(l, a, [get_account(l, a) EXCEPT !.free = @ + amount])

SumAmounts(requests) == FoldLeft(LAMBDA sum, r : sum + r.amount, 0, requests)

-----------------------------------------------------------------------------
(* The calls.  Each gets the ledger and the sender's account, which execute*)
(* has read and will write, and returns both, or ok = FALSE.               *)

Failed(l, account) == [ok |-> FALSE, ledger |-> l, account |-> account]

Done(l, account) == [ok |-> TRUE, ledger |-> l, account |-> account]

\* Mutant: the recipient's account is made anew.
transfer_resets_nonce(l, tx, account) ==
    IF account.free < tx.amount + base_fee["Transfer"] THEN Failed(l, account)
    ELSE Done([set_account(l, tx.to,
                   [get_account(l, tx.to) EXCEPT !.free = @ + tx.amount, !.nonce = 0])
                  EXCEPT !.irregular = @ \/ tx.to = tx.sender],
              [account EXCEPT !.free = @ - tx.amount])

\* The recipient is read from the state and written there; execute then writes
\* the sender's account over it if they are the same.
execute_transfer(l, tx, account) ==
    IF account.free < tx.amount + base_fee["Transfer"] THEN Failed(l, account)
    ELSE Done([Credit(l, tx.to, tx.amount) EXCEPT !.irregular = @ \/ tx.to = tx.sender],
              [account EXCEPT !.free = @ - tx.amount])

\* execute_stake asks for the fee of a Stake also when the call is a
\* RegisterValidator; execute_reserve for its own.
ReserveFrom(l, tx, account, fee) ==
    IF account.free < tx.amount + fee THEN Failed(l, account)
    ELSE Done([l EXCEPT !.irregular = @ \/ account.free < tx.amount + base_fee[tx.call]],
              [account EXCEPT !.free = @ - tx.amount, !.reserved = @ + tx.amount])

execute_stake(l, tx, account) == ReserveFrom(l, tx, account, base_fee["Stake"])

execute_reserve(l, tx, account) == ReserveFrom(l, tx, account, base_fee["CreateSidechain"])

execute_unstake(l, tx, account, block) ==
    IF account.reserved < tx.amount THEN Failed(l, account)
    ELSE Done([l EXCEPT !.unbonding[tx.sender] =
                  Append(@, [amount |-> tx.amount, unbonding_started |-> block,
                             release_block |-> block + UNBONDING_PERIOD])],
              [account EXCEPT !.reserved = @ - tx.amount])

matured(r, block) == block >= r.release_block

\* Mutant: every request is paid once one has matured.
withdraw_all(l, tx, account, block) ==
    LET requests == l.unbonding[tx.sender]
    IN  IF ~\E i \in DOMAIN requests : matured(requests[i], block) THEN Failed(l, account)
        ELSE Done([l EXCEPT !.unbonding[tx.sender] = <<>>],
                  [account EXCEPT !.free = @ + SumAmounts(requests)])

\* The matured requests are taken out of the state before the sum is looked at.
execute_withdraw_unbonded(l, tx, account, block) ==
    LET ready == SelectSeq(l.unbonding[tx.sender], LAMBDA r : matured(r, block))
        left == [l EXCEPT !.unbonding[tx.sender] =
                    SelectSeq(@, LAMBDA r : ~matured(r, block))]
    IN  IF SumAmounts(ready) = 0 THEN Failed(left, account)
        ELSE Done(left, [account EXCEPT !.free = @ + SumAmounts(ready)])

\* The other calls cost their fee here; what else they do is done elsewhere.
execute_call(l, tx, account, block) ==
    CASE tx.call = "Transfer" -> execute_transfer(l, tx, account)
      [] tx.call \in {"Stake", "RegisterValidator"} -> execute_stake(l, tx, account)
      [] tx.call = "Unstake" -> execute_unstake(l, tx, account, block)
      [] tx.call = "WithdrawUnbonded" -> execute_withdraw_unbonded(l, tx, account, block)
      [] tx.call = "CreateSidechain" -> execute_reserve(l, tx, account)
      [] OTHER -> Done(l, account)

ChargeFee(account, fee) ==
    [account EXCEPT !.free = IF @ >= fee THEN @ - fee ELSE 0, !.nonce = @ + 1]

\* The ledger after a transaction, whether it succeeded, and the fee it reports.
execute(l, tx, block) ==
    LET account == l.accounts[tx.sender]
        fee == base_fee[tx.call]
        result == execute_call(l, tx, account, block)
    IN  IF \/ tx.sender \notin DOMAIN l.accounts
           \/ tx.nonce # account.nonce
           \/ account.free < fee
        THEN [ledger |-> l, success |-> FALSE, fee_paid |-> 0]
        ELSE IF ~result.ok
        THEN [ledger |-> result.ledger, success |-> FALSE, fee_paid |-> 0]
        ELSE [ledger |-> set_account(result.ledger, tx.sender,
                             ChargeFee(result.account, fee)),
              success |-> TRUE, fee_paid |-> fee]

-----------------------------------------------------------------------------
(* The rewards of a block: 50% of the fees for the producer, 10% for the   *)
(* finality voters, 30% burned, and the rest for the treasury.  Neither a  *)
(* producer nor an importer names voters, so their share joins the         *)
(* treasury's.                                                             *)

\* Mutant: the treasury's share is rounded down as the others are.
distribute_rounded(fees) ==
    [producer |-> (fees * 50) \div 100, finality_voters |-> (fees * 10) \div 100,
     burn |-> (fees * 30) \div 100, treasury |-> (fees * 10) \div 100]

distribute(fees) ==
    LET producer == (fees * 50) \div 100
        finality_voters == (fees * 10) \div 100
        burn == (fees * 30) \div 100
    IN  [producer |-> producer, finality_voters |-> finality_voters, burn |-> burn,
         treasury |-> fees - producer - finality_voters - burn]

PayTreasury(l, amount) == IF amount > 0 THEN Credit(l, Treasury, amount) ELSE l

apply_block_rewards(l, author, fees) ==
    LET shares == distribute(fees)
        paid == Credit(l, author, BlockReward + shares.producer)
    IN  PayTreasury([paid EXCEPT !.minted = @ + BlockReward, !.burned = @ + shares.burn],
                    shares.treasury + shares.finality_voters)

-----------------------------------------------------------------------------
(* What a ledger holds.                                                    *)

Supply(l) ==
    MapThenSumSet(LAMBDA a : l.accounts[a].free + l.accounts[a].reserved, DOMAIN l.accounts)
    + MapThenSumSet(LAMBDA a : SumAmounts(l.unbonding[a]), Account)
=============================================================================
