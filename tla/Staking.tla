------------------------------ MODULE Staking ------------------------------
(***************************************************************************)
(* The staking registry (kratos-core/src/contracts/staking.rs): a          *)
(* validator set of its own and at most one unbonding request per account. *)
(* The slash history is only ever appended to and is left out.             *)
(*                                                                         *)
(* owed is not part of the code: what an account paid in by registering    *)
(* and by adding stake, less what it withdrew and what was slashed.        *)
(***************************************************************************)
EXTENDS ValidatorSet, ContractBase

CONSTANTS
    UNBONDING_PERIOD,
    Stakes,    \* the stakes an account registers with
    Amounts,   \* the amounts added, unbonded and slashed
    MaxOwed    \* bound on what an account has in the registry

ASSUME StakingAssumption ==
    /\ UNBONDING_PERIOD \in Nat \ {0}
    /\ Stakes \subseteq Nat
    /\ Amounts \subseteq Nat

VARIABLE staking

StakingInit ==
    staking = [validators |-> EmptySet, unbonding_requests |-> EmptyMap,
               owed |-> [id \in Account |-> 0]]

Infos == staking.validators.validators

Requests == staking.unbonding_requests

Known(id) == id \in DOMAIN Infos

StakeOf(id) == IF Known(id) THEN Infos[id].stake ELSE 0

Unbonding(id) == IF id \in DOMAIN Requests THEN Requests[id].amount ELSE 0

Request(amount, ready_at) ==
    [amount |-> amount, requested_at |-> current_block, ready_at |-> ready_at]

ReduceStake(id, amount) ==
    [staking.validators EXCEPT !.validators[id].stake = @ - amount,
                               !.total_stake = saturating_sub(@, amount)]

register_validator(id, stake) ==
    /\ stake >= MIN_VALIDATOR_STAKE
    /\ CanAdd(staking.validators, id, NewValidator(stake))
    /\ staking' = [staking EXCEPT
           !.validators = add_validator(@, id, NewValidator(stake)),
           !.owed[id] = @ + stake]

unregister_validator(id) ==
    /\ Known(id)
    /\ staking' = [staking EXCEPT !.validators = remove_validator(@, id)]

add_stake(id, amount) ==
    /\ Known(id)
    /\ staking' = [staking EXCEPT
           !.validators.validators[id].stake = @ + amount,
           !.validators.total_stake = @ + amount,
           !.owed[id] = @ + amount]

start_unbonding(id, amount) ==
    /\ id \notin DOMAIN Requests
    /\ Known(id)
    /\ StakeOf(id) >= amount
    /\ staking' = [staking EXCEPT
           !.validators = ReduceStake(id, amount),
           !.unbonding_requests =
               Put(@, id, Request(amount, current_block + UNBONDING_PERIOD))]

withdraw_unbonded(id) ==
    /\ id \in DOMAIN Requests
    /\ current_block >= Requests[id].ready_at
    /\ staking' = [staking EXCEPT
           !.unbonding_requests = Without(@, {id}),
           !.owed[id] = @ - Requests[id].amount]

\* Mutant: the total is not told of the slash.
slash_without_total(id, amount) ==
    /\ Known(id)
    /\ staking' = [staking EXCEPT
           !.validators.validators[id] = slash(@, amount),
           !.owed[id] = @ - slashed_amount(Infos[id], amount)]

\* slash_validator.
slash_registered(id, amount) ==
    /\ Known(id)
    /\ staking' = [staking EXCEPT
           !.validators.validators[id] = slash(@, amount),
           !.validators.total_stake = saturating_sub(@, slashed_amount(Infos[id], amount)),
           !.owed[id] = @ - slashed_amount(Infos[id], amount)]

StakingStep ==
    \E id \in Account :
       \/ \E stake \in Stakes :
             staking.owed[id] + stake <= MaxOwed /\ register_validator(id, stake)
       \/ unregister_validator(id)
       \/ withdraw_unbonded(id)
       \/ \E amount \in Amounts :
             \/ staking.owed[id] + amount <= MaxOwed /\ add_stake(id, amount)
             \/ start_unbonding(id, amount)
             \/ slash_registered(id, amount)

-----------------------------------------------------------------------------
(* Properties.                                                             *)

\* Validators, requests and the total stay within their types; the role
\* registry lists the validators.
StakingTypeOK ==
    /\ DOMAIN Infos \subseteq Account
    /\ \A id \in DOMAIN Infos : Infos[id] \in ValidatorInfo
    /\ staking.validators.registry = DOMAIN Infos
    /\ staking.validators.total_stake \in Nat
    /\ DOMAIN Requests \subseteq Account
    /\ \A id \in DOMAIN Requests :
           Requests[id] \in [amount : Nat, requested_at : Nat, ready_at : Nat]
    /\ staking.owed \in [Account -> Int]

\* "Update total_stake when slashing to maintain consistency": after any sequence
\* of calls total_stake is the sum of the validators' stakes.
TotalStakeIsSum == staking.validators.total_stake = MapThenSumSet(StakeOf, Account)

\* "Immediately reduce stake to prevent double-counting": an account never has
\* more in stake and in unbonding than it paid in and has neither withdrawn nor
\* lost to slashing.
NoStakeFromNothing == \A id \in Account : StakeOf(id) + Unbonding(id) <= staking.owed[id]

\* start_unbonding, withdraw_unbonded: every unit withdrawn left the stake at
\* least UNBONDING_PERIOD blocks before, also when it was asked for in parts.
WithdrawalWaits ==
    [][\A id \in DOMAIN Requests \ DOMAIN Requests' :
          current_block >= Requests[id].requested_at + UNBONDING_PERIOD]_staking

\* The stake is accounted for: the two facts above (register_validator, add_stake,
\* start_unbonding, withdraw_unbonded, slash_validator, unregister_validator).
StakeAccounted == TotalStakeIsSum /\ NoStakeFromNothing
=============================================================================
