---------------------------- MODULE ValidatorSet ----------------------------
(***************************************************************************)
(* The validator set (kratos-core/src/consensus/validator.rs): a record    *)
(* and its methods as operators on it.  The node holds one set, which      *)
(* grows by the votes of early validators (module EarlyValidators); the    *)
(* staking contract holds another (module Staking).                        *)
(*                                                                         *)
(* A method that can fail is a guard, the conjunction of its early         *)
(* returns, and an effect.  validators and early_candidates are maps: a    *)
(* function whose domain is the set of keys.                               *)
(***************************************************************************)
EXTENDS Naturals, FiniteSetsExt

CONSTANTS
    MIN_VALIDATOR_STAKE,
    MAX_EARLY_VALIDATORS,
    BOOTSTRAP_ERA_BLOCKS,
    CANDIDACY_EXPIRATION

ASSUME LimitsAssumption ==
    /\ MIN_VALIDATOR_STAKE \in Nat \ {0}
    /\ MAX_EARLY_VALIDATORS \in Nat
    /\ BOOTSTRAP_ERA_BLOCKS \in Nat
    /\ CANDIDACY_EXPIRATION \in Nat

Put(map, key, value) ==
    [k \in DOMAIN map \cup {key} |-> IF k = key THEN value ELSE map[k]]

EmptyMap == [k \in {} |-> 0]

-----------------------------------------------------------------------------
(* ValidatorInfo.  The counters of produced and missed blocks are written  *)
(* by nothing the node runs and are left out.                              *)

ValidatorStatus == {"Active", "Slashed"}

ValidatorInfo ==
    [stake : Nat, status : ValidatorStatus, reputation : 0..100,
     is_bootstrap_validator : BOOLEAN]

NewValidator(stake) ==
    [stake |-> stake, status |-> "Active", reputation |-> 100,
     is_bootstrap_validator |-> FALSE]

new_bootstrap ==
    [stake |-> 0, status |-> "Active", reputation |-> 100,
     is_bootstrap_validator |-> TRUE]

can_participate(v) ==
    /\ v.status = "Active"
    /\ v.stake >= MIN_VALIDATOR_STAKE \/ v.is_bootstrap_validator
    /\ v.reputation > 0

saturating_sub(a, b) == IF b <= a THEN a - b ELSE 0

\* slash: the validator left, and slashed_amount the stake it took.
slashed_amount(v, amount) == Min({amount, v.stake})

slash(v, amount) ==
    LET stake == v.stake - slashed_amount(v, amount)
    IN  [v EXCEPT !.stake = stake,
                  !.reputation = saturating_sub(@, 20),
                  !.status = IF stake < MIN_VALIDATOR_STAKE THEN "Slashed" ELSE @]

-----------------------------------------------------------------------------
(* The set.  registry is the validators list of its NetworkRoleRegistry.   *)

EmptySet ==
    [validators |-> EmptyMap, total_stake |-> 0, registry |-> {},
     early_candidates |-> EmptyMap]

is_active(s, id) == id \in DOMAIN s.validators /\ can_participate(s.validators[id])

active_validators(s) == {id \in DOMAIN s.validators : is_active(s, id)}

active_count(s) == Cardinality(active_validators(s))

\* add_validator: a stake too small for a validator that is not a bootstrap
\* one, or a role already registered, is refused.
CanAdd(s, id, v) ==
    /\ v.stake >= MIN_VALIDATOR_STAKE \/ v.is_bootstrap_validator
    /\ id \notin s.registry

add_validator(s, id, v) ==
    [s EXCEPT !.registry = @ \cup {id},
              !.total_stake = @ + v.stake,
              !.validators = Put(@, id, v)]

remove_validator(s, id) ==
    [s EXCEPT !.validators = [k \in DOMAIN @ \ {id} |-> @[k]],
              !.registry = @ \ {id},
              !.total_stake = saturating_sub(@, s.validators[id].stake)]

\* ensure_bootstrap_validator: an unknown account is added, one that cannot
\* participate is revived.
ensure_bootstrap_validator(s, id) ==
    IF id \notin DOMAIN s.validators
    THEN [s EXCEPT !.registry = @ \cup {id}, !.validators = Put(@, id, new_bootstrap)]
    ELSE IF can_participate(s.validators[id]) THEN s
    ELSE [s EXCEPT !.validators[id].is_bootstrap_validator = TRUE,
                   !.validators[id].status = "Active",
                   !.validators[id].reputation = 100]

-----------------------------------------------------------------------------
(* Early validators: candidacies and the votes on them.                    *)

CandidacyStatus == {"Pending", "Approved", "Rejected", "Expired"}

is_bootstrap_era(block) == block < BOOTSTRAP_ERA_BLOCKS

votes_required_for_new_validator(s) ==
    LET count == active_count(s)
    IN  CASE count <= 2 -> 1
          [] count \in 3..5 -> 3
          [] count \in 6..10 -> 4
          [] OTHER -> 5

\* Mutant: the age of a candidacy is never tested.
never_expires(c, block) == FALSE

is_expired(c, block) == block > c.created_at + CANDIDACY_EXPIRATION

has_quorum(c) == Cardinality(c.voters) >= c.votes_required

CanPropose(s, candidate, proposer, block) ==
    /\ is_bootstrap_era(block)
    /\ active_count(s) < MAX_EARLY_VALIDATORS
    /\ is_active(s, proposer)
    /\ candidate \notin DOMAIN s.validators
    /\ candidate \notin DOMAIN s.early_candidates

propose_early_validator(s, candidate, proposer, block) ==
    [s EXCEPT !.early_candidates = Put(@, candidate,
        [voters |-> {proposer},
         votes_required |-> votes_required_for_new_validator(s),
         created_at |-> block, status |-> "Pending"])]

\* vote_early_validator up to its expiry test, which writes before it refuses.
MayVote(s, candidate, voter, block) ==
    /\ is_bootstrap_era(block)
    /\ is_active(s, voter)
    /\ candidate \in DOMAIN s.early_candidates

Expire(s, candidate) == [s EXCEPT !.early_candidates[candidate].status = "Expired"]

CanVote(s, candidate, voter, block) ==
    LET c == s.early_candidates[candidate]
    IN  ~is_expired(c, block) /\ c.status = "Pending" /\ voter \notin c.voters

WithVote(s, candidate, voter) ==
    [s EXCEPT !.early_candidates[candidate].voters = @ \cup {voter}]

CanApprove(s, candidate) ==
    LET c == s.early_candidates[candidate]
    IN  has_quorum(c) /\ c.status = "Pending" /\ CanAdd(s, candidate, new_bootstrap)

approve_early_validator(s, candidate) ==
    [add_validator(s, candidate, new_bootstrap)
        EXCEPT !.early_candidates[candidate].status = "Approved"]
=============================================================================
