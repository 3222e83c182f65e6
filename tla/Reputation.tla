----------------------------- MODULE Reputation -----------------------------
(***************************************************************************)
(* ReputationRegistry (kratos-core/src/contracts/reputation.rs, types in   *)
(* types/reputation.rs): scores by domain, stakes that raise the effective *)
(* score, imports from other chains and endorsements.  The overall score   *)
(* is recalculated by every method that touches a domain, so it is an      *)
(* operator here.  endorsements_given, events and the breakdown by domain  *)
(* of an import are only read by queries.                                  *)
(***************************************************************************)
EXTENDS ContractBase

CONSTANTS
    Member,                        \* identities
    Origin,                        \* chains reputation is imported from
    Domains,                       \* the domains the calls name
    MAX_DOMAIN_SCORE, REPUTATION_STAKE_LOCK, MIN_REPUTATION_STAKE, MAX_STAKE_MULTIPLIER,
    DOMAIN_DECAY_RATE, DECAY_INTERVAL, CROSS_CHAIN_DISCOUNT, MAX_ENDORSEMENTS_PER_DOMAIN,
    MIN_REP_TO_ENDORSE, MAX_STAKES_PER_IDENTITY,
    Points, StakeAmounts, PenaltyPercents, OriginalScores

VARIABLE reputation

ReputationDomain ==
    {"Governance", "Technical", "Community", "Arbitration", "Economic", "Validation"}

weight(domain) ==
    CASE domain = "Governance" -> 25
      [] domain \in {"Technical", "Community"} -> 20
      [] domain = "Arbitration" -> 15
      [] OTHER -> 10

decay_rate(domain) == IF domain = "Validation" THEN 1 ELSE DOMAIN_DECAY_RATE

NewReputation == [d \in ReputationDomain |-> [score |-> 0, last_activity |-> 0, endorsement_count |-> 0]]

ReputationInit ==
    reputation = [reputations |-> <<>>, stakes |-> <<>>,
                  stakes_by_identity |-> [i \in Member |-> <<>>],
                  cross_chain_imports |-> <<>>, endorsements |-> <<>>,
                  received |-> [p \in Member \X Domains |-> 0],
                  total_staked |-> 0]

recalculate_overall(i) ==
    MapThenSumSet(LAMBDA d : reputation.reputations[i][d].score * weight(d), ReputationDomain) \div 100

-----------------------------------------------------------------------------
(* Scores.                                                                 *)

initialize(i) ==
    /\ i \notin DOMAIN reputation.reputations
    /\ reputation' = [reputation EXCEPT !.reputations = (i :> NewReputation) @@ @]

add_reputation(i, domain, points) ==
    /\ i \in DOMAIN reputation.reputations
    /\ reputation' = [reputation EXCEPT !.reputations[i][domain] =
           [@ EXCEPT !.score = Min({@ + points, MAX_DOMAIN_SCORE}), !.last_activity = current_block]]

slash_domain(i, domain, percent) ==
    /\ i \in DOMAIN reputation.reputations
    /\ reputation' = [reputation EXCEPT !.reputations[i][domain].score =
           SatSub(@, (@ * percent) \div 100)]

\* Each call takes the whole inactivity again: last_activity does not move.
decayed(rep) ==
    [d \in ReputationDomain |->
        LET periods == SatSub(current_block, rep[d].last_activity) \div DECAY_INTERVAL
        IN  [rep[d] EXCEPT !.score = SatSub(@, (@ * periods * decay_rate(d)) \div 100)]]

apply_decay_all ==
    reputation' = [reputation EXCEPT !.reputations = [i \in DOMAIN @ |-> decayed(@[i])]]

-----------------------------------------------------------------------------
(* Stakes.  The identifier is what is hashed for it: a second stake of one *)
(* staker for one identity in one block replaces the first.                *)

\* 100 plus ten times the square root of the multiple of the minimum.
calculate_multiplier(amount) ==
    Min({100 + Max({b \in 0..100 : b * b * MIN_REPUTATION_STAKE <= 100 * amount}),
         MAX_STAKE_MULTIPLIER})

create_stake(staker, i, amount) ==
    LET id == <<staker, i, current_block>>
    IN  /\ Len(reputation.stakes_by_identity[i]) < MAX_STAKES_PER_IDENTITY
        /\ amount >= MIN_REPUTATION_STAKE
        /\ reputation' = [reputation EXCEPT
               !.stakes = (id :> [amount |-> amount, slashed |-> FALSE,
                                  multiplier |-> calculate_multiplier(amount),
                                  locked_until |-> current_block + REPUTATION_STAKE_LOCK]) @@ @,
               !.stakes_by_identity[i] = Append(@, id),
               !.total_staked = @ + amount]

can_withdraw(stake) == current_block >= stake.locked_until /\ ~stake.slashed

withdraw_stake(id, withdrawer) ==
    /\ withdrawer = id[1]
    /\ can_withdraw(reputation.stakes[id])
    /\ reputation' = [reputation EXCEPT
           !.stakes = Without(@, {id}),
           !.stakes_by_identity[id[2]] = SelectSeq(@, LAMBDA s : s # id),
           !.total_staked = SatSub(@, reputation.stakes[id].amount)]

slash_stake(id, percent) ==
    LET s == reputation.stakes[id]
        penalty == IF s.slashed THEN 0 ELSE (s.amount * percent) \div 100
    IN  reputation' = [reputation EXCEPT
            !.stakes[id] = [@ EXCEPT !.amount = SatSub(@, penalty), !.slashed = TRUE,
                                     !.multiplier = 100],
            !.total_staked = SatSub(@, penalty)]

get_stake_multiplier(i) ==
    Max({100} \cup {reputation.stakes[id].multiplier :
            id \in {x \in DOMAIN reputation.stakes : x[2] = i /\ ~reputation.stakes[x].slashed}})

-----------------------------------------------------------------------------
(* Imports and endorsements.                                               *)

import_reputation(i, chain, original) ==
    /\ <<i, chain>> \notin DOMAIN reputation.cross_chain_imports
    /\ reputation' = [reputation EXCEPT !.cross_chain_imports =
           (<<i, chain>> :> [imported_score |-> (original * CROSS_CHAIN_DISCOUNT) \div 100,
                             verified |-> FALSE]) @@ @]

verify_import(key) ==
    reputation' = [reputation EXCEPT !.cross_chain_imports[key].verified = TRUE]

get_effective_score(i) ==
    LET base == IF i \in DOMAIN reputation.reputations THEN recalculate_overall(i) ELSE 0
        verified == {k \in DOMAIN reputation.cross_chain_imports :
                        k[1] = i /\ reputation.cross_chain_imports[k].verified}
        imported == MapThenSumSet(LAMBDA k : reputation.cross_chain_imports[k].imported_score, verified)
    IN  ((base + imported \div 2) * get_stake_multiplier(i)) \div 100

endorsement_weight(endorser_rep) == Min({Max({endorser_rep \div 1000, 1}), 10})

\* active: the identity registry calls the endorser's identity active.
give_endorsement(endorser, from, to, domain, active) ==
    LET rep == get_effective_score(from)
        id == <<from, to, domain, current_block>>
    IN  /\ active
        /\ from # to
        /\ rep >= MIN_REP_TO_ENDORSE
        /\ reputation.received[<<to, domain>>] < MAX_ENDORSEMENTS_PER_DOMAIN
        /\ reputation' = [reputation EXCEPT
               !.endorsements = (id :> [endorser |-> endorser, active |-> TRUE]) @@ @,
               !.received[<<to, domain>>] = @ + 1,
               !.reputations =
                   IF to \in DOMAIN @ /\ @[to][domain].endorsement_count < MAX_ENDORSEMENTS_PER_DOMAIN
                   THEN [@ EXCEPT ![to][domain] = [@ EXCEPT
                            !.endorsement_count = @ + 1,
                            !.score = Min({@ + endorsement_weight(rep), MAX_DOMAIN_SCORE})]]
                   ELSE @]

\* What the endorsement added stays.
revoke_endorsement(id, revoker) ==
    /\ reputation.endorsements[id].endorser = revoker
    /\ reputation' = [reputation EXCEPT !.endorsements[id].active = FALSE]

ReputationStep ==
    \/ \E i \in Member : initialize(i)
    \/ \E i \in Member, d \in Domains :
          \/ \E p \in Points : add_reputation(i, d, p)
          \/ \E p \in PenaltyPercents : slash_domain(i, d, p)
    \/ apply_decay_all
    \/ \E i \in Member, a \in Account, n \in StakeAmounts : create_stake(a, i, n)
    \/ \E id \in DOMAIN reputation.stakes :
          \/ \E a \in Account : withdraw_stake(id, a)
          \/ \E p \in PenaltyPercents : slash_stake(id, p)
    \/ \E i \in Member, c \in Origin, n \in OriginalScores : import_reputation(i, c, n)
    \/ \E k \in DOMAIN reputation.cross_chain_imports : verify_import(k)
    \/ \E a \in Account, from, to \in Member, d \in Domains, active \in BOOLEAN :
          give_endorsement(a, from, to, d, active)
    \/ \E id \in DOMAIN reputation.endorsements, a \in Account : revoke_endorsement(id, a)

-----------------------------------------------------------------------------
(* Properties.                                                             *)

\* Scores stay within the limit of a domain, and the endorsements a record counts
\* within those received, which stay within MAX_ENDORSEMENTS_PER_DOMAIN.
ReputationTypeOK ==
    /\ \A p \in Member \X Domains :
          /\ reputation.received[p] \in 0..MAX_ENDORSEMENTS_PER_DOMAIN
          /\ p[1] \in DOMAIN reputation.reputations =>
                 LET r == reputation.reputations[p[1]][p[2]]
                 IN  /\ r.score \in 0..MAX_DOMAIN_SCORE
                     /\ r.endorsement_count <= reputation.received[p]
    /\ \A id \in DOMAIN reputation.stakes :
          reputation.stakes[id].multiplier \in 100..MAX_STAKE_MULTIPLIER

\* create_stake, withdraw_stake, slash_stake: total_staked covers the stakes that can
\* still be withdrawn or slashed, so its saturating subtractions never hide a loss.
StakedCoversStakes ==
    reputation.total_staked >=
        MapThenSumSet(LAMBDA id : reputation.stakes[id].amount, DOMAIN reputation.stakes)
=============================================================================
