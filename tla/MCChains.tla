------------------------------ MODULE MCChains ------------------------------
(* The contracts a chain is staked on, governed and registered by, one of  *)
(* them in a behaviour.                                                    *)
EXTENDS Governance, Sidechains, Staking

CONSTANTS a1, a2

VARIABLE contract

MCPowers == (a1 :> {0, 1}) @@ (a2 :> {0, 2})

Init ==
    /\ contract \in {"governance", "sidechains", "staking"}
    /\ current_block = 0
    /\ GovernanceInit
    /\ SidechainsInit
    /\ StakingInit

Next ==
    /\ UNCHANGED contract
    /\ \/ /\ contract = "governance" /\ GovernanceStep
          /\ UNCHANGED <<registry, staking, current_block>>
       \/ /\ contract = "sidechains" /\ SidechainsStep
          /\ UNCHANGED <<gov, staking, current_block>>
       \/ /\ contract = "staking" /\ StakingStep
          /\ UNCHANGED <<gov, registry, current_block>>
       \/ Advance /\ UNCHANGED <<gov, registry, staking>>

Spec == Init /\ [][Next]_<<contract, gov, registry, staking, current_block>>

\* The three contracts keep their types and their indexes agree with what they
\* index (proposals_by_chain, total_voting_power, member_chains, the role registry).
TypeOK == GovernanceTypeOK /\ SidechainsTypeOK /\ StakingTypeOK


\* What must wait waits, in whatever parts and order it is asked for: the purge of a chain
\* for its warning and withdrawal window, stake for its unbonding period
\* (advance_purge_state, withdraw_unbonded).
PeriodsPass == PurgedAfterWithdrawalWindow /\ WithdrawalWaits

-----------------------------------------------------------------------------
(* Bounds.                                                                 *)

\* Votes are cast on one of the proposals.
OneVote ==
    Cardinality({id \in DOMAIN gov.proposals : gov.proposals[id].voters # {}}) <= 1

\* The kinds of events a chain has seen that lead to a purge or belong to one.
Events(s) ==
    {e \in {"failure", "slash", "root", "divergence", "snapshot", "withdrawal"} :
        \/ e = "failure" /\ s.governance_failures > 0
        \/ e = "slash" /\ s.slashed_validators_count > 0
        \/ e = "root" /\ s.has_verified_root
        \/ e = "divergence" /\ s.diverged
        \/ e = "snapshot" /\ s.has_snapshot_root
        \/ e = "withdrawal" /\ s.withdrawn_accounts # {}}

\* One chain at a time is on its way to a purge, for one reason; a third chain is
\* there only while none is.  One account takes part.
OneTouched ==
    LET touched == {c \in DOMAIN registry.sidechains :
                       Sidechain(c).status # "Active" \/ Events(Sidechain(c)) # {}}
    IN  /\ Cardinality(touched) <= 1
        /\ \A c \in touched : Cardinality(Events(Sidechain(c))) <= 1
        /\ \A c \in DOMAIN registry.sidechains :
              {Sidechain(c).owner} \cup Sidechain(c).validators
                  \cup Sidechain(c).withdrawn_accounts \subseteq {a1}
        /\ \A h \in DOMAIN registry.hostchains :
              registry.hostchains[h].validator_pool \subseteq {a1}
        /\ registry.next_chain_id > 3 => touched = {} /\ current_block = 0
=============================================================================
