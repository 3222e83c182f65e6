--------------------------- MODULE MetaGovernance ---------------------------
(***************************************************************************)
(* MetaGovernanceContract (kratos-core/src/contracts/meta_governance.rs)   *)
(* with the protocol parameters it changes (types/protocol.rs): upgrades   *)
(* are proposed, signalled by chains, voted and executed.  The parameters  *)
(* are a function from their names; rationale, impact and changelog are    *)
(* left out, except whether the impact analysis is complete.               *)
(***************************************************************************)
EXTENDS ContractBase, SequencesExt

CONSTANTS
    HostChain,
    ParameterMin, ParameterMax,       \* the constitutional bounds, by name
    ParameterDefault,                 \* the parameters at genesis, by name
    FEE_VALIDATOR_RATE,               \* 50; no change of it can be proposed
    PROTOCOL_UPGRADE_THRESHOLD,       \* 75
    BREAKING_THRESHOLD,               \* 80
    CHAIN_ADOPTION_THRESHOLD,         \* 66
    PROTOCOL_UPGRADE_TIMELOCK, SIGNALING_PERIOD, MAX_BATCH_SIZE,
    Changes,                          \* the lists of changes proposed
    Versions,                         \* the versions proposed, as numbers in their order
    MetaPowers, ValidatorCounts, Deposits,
    MaxUpgrades                       \* bound on the proposals

VARIABLE meta

ParameterName ==
    {"InflationRate", "FeeBurnRate", "TargetValidators", "StandardTimelock", "ExitTimelock",
     "VotingPeriod", "MinQuorum", "SupermajorityThreshold", "ProposalDeposit", "VcDecayRate"}

UpgradeProposalType == {"ParameterChange", "VersionUpgrade", "EmergencyChange"}

UpgradeStatus ==
    {"Signaling", "Voting", "Approved", "ExecutionReady", "Executed", "Rejected",
     "Cancelled", "ConstitutionallyRejected"}

MetaInit ==
    meta = [parameters |-> ParameterDefault, version |-> 0, active_since |-> 0,
            parameter_history |-> <<>>, proposals |-> <<>>, executed_proposals |-> <<>>,
            registered_chains |-> <<>>, voting_power |-> [a \in Account |-> 0],
            total_voting_power |-> 0]

-----------------------------------------------------------------------------
(* Parameters.                                                             *)

is_valid(name, v) == ParameterMin[name] <= v /\ v <= ParameterMax[name]

\* A change is a pair of a name and a value.
is_constitutional(c, params) ==
    /\ is_valid(c[1], c[2])
    /\ c[1] = "ExitTimelock" => c[2] >= params["StandardTimelock"]

validate(params) ==
    /\ params["ExitTimelock"] >= params["StandardTimelock"]
    /\ params["FeeBurnRate"] + FEE_VALIDATOR_RATE <= 100

\* The value is set before the parameters are validated, and stays if they are not valid.
apply(c, params) ==
    LET set == IF is_valid(c[1], c[2]) THEN [params EXCEPT ![c[1]] = c[2]] ELSE params
    IN  [params |-> set, ok |-> is_valid(c[1], c[2]) /\ validate(set)]

\* The changes one after another up to the first that fails.
ApplyAll(changes, params) ==
    FoldLeft(LAMBDA acc, c : IF acc.ok THEN apply(c, acc.params) ELSE acc,
             [params |-> params, ok |-> TRUE], changes)

-----------------------------------------------------------------------------
(* One proposal.                                                           *)

requires_signaling(type) == type = "VersionUpgrade"

upgrade_threshold(p) == IF p.breaking THEN BREAKING_THRESHOLD ELSE PROTOCOL_UPGRADE_THRESHOLD

NewUpgrade(type, what, breaking) ==
    [type |-> type, what |-> what, breaking |-> breaking,
     status |-> IF requires_signaling(type) THEN "Signaling" ELSE "Voting",
     created_at |-> current_block,
     voting_started |-> IF requires_signaling(type) THEN NoBlock ELSE current_block,
     voting_ended |-> NoBlock, yes_votes |-> 0, no_votes |-> 0, voters |-> {},
     chain_signals |-> <<>>]

is_upgrade_open(p) ==
    /\ p.status = "Voting"
    /\ current_block < p.voting_started + meta.parameters["VotingPeriod"]

upgrade_approval(p) ==
    IF p.yes_votes + p.no_votes = 0 THEN 0
    ELSE (p.yes_votes * 100) \div (p.yes_votes + p.no_votes)

upgrade_passed(p) == upgrade_approval(p) >= upgrade_threshold(p)

timelock_elapsed(p) ==
    p.voting_ended # NoBlock /\ current_block >= p.voting_ended + PROTOCOL_UPGRADE_TIMELOCK

-----------------------------------------------------------------------------
(* Operations.                                                             *)

set_meta_power(account, power) ==
    meta' = [meta EXCEPT !.total_voting_power = @ - meta.voting_power[account] + power,
                         !.voting_power[account] = power]

register_chain(chain, validator_count) ==
    meta' = [meta EXCEPT !.registered_chains = (chain :> validator_count) @@ @]

\* An identifier is what is hashed for it: a second proposal of the account in the
\* block, with the same deposit, takes the place of the first.
Insert(proposer, deposit, p) ==
    LET id == [proposer |-> proposer, block |-> current_block, deposit |-> deposit]
    IN  /\ Cardinality(DOMAIN meta.proposals \cup {id}) <= MaxUpgrades
        /\ meta' = [meta EXCEPT !.proposals = (id :> p) @@ @]

propose_parameter_change(proposer, changes, deposit) ==
    /\ meta.voting_power[proposer] # 0
    /\ Len(changes) <= MAX_BATCH_SIZE
    /\ \A i \in 1..Len(changes) : is_constitutional(changes[i], meta.parameters)
    /\ Insert(proposer, deposit, NewUpgrade("ParameterChange", changes, FALSE))

propose_version_upgrade(proposer, version, breaking, complete, deposit) ==
    /\ meta.voting_power[proposer] # 0
    /\ version > meta.version
    /\ complete
    /\ Insert(proposer, deposit, NewUpgrade("VersionUpgrade", version, breaking))

submit_chain_signal(id, chain, supports) ==
    /\ meta.proposals[id].status = "Signaling"
    /\ chain \in DOMAIN meta.registered_chains
    /\ meta' = [meta EXCEPT !.proposals[id].chain_signals =
           (chain :> [supports |-> supports,
                      validator_count |-> meta.registered_chains[chain]]) @@ @]

\* The share is cut to a u8.
adoption(p) ==
    LET chains == meta.registered_chains
        total == MapThenSumSet(LAMBDA c : chains[c], DOMAIN chains)
        supporting == {c \in DOMAIN p.chain_signals : p.chain_signals[c].supports}
    IN  IF total = 0 THEN 0
        ELSE ((MapThenSumSet(LAMBDA c : p.chain_signals[c].validator_count, supporting) * 100)
                  \div total) % 256

advance_to_voting(id) ==
    LET p == meta.proposals[id]
    IN  /\ p.status = "Signaling"
        /\ current_block >= p.created_at + SIGNALING_PERIOD
        /\ meta' = IF adoption(p) < CHAIN_ADOPTION_THRESHOLD
                   THEN [meta EXCEPT !.proposals[id].status = "Rejected"]
                   ELSE [meta EXCEPT !.proposals[id].status = "Voting",
                                     !.proposals[id].voting_started = current_block]

vote_upgrade(id, voter, support) ==
    LET power == meta.voting_power[voter]
    IN  /\ power # 0
        /\ is_upgrade_open(meta.proposals[id])
        /\ voter \notin meta.proposals[id].voters
        /\ meta' = [meta EXCEPT
               !.proposals[id].voters = @ \cup {voter},
               !.proposals[id].yes_votes = IF support THEN @ + power ELSE @,
               !.proposals[id].no_votes = IF support THEN @ ELSE @ + power]

finalize_upgrade(id) ==
    LET p == meta.proposals[id]
    IN  /\ p.status = "Voting"
        /\ current_block >= p.voting_started + meta.parameters["VotingPeriod"]
        /\ meta' = [meta EXCEPT
               !.proposals[id].voting_ended = current_block,
               !.proposals[id].status = IF upgrade_passed(p) THEN "Approved" ELSE "Rejected"]

\* A change that fails leaves the history entry and the changes before it, its own
\* included when only the validation refused it, and the proposal approved.
execute_upgrade(id) ==
    LET p == meta.proposals[id]
        recorded == [meta EXCEPT !.parameter_history =
                        Append(@, <<current_block, meta.parameters>>)]
        applied == IF p.type = "VersionUpgrade" THEN [params |-> meta.parameters, ok |-> TRUE]
                   ELSE ApplyAll(p.what, meta.parameters)
    IN  /\ p.status = "Approved"
        /\ timelock_elapsed(p)
        /\ meta' = IF ~applied.ok THEN [recorded EXCEPT !.parameters = applied.params]
                   ELSE [recorded EXCEPT
                            !.parameters = applied.params,
                            !.version = IF p.type = "VersionUpgrade" THEN p.what ELSE @,
                            !.active_since = current_block,
                            !.proposals[id].status = "Executed",
                            !.executed_proposals = Append(@, id)]

\* Whatever the status short of Executed, a rejected or cancelled proposal included.
cancel_upgrade(id, caller) ==
    /\ id.proposer = caller
    /\ meta.proposals[id].status # "Executed"
    /\ meta' = [meta EXCEPT !.proposals[id].status = "Cancelled"]

MetaStep ==
    \/ \E a \in Account, p \in MetaPowers : set_meta_power(a, p)
    \/ \E c \in HostChain, n \in ValidatorCounts : register_chain(c, n)
    \/ \E a \in Account, d \in Deposits :
          \/ \E changes \in Changes : propose_parameter_change(a, changes, d)
          \/ \E v \in Versions, breaking, complete \in BOOLEAN :
                propose_version_upgrade(a, v, breaking, complete, d)
    \/ \E id \in DOMAIN meta.proposals :
          \/ \E c \in HostChain, supports \in BOOLEAN : submit_chain_signal(id, c, supports)
          \/ advance_to_voting(id)
          \/ \E a \in Account, support \in BOOLEAN : vote_upgrade(id, a, support)
          \/ finalize_upgrade(id)
          \/ execute_upgrade(id)
          \/ \E a \in Account : cancel_upgrade(id, a)

-----------------------------------------------------------------------------
(* Properties.                                                             *)

\* The proposals keep their types, every parameter stays within its constitutional
\* bounds, also when an execution fails half-way (BoundedValue::try_set), and the
\* total voting power is the sum of the accounts'.
MetaTypeOK ==
    /\ \A id \in DOMAIN meta.proposals :
          /\ meta.proposals[id].status \in UpgradeStatus
          /\ meta.proposals[id].type \in UpgradeProposalType
    /\ DOMAIN meta.parameters = ParameterName
    /\ \A n \in ParameterName : is_valid(n, meta.parameters[n])
    /\ meta.total_voting_power = MapThenSumSet(LAMBDA a : meta.voting_power[a], Account)

\* execute_proposal, finalize_voting, advance_to_voting: an upgrade takes effect
\* only after every stage of its kind, each started by a call of anyone: the chains'
\* signals (for a version), a vote that reached its threshold, and the whole timelock
\* after the end of the vote; and it takes effect once.
UpgradesPassTheStages ==
    /\ IsInjective(meta.executed_proposals)
    /\ \A i \in 1..Len(meta.executed_proposals) :
          LET id == meta.executed_proposals[i]
              p == meta.proposals[id]
          IN  /\ p.status = "Executed" /\ upgrade_passed(p)
              /\ current_block >= p.voting_ended + PROTOCOL_UPGRADE_TIMELOCK
              /\ p.type = "VersionUpgrade" =>
                    /\ \E c \in DOMAIN p.chain_signals : p.chain_signals[c].supports
                    /\ p.voting_started >= p.created_at + SIGNALING_PERIOD
=============================================================================
