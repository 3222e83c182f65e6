-------------------------------- MODULE Fork --------------------------------
(***************************************************************************)
(* ForkContract (kratos-core/src/contracts/fork.rs, types in               *)
(* types/fork.rs): proposals of a fork of the protocol gather support, are *)
(* declared, prepared with a snapshot and the sidechains' alignments, and  *)
(* executed; ossification ends parameter changes.  A fork's identifier is  *)
(* its name and block, as the hash is.  The ossification is a variable of  *)
(* its own, with the voting power it shares with the forks.                *)
(***************************************************************************)
EXTENDS ContractBase

CONSTANTS
    Sidechain, ForkName,
    ForkTypes,                          \* the types proposed
    LONG_PREPARATION, MEDIUM_PREPARATION, SHORT_PREPARATION,  \* 60, 45 and 30 days
    DAY,                                \* 14_400 blocks
    FORK_PROPOSAL_DEPOSIT, SIDECHAIN_ALIGNMENT_DEADLINE, MAX_CONCURRENT_FORKS, FORK_COOLDOWN,
    FORK_VALIDATOR_THRESHOLD_PERCENT,   \* 33
    FORK_STAKE_THRESHOLD_PERCENT,       \* 40
    FORK_SIDECHAIN_THRESHOLD,           \* 3
    OSSIFICATION_APPROVAL_THRESHOLD,    \* 90
    OSSIFICATION_BLOCKS,                \* ten years of blocks
    ForkPowers,                         \* the voting powers given, 0 included
    Stakes                              \* amounts of stake and deposits

VARIABLES fork, ossification, fork_power

ForkType == {"Technical", "Constitutional", "Governance", "Social", "Survival"}

ForkStatus == {"Proposed", "Declared", "Ready", "Executed", "Cancelled", "Expired"}

ForkAlignment == {"FollowA", "FollowB", "Independent", "Undecided"}

min_preparation_period(type) ==
    CASE type \in {"Constitutional", "Social"} -> LONG_PREPARATION
      [] type = "Governance" -> MEDIUM_PREPARATION
      [] type \in {"Technical", "Survival"} -> SHORT_PREPARATION

ForkInit ==
    /\ fork_power = [a \in Account |-> 0]
    /\ fork = [proposals |-> <<>>, executed_forks |-> <<>>, snapshots |-> {},
               continuity |-> <<>>, alignments |-> <<>>, total_stake |-> 0,
               last_fork_executed |-> NoBlock]
    /\ ossification = [last_parameter_change |-> 0, proposed_at |-> NoBlock,
                       votes |-> <<>>, approval_power |-> 0, rejection_power |-> 0,
                       activated_at |-> NoBlock]

Validators == {a \in Account : fork_power[a] # 0}

set_fork_power(validator, power) == fork_power' = [fork_power EXCEPT ![validator] = power]

set_total_stake(stake) == fork' = [fork EXCEPT !.total_stake = stake]

-----------------------------------------------------------------------------
(* Proposal and declaration.                                               *)

ByValidators(count, total) == [by |-> "Validators", count |-> count, total |-> total]

\* A declarant as ForkDeclarant::meets_threshold judges it.
meets_threshold(d) ==
    CASE d.by = "Validators" -> d.count >= Max({(d.total * 33) \div 100, 1})
      [] d.by = "Stake" -> d.percent >= 40
      [] d.by = "Sidechains" -> Cardinality(d.chains) >= 3

NewFork(type, proposer) ==
    [fork_type |-> type, declared_by |-> ByValidators(1, Cardinality(Validators)),
     declared_at |-> current_block,
     preparation_ends |-> current_block + min_preparation_period(type),
     fork_height |-> current_block + min_preparation_period(type) + DAY,
     supporting_validators |-> {proposer}, supporting_stake |-> 0,
     supporting_sidechains |-> {}, status |-> "Proposed"]

IsActive(f) == f.status \in {"Proposed", "Declared", "Ready"}

propose_fork(proposer, name, type, deposit) ==
    LET id == <<name, current_block>>
    IN  /\ deposit >= FORK_PROPOSAL_DEPOSIT
        /\ Cardinality({i \in DOMAIN fork.proposals : IsActive(fork.proposals[i])})
               < MAX_CONCURRENT_FORKS
        /\ fork.last_fork_executed # NoBlock =>
               current_block >= fork.last_fork_executed + FORK_COOLDOWN
        /\ id \notin DOMAIN fork.proposals
        /\ fork' = [fork EXCEPT !.proposals = (id :> NewFork(type, proposer)) @@ @]


Declared(f, declarant) ==
    LET ends == current_block + min_preparation_period(f.fork_type)
    IN  [f EXCEPT !.status = "Declared", !.declared_by = declarant,
                  !.preparation_ends = ends, !.fork_height = ends + DAY]

\* The stake's share is cut to a u8.
check_declaration_threshold(f) ==
    LET count == Cardinality(f.supporting_validators)
        total == Cardinality(Validators)
        validator_percent == IF total = 0 THEN 0 ELSE (count * 100) \div total
        stake_percent == IF fork.total_stake = 0 THEN 0
                         ELSE ((f.supporting_stake * 100) \div fork.total_stake) % 256
    IN  IF validator_percent >= FORK_VALIDATOR_THRESHOLD_PERCENT
        THEN Declared(f, ByValidators(count, total))
        ELSE IF stake_percent >= FORK_STAKE_THRESHOLD_PERCENT
        THEN Declared(f, [by |-> "Stake", percent |-> stake_percent])
        ELSE f

support_fork(id, supporter, stake) ==
    LET f == fork.proposals[id]
    IN  /\ fork_power[supporter] # 0
        /\ supporter \notin f.supporting_validators
        /\ f.status = "Proposed"
        /\ fork' = [fork EXCEPT !.proposals[id] = check_declaration_threshold(
               [f EXCEPT !.supporting_validators = @ \cup {supporter},
                         !.supporting_stake = @ + stake])]

declare_fork_from_sidechains(id, chains) ==
    LET f == fork.proposals[id]
        all == f.supporting_sidechains \cup chains
        supported == [f EXCEPT !.supporting_sidechains = all]
    IN  /\ f.status = "Proposed"
        /\ fork' = [fork EXCEPT !.proposals[id] =
               IF Cardinality(all) >= FORK_SIDECHAIN_THRESHOLD
               THEN Declared(supported, [by |-> "Sidechains", chains |-> all])
               ELSE supported]

-----------------------------------------------------------------------------
(* Preparation.                                                            *)

\* What a fork preserves; alignments made before the snapshot are not in it.
NewContinuity ==
    [fork_block |-> current_block, balances |-> <<>>, identities |-> {}, reputations |-> {},
     alignments |-> <<>>]

create_snapshot(id) ==
    /\ fork.proposals[id].status = "Declared"
    /\ id \notin fork.snapshots
    /\ fork' = [fork EXCEPT !.snapshots = @ \cup {id},
                            !.continuity = (id :> NewContinuity) @@ @]

add_balance_to_snapshot(id, account, balance) ==
    fork' = [fork EXCEPT !.continuity[id].balances = (account :> balance) @@ @]

add_identity_to_snapshot(id, identity) ==
    fork' = [fork EXCEPT !.continuity[id].identities = @ \cup {identity}]

add_reputation_to_snapshot(id, chain, identity) ==
    fork' = [fork EXCEPT !.continuity[id].reputations = @ \cup {<<chain, identity>>}]

\* The contract once the chains took the alignment.
Aligned(id, chains, alignment) ==
    [fork EXCEPT
        !.alignments = [k \in {<<id, c>> : c \in chains} |->
                           [alignment |-> alignment, decided_at |-> current_block]] @@ @,
        !.continuity = IF id \in DOMAIN @
                       THEN [@ EXCEPT ![id].alignments =
                                [c \in chains |-> alignment] @@ @] ELSE @]

set_sidechain_alignment(id, chain, alignment) ==
    /\ current_block <= SatSub(fork.proposals[id].fork_height, SIDECHAIN_ALIGNMENT_DEADLINE)
    /\ fork' = Aligned(id, {chain}, alignment)

apply_default_alignments(id, chains) ==
    fork' = Aligned(id, {c \in chains : <<id, c>> \notin DOMAIN fork.alignments}, "Independent")

-----------------------------------------------------------------------------
(* Execution.                                                              *)

mark_ready(id) ==
    /\ fork.proposals[id].status = "Declared"
    /\ current_block >= fork.proposals[id].preparation_ends
    /\ fork' = [fork EXCEPT !.proposals[id].status = "Ready"]

execute_fork(id) ==
    /\ fork.proposals[id].status = "Ready"
    /\ current_block >= fork.proposals[id].fork_height
    /\ fork' = [fork EXCEPT
           !.last_fork_executed = current_block,
           !.proposals = Without(@, {id}),
           !.executed_forks = Append(@, [fork.proposals[id] EXCEPT !.status = "Executed"])]

cancel_fork(id) == fork' = [fork EXCEPT !.proposals[id].status = "Cancelled"]

ForkStep ==
    \/ /\ \E a \in Account, p \in ForkPowers : set_fork_power(a, p)
       /\ UNCHANGED fork
    \/ /\ UNCHANGED fork_power
       /\ \/ \E s \in Stakes : set_total_stake(s)
          \/ \E a \in Account, n \in ForkName, t \in ForkTypes, d \in Stakes :
                propose_fork(a, n, t, d)
          \/ \E id \in DOMAIN fork.proposals :
                \/ \E a \in Account, s \in Stakes : support_fork(id, a, s)
                \/ \E chains \in SUBSET Sidechain : declare_fork_from_sidechains(id, chains)
                \/ create_snapshot(id)
                \/ \E c \in Sidechain, a \in ForkAlignment : set_sidechain_alignment(id, c, a)
                \/ \E chains \in SUBSET Sidechain : apply_default_alignments(id, chains)
                \/ mark_ready(id)
                \/ execute_fork(id)
                \/ cancel_fork(id)
          \/ \E id \in DOMAIN fork.continuity, a \in Account :
                \/ \E s \in Stakes : add_balance_to_snapshot(id, a, s)
                \/ add_identity_to_snapshot(id, a)
                \/ \E c \in Sidechain : add_reputation_to_snapshot(id, c, a)

-----------------------------------------------------------------------------
(* Ossification.                                                           *)

IsOssified == ossification.activated_at # NoBlock

can_trigger_ossification ==
    current_block - ossification.last_parameter_change >= OSSIFICATION_BLOCKS

propose_ossification(emergency_active) ==
    /\ ~emergency_active
    /\ ~IsOssified
    /\ can_trigger_ossification
    /\ ossification' = [ossification EXCEPT !.proposed_at = current_block]

\* The power taken back is the voter's present one; the subtraction panics if it is
\* more than what was given.
vote_ossification(voter, approve) ==
    LET power == fork_power[voter]
        before == voter \in DOMAIN ossification.votes
        Back(v) == IF before /\ ossification.votes[voter] = v THEN power ELSE 0
        o == [ossification EXCEPT
                 !.votes = (voter :> approve) @@ @,
                 !.approval_power = @ - Back(TRUE) + (IF approve THEN power ELSE 0),
                 !.rejection_power = @ - Back(FALSE) + (IF approve THEN 0 ELSE power)]
        total == MapThenSumSet(LAMBDA a : fork_power[a], Account)
    IN  /\ ossification.proposed_at # NoBlock
        /\ ~IsOssified
        /\ power # 0
        /\ ossification.approval_power >= Back(TRUE)
        /\ ossification.rejection_power >= Back(FALSE)
        /\ ossification' =
              IF ((o.approval_power * 100) \div total) % 256 >= OSSIFICATION_APPROVAL_THRESHOLD
              THEN [o EXCEPT !.activated_at = current_block] ELSE o

record_parameter_change ==
    ossification' =
        IF ossification.proposed_at # NoBlock /\ ~IsOssified
        THEN [last_parameter_change |-> current_block, proposed_at |-> NoBlock, votes |-> <<>>,
              approval_power |-> 0, rejection_power |-> 0, activated_at |-> NoBlock]
        ELSE [ossification EXCEPT !.last_parameter_change = current_block]

OssificationStep ==
    \/ /\ \E a \in Account, p \in ForkPowers : set_fork_power(a, p)
       /\ UNCHANGED ossification
    \/ /\ \/ \E active \in BOOLEAN : propose_ossification(active)
          \/ \E a \in Account, approve \in BOOLEAN : vote_ossification(a, approve)
          \/ record_parameter_change
       /\ UNCHANGED fork_power

-----------------------------------------------------------------------------
(* Properties.                                                             *)

\* The proposals keep their types, and what the snapshot of a fork says of a
\* sidechain is what the contract has recorded for it (set_sidechain_alignment,
\* apply_default_alignments), also after later changes of mind.
ForkTypeOK ==
    /\ \A id \in DOMAIN fork.proposals :
          /\ fork.proposals[id].status \in ForkStatus \ {"Executed"}
          /\ fork.proposals[id].fork_type \in ForkType
    /\ fork.snapshots = DOMAIN fork.continuity
    /\ \A id \in DOMAIN fork.continuity :
          \A c \in DOMAIN fork.continuity[id].alignments :
              /\ <<id, c>> \in DOMAIN fork.alignments
              /\ fork.continuity[id].alignments[c] = fork.alignments[<<id, c>>].alignment

\* execute_fork: a fork is executed only on a declaration that meets the threshold
\* of its kind (as ForkDeclarant::meets_threshold says, which the contract does not
\* call), and after the preparation of its type and a day, counted from the block of
\* the declaration and not from that of the proposal.
ForksPrepared ==
    [][\A id \in DOMAIN fork.proposals :
          LET f == fork.proposals[id]
          IN  /\ id \notin DOMAIN fork'.proposals =>
                    meets_threshold(f.declared_by) /\ current_block >= f.fork_height
              /\ f.status = "Proposed" /\ fork'.proposals[id].status = "Declared" =>
                    fork'.proposals[id].fork_height =
                        current_block + min_preparation_period(f.fork_type) + DAY]_fork

\* propose_ossification, vote_ossification, record_parameter_change: the protocol is
\* ossified only when nothing was changed for the whole period, which is tested when
\* it is proposed: a change while the vote runs must withdraw the proposal and the
\* votes it has.
OssifiedAfterQuietYears ==
    [][~IsOssified /\ IsOssified' =>
          /\ current_block - ossification.last_parameter_change >= OSSIFICATION_BLOCKS
          /\ ossification.proposed_at > ossification.last_parameter_change]_ossification
=============================================================================
