----------------------------- MODULE Governance -----------------------------
(***************************************************************************)
(* GovernanceContract (kratos-core/src/contracts/governance.rs): proposals *)
(* of sidechains, weighted votes, timelock and execution.  Of a proposal's *)
(* type only is_exit_proposal is kept, which is all the contract looks at. *)
(***************************************************************************)
EXTENDS ContractBase, TLAPS

CONSTANTS
    Chain,
    SUPERMAJORITY_THRESHOLD,  \* 66
    STANDARD_THRESHOLD,       \* 51
    MIN_QUORUM_PERCENT,       \* 30
    EXIT_TIMELOCK, STANDARD_TIMELOCK, VOTING_PERIOD, GRACE_PERIOD,
    Powers,                   \* the voting powers each account may be given
    MaxProposals              \* bound on the proposals created

VARIABLE gov  \* the contract; voting_power is 0 for an account without a record

Vote == {"Yes", "No", "Abstain"}

ProposalStatus ==
    {"Active", "Passed", "Rejected", "ReadyToExecute", "Executed", "Cancelled", "Expired"}

None == -1   \* no block

GovernanceInit ==
    gov = [proposals |-> <<>>,
           proposals_by_chain |-> [c \in Chain |-> {}],
           next_proposal_id |-> 1,
           voting_power |-> [c \in Chain |-> [a \in Account |-> 0]],
           total_voting_power |-> [c \in Chain |-> 0],
           active_exit_proposals |-> <<>>,
           chains_with_disputes |-> {}]

-----------------------------------------------------------------------------
(* One proposal.                                                           *)

NewProposal(chain, proposer, exit) ==
    [chain_id |-> chain, proposer |-> proposer, exit |-> exit, status |-> "Active",
     created_at |-> current_block, voting_ends_at |-> current_block + VOTING_PERIOD,
     timelock_ends_at |-> None, voters |-> {}, Yes |-> 0, No |-> 0, Abstain |-> 0,
     executed_at |-> None]

required_threshold(p) ==
    IF p.exit THEN SUPERMAJORITY_THRESHOLD ELSE STANDARD_THRESHOLD

timelock_period(p) == IF p.exit THEN EXIT_TIMELOCK ELSE STANDARD_TIMELOCK

is_voting_open(p) == p.status = "Active" /\ current_block <= p.voting_ends_at

approval_percentage(p) ==
    IF p.Yes + p.No = 0 THEN 0 ELSE (p.Yes * 100) \div (p.Yes + p.No)

quorum_reached(p, total) ==
    /\ total # 0
    /\ ((p.Yes + p.No + p.Abstain) * 100) \div total >= MIN_QUORUM_PERCENT

passed(p, total) ==
    quorum_reached(p, total) /\ approval_percentage(p) >= required_threshold(p)

\* The exits tracked once proposal p is over.
ExitsWithout(p) ==
    IF p.exit THEN Without(gov.active_exit_proposals, {p.chain_id})
    ELSE gov.active_exit_proposals

-----------------------------------------------------------------------------
(* The contract's operations.                                              *)

set_voting_power(chain, account, power) ==
    gov' = [gov EXCEPT
        !.total_voting_power[chain] =
            SatSub(@, gov.voting_power[chain][account]) + power,
        !.voting_power[chain][account] = power]

add_dispute(chain) ==
    gov' = [gov EXCEPT !.chains_with_disputes = @ \cup {chain}]

remove_dispute(chain) ==
    gov' = [gov EXCEPT !.chains_with_disputes = @ \ {chain}]

create_proposal(chain, proposer, exit) ==
    LET id == gov.next_proposal_id
    IN  /\ id <= MaxProposals
        /\ gov.voting_power[chain][proposer] # 0
        /\ exit => /\ chain \notin DOMAIN gov.active_exit_proposals
                   /\ chain \notin gov.chains_with_disputes
        /\ gov' = [gov EXCEPT
               !.next_proposal_id = id + 1,
               !.proposals = With(@, id, NewProposal(chain, proposer, exit)),
               !.proposals_by_chain[chain] = @ \cup {id},
               !.active_exit_proposals = IF exit THEN With(@, chain, id) ELSE @]

vote(id, voter, v) ==
    LET p == gov.proposals[id]
        weight == gov.voting_power[p.chain_id][voter]
    IN  /\ is_voting_open(p)
        /\ voter \notin p.voters
        /\ weight # 0
        /\ gov' = [gov EXCEPT !.proposals[id][v] = @ + weight,
                              !.proposals[id].voters = @ \cup {voter}]

\* Mutant: a rejected exit stays tracked.
finalize_keeping_exit(id) ==
    LET p == gov.proposals[id]
    IN  /\ current_block >= p.voting_ends_at
        /\ p.status = "Active"
        /\ ~passed(p, gov.total_voting_power[p.chain_id])
        /\ gov' = [gov EXCEPT !.proposals[id].status = "Rejected"]

finalize_voting(id) ==
    LET p == gov.proposals[id]
    IN  /\ current_block >= p.voting_ends_at
        /\ p.status = "Active"
        /\ gov' = IF passed(p, gov.total_voting_power[p.chain_id])
                  THEN [gov EXCEPT
                           !.proposals[id].status = "Passed",
                           !.proposals[id].timelock_ends_at =
                               current_block + timelock_period(p)]
                  ELSE [gov EXCEPT
                           !.proposals[id].status = "Rejected",
                           !.active_exit_proposals = ExitsWithout(p)]


check_execution_ready(id) ==
    /\ gov.proposals[id].status = "Passed"
    /\ current_block >= gov.proposals[id].timelock_ends_at
    /\ gov' = [gov EXCEPT !.proposals[id].status = "ReadyToExecute"]

mark_executed(id) ==
    /\ gov.proposals[id].status = "ReadyToExecute"
    /\ gov' = [gov EXCEPT !.proposals[id].status = "Executed",
                          !.proposals[id].executed_at = current_block,
                          !.active_exit_proposals = ExitsWithout(gov.proposals[id])]

cancel_proposal(id, caller) ==
    /\ gov.proposals[id].proposer = caller
    /\ is_voting_open(gov.proposals[id])
    /\ gov' = [gov EXCEPT !.proposals[id].status = "Cancelled",
                          !.active_exit_proposals = ExitsWithout(gov.proposals[id])]

expire_stale_proposals ==
    LET expired == {id \in DOMAIN gov.proposals :
                       /\ gov.proposals[id].status = "ReadyToExecute"
                       /\ current_block >= gov.proposals[id].timelock_ends_at + GRACE_PERIOD}
        exits == {id \in expired : gov.proposals[id].exit}
    IN  gov' = [gov EXCEPT
            !.proposals = [id \in DOMAIN @ |->
                IF id \in expired THEN [@[id] EXCEPT !.status = "Expired"] ELSE @[id]],
            !.active_exit_proposals =
                Without(@, {gov.proposals[id].chain_id : id \in exits})]

cleanup_old_proposals(max_age) ==
    LET removed == {id \in DOMAIN gov.proposals :
                       /\ gov.proposals[id].status \in
                              {"Executed", "Expired", "Cancelled", "Rejected"}
                       /\ gov.proposals[id].created_at < SatSub(current_block, max_age)}
    IN  gov' = [gov EXCEPT
            !.proposals = Without(@, removed),
            !.proposals_by_chain = [c \in Chain |-> @[c] \ removed]]

GovernanceStep ==
    \/ \E c \in Chain, a \in Account : \E w \in Powers[a] : set_voting_power(c, a, w)
    \/ \E c \in Chain : add_dispute(c) \/ remove_dispute(c)
    \/ \E c \in Chain, a \in Account, exit \in BOOLEAN : create_proposal(c, a, exit)
    \/ \E id \in DOMAIN gov.proposals :
          \/ \E a \in Account, v \in Vote : vote(id, a, v)
          \/ finalize_voting(id)
          \/ check_execution_ready(id)
          \/ mark_executed(id)
          \/ \E a \in Account : cancel_proposal(id, a)
    \/ expire_stale_proposals
    \/ \E max_age \in 0..MaxBlock : cleanup_old_proposals(max_age)

-----------------------------------------------------------------------------
(* Properties.                                                             *)

Proposal ==
    [chain_id : Chain, proposer : Account, exit : BOOLEAN, status : ProposalStatus,
     created_at : Nat, voting_ends_at : Nat, timelock_ends_at : Nat \cup {None},
     voters : SUBSET Account, Yes : Nat, No : Nat, Abstain : Nat,
     executed_at : Nat \cup {None}]

\* The contract's maps keep their types; the index by chain names exactly the
\* proposals that exist (create_proposal, cleanup_old_proposals), and the total
\* power is the sum of the accounts' (set_voting_power).
GovernanceTypeOK ==
    /\ \A id \in DOMAIN gov.proposals : gov.proposals[id] \in Proposal
    /\ DOMAIN gov.proposals \subseteq 1..(gov.next_proposal_id - 1)
    /\ \A c \in Chain :
          /\ gov.proposals_by_chain[c] =
                 {id \in DOMAIN gov.proposals : gov.proposals[id].chain_id = c}
          /\ gov.total_voting_power[c] =
                 MapThenSumSet(LAMBDA a : gov.voting_power[c][a], Account)

\* active_exit_proposals ("only one allowed per chain"): whatever is proposed,
\* voted, cancelled, executed, expired or cleaned up, a chain has at most one exit
\* under way, it is the one tracked, and nothing is tracked once it is over.
OneExitPerChain ==
    \A c \in Chain :
        {id \in DOMAIN gov.proposals :
            /\ gov.proposals[id].chain_id = c /\ gov.proposals[id].exit
            /\ gov.proposals[id].status \in {"Active", "Passed", "ReadyToExecute"}}
        = {id \in DOMAIN gov.proposals :
              c \in DOMAIN gov.active_exit_proposals /\ gov.active_exit_proposals[c] = id}


govVars == <<gov, current_block>>

GovernanceSpec ==
    /\ GovernanceInit /\ current_block = 0
    /\ [][(GovernanceStep /\ UNCHANGED current_block) \/ (Advance /\ UNCHANGED gov)]_govVars

-----------------------------------------------------------------------------
(* Proof that a chain has one exit under way, for any chains, accounts,     *)
(* voting powers, thresholds and periods.                                   *)

UnderWay == {"Active", "Passed", "ReadyToExecute"}

\* The two maps of g: what active_exit_proposals tracks exists and is an exit of its
\* chain under way, and every exit under way is tracked.
TracksExits(g) ==
    /\ \A id \in DOMAIN g.proposals :
          /\ {"chain_id", "exit", "status"} \subseteq DOMAIN g.proposals[id]
          /\ g.proposals[id].exit \in BOOLEAN
          /\ id \in Nat /\ id < g.next_proposal_id
    /\ \A c \in DOMAIN g.active_exit_proposals :
          LET id == g.active_exit_proposals[c]
          IN  /\ id \in DOMAIN g.proposals
              /\ g.proposals[id].chain_id = c /\ g.proposals[id].exit
              /\ g.proposals[id].status \in UnderWay
    /\ \A id \in DOMAIN g.proposals :
          g.proposals[id].exit /\ g.proposals[id].status \in UnderWay =>
              /\ g.proposals[id].chain_id \in DOMAIN g.active_exit_proposals
              /\ g.active_exit_proposals[g.proposals[id].chain_id] = id

GovInv ==
    /\ {"proposals", "proposals_by_chain", "next_proposal_id", "voting_power",
        "total_voting_power", "active_exit_proposals", "chains_with_disputes"} = DOMAIN gov
    /\ gov.next_proposal_id \in Nat
    /\ TracksExits(gov)

\* A new contract tracks nothing.
LEMMA GovInvInit == GovernanceInit => GovInv
BY DEF GovernanceInit, GovInv, TracksExits

\* A step that changes of one proposal neither type nor chain, and its status within those
\* under way, keeps what is tracked.
LEMMA StaysUnderWay ==
    ASSUME GovInv, NEW id \in DOMAIN gov.proposals, NEW q,
           {"chain_id", "exit", "status"} \subseteq DOMAIN q,
           q.chain_id = gov.proposals[id].chain_id, q.exit = gov.proposals[id].exit,
           gov.proposals[id].status \in UnderWay, q.status \in UnderWay,
           DOMAIN gov' = DOMAIN gov,
           gov'.proposals = [gov.proposals EXCEPT ![id] = q],
           gov'.active_exit_proposals = gov.active_exit_proposals,
           gov'.next_proposal_id = gov.next_proposal_id
    PROVE  GovInv'
BY DEF GovInv, TracksExits

\* A step that ends one proposal and no longer tracks it.
LEMMA Ends ==
    ASSUME GovInv, NEW id \in DOMAIN gov.proposals, NEW q,
           {"chain_id", "exit", "status"} \subseteq DOMAIN q,
           q.chain_id = gov.proposals[id].chain_id, q.exit = gov.proposals[id].exit,
           gov.proposals[id].status \in UnderWay, q.status \notin UnderWay,
           DOMAIN gov' = DOMAIN gov,
           gov'.proposals = [gov.proposals EXCEPT ![id] = q],
           gov'.active_exit_proposals = ExitsWithout(gov.proposals[id]),
           gov'.next_proposal_id = gov.next_proposal_id
    PROVE  GovInv'
BY DEF GovInv, TracksExits, ExitsWithout, Without, Restrict

\* Every operation of the contract, and every block, keeps it.
LEMMA GovInvNext ==
    GovInv /\ [(GovernanceStep /\ UNCHANGED current_block) \/ (Advance /\ UNCHANGED gov)]_govVars
        => GovInv'
<1> SUFFICES ASSUME GovInv, GovernanceStep PROVE GovInv'
  BY DEF govVars, GovInv, TracksExits
<1>1. ASSUME NEW c \in Chain, NEW a \in Account, NEW w, set_voting_power(c, a, w) PROVE GovInv'
  BY <1>1 DEF set_voting_power, GovInv, TracksExits
<1>2. ASSUME NEW c \in Chain, add_dispute(c) \/ remove_dispute(c) PROVE GovInv'
  BY <1>2 DEF add_dispute, remove_dispute, GovInv, TracksExits
<1>3. ASSUME NEW c \in Chain, NEW a \in Account, NEW exit \in BOOLEAN, create_proposal(c, a, exit)
      PROVE GovInv'
  <2> DEFINE n == gov.next_proposal_id
             new == NewProposal(c, a, exit)
  <2>1. /\ DOMAIN gov' = DOMAIN gov
        /\ gov'.proposals = With(gov.proposals, n, new)
        /\ gov'.next_proposal_id = n + 1
        /\ gov'.active_exit_proposals = IF exit THEN With(gov.active_exit_proposals, c, n)
                                        ELSE gov.active_exit_proposals
        /\ exit => c \notin DOMAIN gov.active_exit_proposals
    BY <1>3 DEF create_proposal, GovInv
  <2>2. /\ {"chain_id", "exit", "status"} \subseteq DOMAIN new
        /\ new.chain_id = c /\ new.exit = exit /\ new.status = "Active"
    BY DEF NewProposal
  <2> HIDE DEF new
  <2>3. /\ DOMAIN gov'.proposals = DOMAIN gov.proposals \cup {n}
        /\ gov'.proposals[n] = new
        /\ \A id \in DOMAIN gov.proposals : id # n /\ gov'.proposals[id] = gov.proposals[id]
    BY <2>1 DEF GovInv, TracksExits, With
  <2>4. CASE exit
    <3>1. /\ DOMAIN gov'.active_exit_proposals = DOMAIN gov.active_exit_proposals \cup {c}
          /\ gov'.active_exit_proposals[c] = n
          /\ \A d \in DOMAIN gov.active_exit_proposals :
                d # c /\ gov'.active_exit_proposals[d] = gov.active_exit_proposals[d]
      BY <2>1, <2>4 DEF With
    <3>2. \A id \in DOMAIN gov'.proposals :
              /\ {"chain_id", "exit", "status"} \subseteq DOMAIN gov'.proposals[id]
              /\ gov'.proposals[id].exit \in BOOLEAN
              /\ id \in Nat /\ id < gov'.next_proposal_id
      BY <2>1, <2>2, <2>3 DEF GovInv, TracksExits
    <3>3. ASSUME NEW d \in DOMAIN gov'.active_exit_proposals
          PROVE  LET id == gov'.active_exit_proposals[d]
                 IN  /\ id \in DOMAIN gov'.proposals
                     /\ gov'.proposals[id].chain_id = d /\ gov'.proposals[id].exit
                     /\ gov'.proposals[id].status \in UnderWay
      <4>1. CASE d = c
        BY <2>2, <2>3, <2>4, <3>1, <4>1 DEF UnderWay
      <4>2. CASE d # c
        BY <2>3, <3>1, <4>2 DEF GovInv, TracksExits
      <4> QED BY <4>1, <4>2
    <3>4. ASSUME NEW id \in DOMAIN gov'.proposals,
                 gov'.proposals[id].exit, gov'.proposals[id].status \in UnderWay
          PROVE  /\ gov'.proposals[id].chain_id \in DOMAIN gov'.active_exit_proposals
                 /\ gov'.active_exit_proposals[gov'.proposals[id].chain_id] = id
      <4>1. CASE id = n
        BY <2>2, <2>3, <3>1, <4>1
      <4>2. CASE id # n
        BY <2>3, <3>1, <3>4, <4>2 DEF GovInv, TracksExits
      <4> QED BY <4>1, <4>2
    <3> QED BY <2>1, <3>2, <3>3, <3>4 DEF GovInv, TracksExits
  <2>5. CASE ~exit
    BY <2>1, <2>2, <2>3, <2>5 DEF GovInv, TracksExits, UnderWay
  <2> QED BY <2>4, <2>5
<1>4. ASSUME NEW id \in DOMAIN gov.proposals, NEW a \in Account, NEW v \in Vote, vote(id, a, v)
      PROVE GovInv'
  <2> DEFINE p == gov.proposals[id]
             q == [p EXCEPT ![v] = @ + gov.voting_power[p.chain_id][a],
                            !.voters = @ \cup {a}]
  <2>1. /\ DOMAIN gov' = DOMAIN gov /\ gov'.proposals = [gov.proposals EXCEPT ![id] = q]
        /\ gov'.active_exit_proposals = gov.active_exit_proposals
        /\ gov'.next_proposal_id = gov.next_proposal_id
    BY <1>4 DEF vote, GovInv
  <2>2. /\ {"chain_id", "exit", "status"} \subseteq DOMAIN q
        /\ q.chain_id = p.chain_id /\ q.exit = p.exit /\ q.status = p.status
    BY DEF Vote, GovInv, TracksExits
  <2>3. p.status \in UnderWay
    BY <1>4 DEF vote, is_voting_open, UnderWay
  <2> HIDE DEF q
  <2> QED BY <2>1, <2>2, <2>3, StaysUnderWay
<1>5. ASSUME NEW id \in DOMAIN gov.proposals, finalize_voting(id) PROVE GovInv'
  <2> DEFINE p == gov.proposals[id]
  <2>1. CASE passed(p, gov.total_voting_power[p.chain_id])
    <3> DEFINE q == [p EXCEPT !.status = "Passed",
                              !.timelock_ends_at = current_block + timelock_period(p)]
    <3>1. /\ DOMAIN gov' = DOMAIN gov /\ gov'.proposals = [gov.proposals EXCEPT ![id] = q]
          /\ gov'.active_exit_proposals = gov.active_exit_proposals
          /\ gov'.next_proposal_id = gov.next_proposal_id
      BY <1>5, <2>1 DEF finalize_voting, GovInv
    <3>2. /\ {"chain_id", "exit", "status"} \subseteq DOMAIN q
          /\ q.chain_id = p.chain_id /\ q.exit = p.exit /\ q.status \in UnderWay
      BY DEF GovInv, TracksExits, UnderWay
    <3>3. p.status \in UnderWay
      BY <1>5 DEF finalize_voting, UnderWay
    <3> HIDE DEF q
    <3> QED BY <3>1, <3>2, <3>3, StaysUnderWay
  <2>2. CASE ~passed(p, gov.total_voting_power[p.chain_id])
    <3> DEFINE q == [p EXCEPT !.status = "Rejected"]
    <3>1. /\ DOMAIN gov' = DOMAIN gov /\ gov'.proposals = [gov.proposals EXCEPT ![id] = q]
          /\ gov'.active_exit_proposals = ExitsWithout(p)
          /\ gov'.next_proposal_id = gov.next_proposal_id
      BY <1>5, <2>2 DEF finalize_voting, GovInv
    <3>2. /\ {"chain_id", "exit", "status"} \subseteq DOMAIN q
          /\ q.chain_id = p.chain_id /\ q.exit = p.exit /\ q.status \notin UnderWay
      BY DEF GovInv, TracksExits, UnderWay
    <3>3. p.status \in UnderWay
      BY <1>5 DEF finalize_voting, UnderWay
    <3> HIDE DEF q
    <3> QED BY <3>1, <3>2, <3>3, Ends
  <2> QED BY <2>1, <2>2
<1>6. ASSUME NEW id \in DOMAIN gov.proposals, check_execution_ready(id) PROVE GovInv'
  <2> DEFINE p == gov.proposals[id]
             q == [p EXCEPT !.status = "ReadyToExecute"]
  <2>1. /\ DOMAIN gov' = DOMAIN gov /\ gov'.proposals = [gov.proposals EXCEPT ![id] = q]
        /\ gov'.active_exit_proposals = gov.active_exit_proposals
        /\ gov'.next_proposal_id = gov.next_proposal_id
    BY <1>6 DEF check_execution_ready, GovInv
  <2>2. /\ {"chain_id", "exit", "status"} \subseteq DOMAIN q
        /\ q.chain_id = p.chain_id /\ q.exit = p.exit /\ q.status \in UnderWay
    BY DEF GovInv, TracksExits, UnderWay
  <2>3. p.status \in UnderWay
    BY <1>6 DEF check_execution_ready, UnderWay
  <2> HIDE DEF q
  <2> QED BY <2>1, <2>2, <2>3, StaysUnderWay
<1>7. ASSUME NEW id \in DOMAIN gov.proposals, mark_executed(id) PROVE GovInv'
  <2> DEFINE p == gov.proposals[id]
             q == [p EXCEPT !.status = "Executed", !.executed_at = current_block]
  <2>1. /\ DOMAIN gov' = DOMAIN gov /\ gov'.proposals = [gov.proposals EXCEPT ![id] = q]
        /\ gov'.active_exit_proposals = ExitsWithout(p)
        /\ gov'.next_proposal_id = gov.next_proposal_id
    BY <1>7 DEF mark_executed, GovInv
  <2>2. /\ {"chain_id", "exit", "status"} \subseteq DOMAIN q
        /\ q.chain_id = p.chain_id /\ q.exit = p.exit /\ q.status \notin UnderWay
    BY DEF GovInv, TracksExits, UnderWay
  <2>3. p.status \in UnderWay
    BY <1>7 DEF mark_executed, UnderWay
  <2> HIDE DEF q
  <2> QED BY <2>1, <2>2, <2>3, Ends
<1>10. ASSUME NEW id \in DOMAIN gov.proposals, NEW a \in Account, cancel_proposal(id, a) PROVE GovInv'
  <2> DEFINE p == gov.proposals[id]
             q == [p EXCEPT !.status = "Cancelled"]
  <2>1. /\ DOMAIN gov' = DOMAIN gov /\ gov'.proposals = [gov.proposals EXCEPT ![id] = q]
        /\ gov'.active_exit_proposals = ExitsWithout(p)
        /\ gov'.next_proposal_id = gov.next_proposal_id
    BY <1>10 DEF cancel_proposal, GovInv
  <2>2. /\ {"chain_id", "exit", "status"} \subseteq DOMAIN q
        /\ q.chain_id = p.chain_id /\ q.exit = p.exit /\ q.status \notin UnderWay
    BY DEF GovInv, TracksExits, UnderWay
  <2>3. p.status \in UnderWay
    BY <1>10 DEF cancel_proposal, is_voting_open, UnderWay
  <2> HIDE DEF q
  <2> QED BY <2>1, <2>2, <2>3, Ends
<1>8. CASE expire_stale_proposals
  <2> DEFINE expired == {id \in DOMAIN gov.proposals :
                            /\ gov.proposals[id].status = "ReadyToExecute"
                            /\ current_block >= gov.proposals[id].timelock_ends_at + GRACE_PERIOD}
             gone == {gov.proposals[id].chain_id : id \in {i \in expired : gov.proposals[i].exit}}
  <2>1. /\ DOMAIN gov' = DOMAIN gov
        /\ gov'.proposals = [id \in DOMAIN gov.proposals |->
              IF id \in expired THEN [gov.proposals[id] EXCEPT !.status = "Expired"]
              ELSE gov.proposals[id]]
        /\ gov'.active_exit_proposals = Without(gov.active_exit_proposals, gone)
        /\ gov'.next_proposal_id = gov.next_proposal_id
    BY <1>8 DEF expire_stale_proposals, GovInv
  <2>2. \A id \in expired : gov.proposals[id].status \in UnderWay
    BY DEF UnderWay
  <2>3. \A c \in gone : \E id \in expired : gov.proposals[id].exit /\ gov.proposals[id].chain_id = c
    OBVIOUS
  <2>4. \A id \in expired : gov.proposals[id].exit => gov.proposals[id].chain_id \in gone
    OBVIOUS
  <2>5. expired \subseteq DOMAIN gov.proposals
    OBVIOUS
  <2> HIDE DEF expired, gone
  <2>6. "Expired" \notin UnderWay
    BY DEF UnderWay
  <2> QED BY <2>1, <2>2, <2>3, <2>4, <2>5, <2>6 DEF GovInv, TracksExits, Without, Restrict
<1>9. ASSUME NEW max_age, cleanup_old_proposals(max_age) PROVE GovInv'
  <2> DEFINE removed == {id \in DOMAIN gov.proposals :
                            /\ gov.proposals[id].status \in
                                   {"Executed", "Expired", "Cancelled", "Rejected"}
                            /\ gov.proposals[id].created_at < SatSub(current_block, max_age)}
  <2>1. /\ DOMAIN gov' = DOMAIN gov
        /\ gov'.proposals = Without(gov.proposals, removed)
        /\ gov'.active_exit_proposals = gov.active_exit_proposals
        /\ gov'.next_proposal_id = gov.next_proposal_id
    BY <1>9 DEF cleanup_old_proposals, GovInv
  <2>2. \A id \in removed : gov.proposals[id].status \notin UnderWay
    BY DEF UnderWay
  <2> HIDE DEF removed
  <2> QED BY <2>1, <2>2 DEF GovInv, TracksExits, Without, Restrict
<1> QED BY <1>1, <1>2, <1>3, <1>4, <1>5, <1>6, <1>7, <1>8, <1>9, <1>10
    DEF GovernanceStep

\* However proposals, votes, cancellations, executions, expiries and clean-ups of any
\* chains follow each other, a chain has at most one exit under way, and
\* active_exit_proposals tracks it and nothing else (create_proposal, finalize_voting,
\* mark_executed, cancel_proposal, expire_stale_proposals, cleanup_old_proposals).
THEOREM ExitsAreTracked == GovernanceSpec => []OneExitPerChain
<1>1. GovInv => OneExitPerChain
  BY DEF GovInv, TracksExits, UnderWay, OneExitPerChain
<1> QED BY <1>1, GovInvInit, GovInvNext, PTL DEF GovernanceSpec
=============================================================================
