--------------------------- MODULE VoteCollector ---------------------------
(***************************************************************************)
(* The vote collector of one finality round                                *)
(* (kratos-core/src/consensus/finality/votes.rs).                          *)
(*                                                                         *)
(* A collector is a record and its methods are operators on it: VoteRound  *)
(* runs one collector against every vote that can reach it, FinalityGadget *)
(* holds one per node.  A Target is a block, number[t] its height.  A      *)
(* signature is a flag: sig is TRUE exactly when verify() returns true.    *)
(***************************************************************************)
EXTENDS Naturals, FiniteSets

CONSTANTS
    Account,    \* every account that may send a vote
    Target,     \* every block a vote may name
    number,     \* number[t]: the height of block t
    NoTarget    \* the None of an Option<(BlockNumber, Hash)>

ASSUME TargetAssumption ==
    /\ NoTarget \notin Target
    /\ number \in [Target -> Nat]

ASSUME AccountAssumption == IsFiniteSet(Account)

RoundState == {"Prevoting", "Precommitting", "Completed", "Failed"}

VoteType == {"Prevote", "Precommit"}

\* FinalityVote: the epoch and the round name the round it belongs to.
FinalityVote(epochs, rounds) ==
    [vote_type : VoteType, target : Target, epoch : epochs, round : rounds,
     voter : Account, sig : BOOLEAN]

\* What is kept of an EquivocationProof.
EquivocationProof ==
    [validator : Account, vote_type : VoteType, vote1 : Target, vote2 : Target]

(***************************************************************************)
(* The supermajority test, with the 66% of SUPERMAJORITY_THRESHOLD.  The   *)
(* counts are lengths of vote lists.                                       *)
(***************************************************************************)
SUPERMAJORITY_THRESHOLD == 66

\* Mutant: the threshold is rounded down before the comparison.
rounded_down_supermajority(count, total) ==
    total # 0 /\ count >= (total * SUPERMAJORITY_THRESHOLD) \div 100

has_supermajority(count, total) ==
    total # 0 /\ count * 100 >= total * SUPERMAJORITY_THRESHOLD

\* The fields of a collector of one of the given rounds and validator sets.
Collector(epoch, rounds, validatorSets) ==
    [epoch : {epoch}, round : rounds, validators : validatorSets,
     prevotes : [Target -> Nat],
     precommits : [Target -> Nat],
     prevoted : [Account -> Target \cup {NoTarget}],
     precommitted : [Account -> Target \cup {NoTarget}],
     best_prevote_target : Target \cup {NoTarget},
     best_precommit_target : Target \cup {NoTarget},
     equivocations : SUBSET EquivocationProof,
     state : RoundState]

(***************************************************************************)
(* VoteCollector::new.  The code keeps a list of votes per target and reads *)
(* its length and its voters: prevotes[t] and precommits[t] are the lengths *)
(* (no entry in the HashMap: 0).  prevoted and precommitted map a voter to  *)
(* the target it is recorded for.                                           *)
(***************************************************************************)
NewCollector(epoch, round, validators) ==
    [epoch |-> epoch, round |-> round, validators |-> validators,
     prevotes |-> [t \in Target |-> 0],
     precommits |-> [t \in Target |-> 0],
     prevoted |-> [a \in Account |-> NoTarget],
     precommitted |-> [a \in Account |-> NoTarget],
     best_prevote_target |-> NoTarget,
     best_precommit_target |-> NoTarget,
     equivocations |-> {},
     state |-> "Prevoting"]

(***************************************************************************)
(* update_best_prevote, update_best_precommit: the longest list wins, then *)
(* the higher block.  Two blocks of one height with lists of one length    *)
(* tie, and the order of the HashMap's iteration decides: any of them.     *)
(***************************************************************************)
Leads(votes, t, u) ==
    \/ votes[t] > votes[u]
    \/ votes[t] = votes[u] /\ number[t] >= number[u]

Best(votes) ==
    {t \in Target : votes[t] # 0 /\ \A u \in Target : Leads(votes, t, u)}

check_prevote_threshold(c) ==
    IF /\ c.state = "Prevoting"
       /\ has_supermajority(c.prevotes[c.best_prevote_target],
                            Cardinality(c.validators))
    THEN [c EXCEPT !.state = "Precommitting"]
    ELSE c

\* Mutant: the precommit phase is ended by the prevotes that started it.
prevotes_complete(c) ==
    IF /\ c.state = "Precommitting"
       /\ has_supermajority(c.prevotes[c.best_prevote_target],
                            Cardinality(c.validators))
    THEN [c EXCEPT !.state = "Completed"]
    ELSE c

check_precommit_threshold(c) ==
    IF /\ c.state = "Precommitting"
       /\ has_supermajority(c.precommits[c.best_precommit_target],
                            Cardinality(c.validators))
    THEN [c EXCEPT !.state = "Completed"]
    ELSE c

\* The proof pushed by the equivocation branch of add_prevote and add_precommit.
Equivocated(c, vote, recorded) ==
    [c EXCEPT !.equivocations = @ \cup
        {[validator |-> vote.voter, vote_type |-> vote.vote_type,
          vote1 |-> recorded, vote2 |-> vote.target]}]

(***************************************************************************)
(* add_prevote and add_precommit, as the set of collectors they may leave: *)
(* a voter recorded for another target equivocates, one recorded for this  *)
(* target is a duplicate, any other vote is recorded.                      *)
(***************************************************************************)
\* Mutant: an empty entry of the index is taken for a different vote.
accuse_first_prevote(c, vote) ==
    IF c.prevoted[vote.voter] = vote.target THEN {c}
    ELSE {Equivocated(c, vote, c.prevoted[vote.voter])}

add_prevote(c, vote) ==
    LET recorded == c.prevoted[vote.voter]
        prevotes == [c.prevotes EXCEPT ![vote.target] = @ + 1]
    IN  CASE recorded \notin {NoTarget, vote.target} ->
                {Equivocated(c, vote, recorded)}
          [] recorded = vote.target -> {c}
          [] OTHER ->
                {check_prevote_threshold(
                    [c EXCEPT !.prevoted[vote.voter] = vote.target,
                              !.prevotes = prevotes,
                              !.best_prevote_target = best])
                 : best \in Best(prevotes)}

add_precommit(c, vote) ==
    LET recorded == c.precommitted[vote.voter]
        precommits == [c.precommits EXCEPT ![vote.target] = @ + 1]
    IN  CASE recorded \notin {NoTarget, vote.target} ->
                {Equivocated(c, vote, recorded)}
          [] recorded = vote.target -> {c}
          [] OTHER ->
                {check_precommit_threshold(
                    [c EXCEPT !.precommitted[vote.voter] = vote.target,
                              !.precommits = precommits,
                              !.best_precommit_target = best])
                 : best \in Best(precommits)}

\* The early returns of add_vote: none of the four rejections applies.
Admissible(c, vote) ==
    /\ vote.epoch = c.epoch /\ vote.round = c.round
    /\ vote.voter \in c.validators
    /\ ~(vote.vote_type = "Precommit" /\ c.state = "Prevoting")
    /\ vote.sig

add_vote(c, vote) ==
    IF ~Admissible(c, vote) THEN {c}
    ELSE IF vote.vote_type = "Prevote" THEN add_prevote(c, vote)
    ELSE add_precommit(c, vote)

finalized_target(c) ==
    IF c.state = "Completed" THEN c.best_precommit_target ELSE NoTarget

\* The voters recorded in an index (prevoted or precommitted) for target t.
VotersFor(index, t) == {a \in Account : index[a] = t}

\* get_precommits_for_best: the votes whose signatures a justification carries.
get_precommits_for_best(c) == VotersFor(c.precommitted, c.best_precommit_target)

mark_failed(c) ==
    IF c.state # "Completed" THEN [c EXCEPT !.state = "Failed"] ELSE c

is_done(c) == c.state \in {"Completed", "Failed"}

-----------------------------------------------------------------------------
(* What the methods keep true of a collector.                              *)

\* The lists of votes and the per-voter index agree, and only validators are
\* in them.
CountsDistinctValidators(c) ==
    /\ \A t \in Target :
          /\ c.prevotes[t] = Cardinality(VotersFor(c.prevoted, t))
          /\ c.precommits[t] = Cardinality(VotersFor(c.precommitted, t))
    /\ \A a \in Account \ c.validators :
          c.prevoted[a] = NoTarget /\ c.precommitted[a] = NoTarget

\* A supermajority of the validators is recorded in an index for target t.
Quorum(c, index, t) ==
    t \in Target /\ has_supermajority(Cardinality(VotersFor(index, t)),
                                     Cardinality(c.validators))

\* The phase of the round rests on the votes: the precommit phase on prevotes
\* for the best target, completion on precommits for the best target too.
PhasesRestOnQuorums(c) ==
    /\ c.state \in {"Precommitting", "Completed"} =>
          Quorum(c, c.prevoted, c.best_prevote_target)
    /\ c.state = "Completed" => Quorum(c, c.precommitted, c.best_precommit_target)
=============================================================================
