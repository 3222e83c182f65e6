----------------------------- MODULE VoteRound -----------------------------
(***************************************************************************)
(* One finality round's vote collector, fed by a network that delivers any *)
(* vote, from anyone, for any round, in any order and any number of times  *)
(* (votes.rs; FinalityRound::add_vote of rounds.rs delegates to it).       *)
(***************************************************************************)
EXTENDS VoteCollector

CONSTANTS
    Validators, \* the validator set the round was started with
    Epochs,     \* the epochs and
    Rounds      \* the round numbers that votes on the network carry

ASSUME ValidatorsAssumption == Validators \subseteq Account

VARIABLE collector

vars == <<collector>>

Votes == FinalityVote(Epochs, Rounds)
-----------------------------------------------------------------------------
Init == collector = NewCollector(0, 0, Validators)

AddVote(vote) == collector' \in add_vote(collector, vote)

MarkFailed == collector' = mark_failed(collector)

Next == \/ \E vote \in Votes : AddVote(vote)
        \/ MarkFailed

Spec == Init /\ [][Next]_vars
-----------------------------------------------------------------------------
\* The fields of VoteCollector keep their types.
TypeOK == collector \in Collector(0, {0}, {Validators})

\* The lists of votes whose lengths are compared with the threshold and the
\* per-voter index that detects duplicates never disagree, and only validators
\* are in them: a length counts distinct validators, however often a vote is
\* delivered and whatever else its voter sent (add_prevote, add_precommit).
ListsCountDistinctValidators == CountsDistinctValidators(collector)

\* A round is in its precommit phase only after a supermajority of distinct
\* validators prevoted the block it will precommit, and it completes only with
\* a supermajority of distinct precommits for the block it finalizes, whatever
\* other votes came before, between and after.
CompletedByTwoQuorums == PhasesRestOnQuorums(collector)

\* Once the prevotes passed the threshold the block to precommit is settled,
\* and once the precommits did the finalized block is: update_best_prevote and
\* update_best_precommit run again on every later vote and never change it.
ThresholdSettlesTarget ==
    [][/\ collector.state \in {"Precommitting", "Completed"} =>
             collector'.best_prevote_target = collector.best_prevote_target
       /\ collector.state = "Completed" =>
             finalized_target(collector') = finalized_target(collector)]_vars

\* add_vote: the phases of a round change on quorums of distinct validators, counted as
\* above, and what a quorum decided stands.
QuorumsDecide ==
    /\ [](ListsCountDistinctValidators /\ CompletedByTwoQuorums)
    /\ ThresholdSettlesTarget
=============================================================================
