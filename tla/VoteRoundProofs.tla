-------------------------- MODULE VoteRoundProofs --------------------------
(***************************************************************************)
(* Proofs about VoteRound for every finite set of accounts, every set of   *)
(* validators among them and every set of blocks.  The inductive invariant *)
(* is CollectorInv: the phase of the round can only be justified by the    *)
(* votes counted, and the counts only by the index of voters.              *)
(***************************************************************************)
EXTENDS VoteRound, VoteCollectorProofs

IInv == TypeOK /\ CollectorInv(collector)

\* Votes of other epochs and rounds are refused by add_vote before they matter.
LEMMA ForeignVote ==
    ASSUME NEW c, NEW vote, NEW d \in add_vote(c, vote), ~Admissible(c, vote)
    PROVE  d = c
  BY DEF add_vote

LEMMA InitIInv == Init => IInv
<1> SUFFICES ASSUME Init PROVE IInv
  OBVIOUS
<1>1. CollectorInv(NewCollector(0, 0, Validators))
  BY ValidatorsAssumption, NewCollectorInv
<1>2. CollectorInv(collector)
  BY <1>1 DEF Init
<1> QED BY <1>2 DEF Init, IInv, TypeOK, CollectorInv, Collector, NewCollector

\* A vote keeps the invariant, and the targets whose phase is over.
LEMMA AddVoteStep ==
    ASSUME IInv, NEW vote \in Votes, AddVote(vote)
    PROVE  IInv' /\ VoteEffect(collector, vote, collector')
<1>1. CASE ~Admissible(collector, vote)
  BY <1>1, ForeignVote DEF AddVote, IInv, TypeOK, VoteEffect
<1>2. CASE Admissible(collector, vote)
  <2>1. vote \in FinalityVote({0}, Nat)
    BY <1>2 DEF Votes, FinalityVote, Admissible, IInv, TypeOK, Collector
  <2>2. CollectorInv(collector') /\ VoteEffect(collector, vote, collector')
    BY <2>1, AddVoteInv DEF AddVote, IInv
  <2>3. TypeOK'
    BY <2>2 DEF IInv, TypeOK, CollectorInv, Collector, VoteEffect
  <2> QED BY <2>2, <2>3 DEF IInv
<1> QED BY <1>1, <1>2

LEMMA MarkFailedStep ==
    ASSUME IInv, MarkFailed
    PROVE  IInv' /\ UNCHANGED <<collector.prevoted, collector.precommitted,
                                collector.best_prevote_target,
                                collector.best_precommit_target>>
  BY DEF MarkFailed, mark_failed, IInv, TypeOK, CollectorInv, Collector, RoundState,
         CountsDistinctValidators, PhasesRestOnQuorums, Quorum

LEMMA NextIInv == IInv /\ [Next]_vars => IInv'
<1> SUFFICES ASSUME IInv, [Next]_vars PROVE IInv'
  OBVIOUS
<1>1. CASE \E vote \in Votes : AddVote(vote)
  BY <1>1, AddVoteStep
<1>2. CASE MarkFailed
  BY <1>2, MarkFailedStep
<1>3. CASE UNCHANGED vars
  BY <1>3 DEF vars, IInv, TypeOK
<1> QED BY <1>1, <1>2, <1>3 DEF Next

LEMMA SpecIInv == Spec => []IInv
  BY InitIInv, NextIInv, PTL DEF Spec

\* The collector's fields keep their types, for any number of validators.
THEOREM TypeCorrect == Spec => []TypeOK
<1>1. IInv => TypeOK
  BY DEF IInv
<1> QED BY <1>1, SpecIInv, PTL

\* However the votes are repeated and reordered, the lengths that add_prevote
\* and add_precommit compare with the threshold count distinct validators.
THEOREM CountsAreHonest == Spec => []ListsCountDistinctValidators
<1>1. IInv => ListsCountDistinctValidators
  BY DEF IInv, CollectorInv, ListsCountDistinctValidators
<1> QED BY <1>1, SpecIInv, PTL

\* A round completes only on a quorum of prevotes followed by a quorum of
\* precommits.
THEOREM CompletionNeedsQuorums == Spec => []CompletedByTwoQuorums
<1>1. IInv => CompletedByTwoQuorums
  BY DEF IInv, CollectorInv, CompletedByTwoQuorums
<1> QED BY <1>1, SpecIInv, PTL

\* Once a phase reached its threshold no later vote, and no failure of the
\* round, changes the block it settled on.
THEOREM SettledTargets == Spec => ThresholdSettlesTarget
<1> DEFINE Settled ==
      /\ collector.state \in {"Precommitting", "Completed"} =>
            collector'.best_prevote_target = collector.best_prevote_target
      /\ collector.state = "Completed" =>
            finalized_target(collector') = finalized_target(collector)
<1>1. IInv /\ [Next]_vars => [Settled]_vars
  <2> SUFFICES ASSUME IInv, Next PROVE Settled
    BY DEF vars
  <2>1. ASSUME NEW vote \in Votes, AddVote(vote) PROVE Settled
    <3>1. CASE ~Admissible(collector, vote)
      BY <2>1, <3>1, ForeignVote DEF AddVote
    <3>2. CASE Admissible(collector, vote)
      <4>1. vote \in FinalityVote({0}, Nat)
        BY <3>2 DEF Votes, FinalityVote, Admissible, IInv, TypeOK, Collector
      <4>2. CollectorInv(collector') /\ VoteEffect(collector, vote, collector')
        BY <2>1, AddVoteStep DEF IInv
      <4> QED BY <4>1, <4>2, VoteSettles DEF IInv, finalized_target
    <3> QED BY <3>1, <3>2
  <2>2. ASSUME MarkFailed PROVE Settled
    BY <2>2 DEF MarkFailed, mark_failed, finalized_target, IInv, TypeOK, Collector
  <2> QED BY <2>1, <2>2 DEF Next
<1> QED BY <1>1, SpecIInv, PTL DEF Spec, ThresholdSettlesTarget

\* Two thirds decide a round once: the three results above together (add_vote).
THEOREM RoundIsDecidedOnce == Spec => QuorumsDecide
BY CountsAreHonest, CompletionNeedsQuorums, SettledTargets, PTL DEF QuorumsDecide
=============================================================================
