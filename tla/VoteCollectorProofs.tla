------------------------ MODULE VoteCollectorProofs ------------------------
(***************************************************************************)
(* Lemmas about the operators of VoteCollector, for every set of accounts, *)
(* every set of validators and every tree of blocks.                       *)
(***************************************************************************)
EXTENDS VoteCollector, FiniteSetTheorems, TLAPS

Index == [Account -> Target \cup {NoTarget}]

\* The voters of a target are finitely many (the validator set is finite).
LEMMA VotersFinite ==
    ASSUME NEW index, NEW t
    PROVE  /\ IsFiniteSet(VotersFor(index, t))
           /\ Cardinality(VotersFor(index, t)) \in Nat
  BY FS_Subset, FS_CardinalityType, AccountAssumption DEF VotersFor

\* Recording a voter that the index does not hold adds one to the count of its
\* target and nothing to any other (the insert and the push of add_prevote).
LEMMA RecordOne ==
    ASSUME NEW index \in Index, NEW a \in Account, index[a] = NoTarget,
           NEW t \in Target, NEW u \in Target
    PROVE  LET recorded == [index EXCEPT ![a] = t]
           IN  Cardinality(VotersFor(recorded, u)) =
                  IF u = t THEN Cardinality(VotersFor(index, u)) + 1
                           ELSE Cardinality(VotersFor(index, u))
<1> DEFINE recorded == [index EXCEPT ![a] = t]
<1>1. CASE u = t
  <2>1. VotersFor(recorded, u) = VotersFor(index, u) \cup {a}
    BY <1>1 DEF VotersFor, Index
  <2>2. a \notin VotersFor(index, u)
    BY TargetAssumption DEF VotersFor
  <2> QED BY <1>1, <2>1, <2>2, VotersFinite, FS_AddElement
<1>2. CASE u # t
  <2>1. VotersFor(recorded, u) = VotersFor(index, u)
    BY <1>2, TargetAssumption DEF VotersFor, Index
  <2> QED BY <1>2, <2>1
<1> QED BY <1>1, <1>2

\* A validator is recorded for one target at most, so the counts of two targets
\* together do not exceed the validator set.
LEMMA CountsOfTwoTargets ==
    ASSUME NEW index \in Index, NEW S \in SUBSET Account,
           \A a \in Account \ S : index[a] = NoTarget,
           NEW t \in Target, NEW u \in Target, t # u
    PROVE  Cardinality(VotersFor(index, t)) + Cardinality(VotersFor(index, u))
              <= Cardinality(S)
<1>1. VotersFor(index, t) \cap VotersFor(index, u) = {}
  BY DEF VotersFor
<1>2. VotersFor(index, t) \cup VotersFor(index, u) \in SUBSET S
  BY TargetAssumption DEF VotersFor
<1>3. IsFiniteSet(S)
  BY FS_Subset, AccountAssumption
<1>4. Cardinality(VotersFor(index, t) \cup VotersFor(index, u)) <= Cardinality(S)
  BY <1>2, <1>3, FS_Subset
<1>5. Cardinality(VotersFor(index, t) \cup VotersFor(index, u))
         = Cardinality(VotersFor(index, t)) + Cardinality(VotersFor(index, u))
             - Cardinality(VotersFor(index, t) \cap VotersFor(index, u))
  BY VotersFinite, FS_Union
<1>6. Cardinality(VotersFor(index, t) \cap VotersFor(index, u)) = 0
  BY <1>1, FS_EmptySet, Zenon
<1>7. Cardinality(VotersFor(index, t)) \in Nat /\ Cardinality(VotersFor(index, u)) \in Nat
  BY VotersFinite
<1>8. Cardinality(S) \in Nat
  BY <1>3, FS_CardinalityType
<1> QED BY <1>4, <1>5, <1>6, <1>7, <1>8

\* Two supermajorities of 66% of one validator set are more than the whole set.
LEMMA TwoSupermajorities ==
    ASSUME NEW n \in Nat, NEW p \in Nat, NEW q \in Nat,
           has_supermajority(p, n), has_supermajority(q, n)
    PROVE  p + q > n /\ p > 0
  BY DEF has_supermajority, SUPERMAJORITY_THRESHOLD

-----------------------------------------------------------------------------
(* The inductive invariant of a collector, and that add_vote keeps it.     *)

CollectorInv(c) ==
    /\ c \in Collector(0, Nat, SUBSET Account)
    /\ CountsDistinctValidators(c)
    /\ PhasesRestOnQuorums(c)

\* What a vote may change: the voter's own entry in one index, if it is empty,
\* and the phase, one step forward; nothing that identifies the round.
VoteEffect(c, vote, d) ==
    /\ d.epoch = c.epoch /\ d.round = c.round /\ d.validators = c.validators
    /\ \/ d.prevoted = c.prevoted
       \/ /\ Admissible(c, vote) /\ vote.vote_type = "Prevote"
          /\ c.prevoted[vote.voter] = NoTarget
          /\ d.prevoted = [c.prevoted EXCEPT ![vote.voter] = vote.target]
    /\ \/ d.precommitted = c.precommitted
       \/ /\ Admissible(c, vote) /\ vote.vote_type = "Precommit"
          /\ c.precommitted[vote.voter] = NoTarget
          /\ d.precommitted = [c.precommitted EXCEPT ![vote.voter] = vote.target]
    /\ \/ d.state = c.state
       \/ c.state = "Prevoting" /\ d.state = "Precommitting"
       \/ c.state = "Precommitting" /\ d.state = "Completed"

\* VoteCollector::new starts with no vote, so the invariant holds.
LEMMA NewCollectorInv ==
    ASSUME NEW r \in Nat, NEW S \in SUBSET Account
    PROVE  CollectorInv(NewCollector(0, r, S))
<1> DEFINE c == NewCollector(0, r, S)
<1>1. c \in Collector(0, Nat, SUBSET Account)
  BY DEF NewCollector, Collector, RoundState
<1>2. \A t \in Target : VotersFor(c.prevoted, t) = {} /\ VotersFor(c.precommitted, t) = {}
  BY TargetAssumption DEF NewCollector, VotersFor
<1>3. CountsDistinctValidators(c)
  BY <1>2, FS_EmptySet DEF NewCollector, CountsDistinctValidators
<1>4. PhasesRestOnQuorums(c)
  BY DEF NewCollector, PhasesRestOnQuorums
<1> QED BY <1>1, <1>3, <1>4 DEF CollectorInv

\* A target that leads the counts after one of them grew has a supermajority if
\* any target had one before.
LEMMA BestKeepsQuorum ==
    ASSUME NEW votes \in [Target -> Nat], NEW n \in Nat,
           NEW t \in Target, has_supermajority(votes[t], n),
           NEW u \in Target, NEW best \in Best([votes EXCEPT ![u] = @ + 1])
    PROVE  has_supermajority([votes EXCEPT ![u] = @ + 1][best], n)
<1> DEFINE grown == [votes EXCEPT ![u] = @ + 1]
<1>1. best \in Target /\ grown[best] >= grown[t] /\ grown[t] >= votes[t]
  BY DEF Best, Leads
<1>2. grown[best] \in Nat /\ grown[t] \in Nat
  BY <1>1
<1> HIDE DEF grown
<1>3. has_supermajority(grown[best], n)
  BY <1>1, <1>2 DEF has_supermajority, SUPERMAJORITY_THRESHOLD
<1> QED BY <1>3 DEF grown

\* add_prevote keeps the invariant: it records the vote once or not at all.
LEMMA AddPrevoteInv ==
    ASSUME NEW c, CollectorInv(c),
           NEW vote \in FinalityVote({0}, Nat), Admissible(c, vote),
           vote.vote_type = "Prevote",
           NEW d \in add_prevote(c, vote)
    PROVE  CollectorInv(d) /\ VoteEffect(c, vote, d)
<1> DEFINE recorded == c.prevoted[vote.voter]
           votes == [c.prevotes EXCEPT ![vote.target] = @ + 1]
           index == [c.prevoted EXCEPT ![vote.voter] = vote.target]
<1>0. /\ c \in Collector(0, Nat, SUBSET Account)
      /\ vote.voter \in Account /\ vote.target \in Target /\ vote.voter \in c.validators
      /\ recorded \in Target \cup {NoTarget}
      /\ c.prevotes \in [Target -> Nat] /\ c.prevoted \in Index
  BY DEF CollectorInv, Collector, FinalityVote, Admissible, Index
<1>1. CASE recorded \notin {NoTarget, vote.target}
  <2>1. d = Equivocated(c, vote, recorded)
    BY <1>1 DEF add_prevote
  <2>2. d \in Collector(0, Nat, SUBSET Account)
    BY <1>0, <1>1, <2>1 DEF Equivocated, Collector, EquivocationProof, FinalityVote
  <2>3. /\ d.prevotes = c.prevotes /\ d.precommits = c.precommits
        /\ d.prevoted = c.prevoted /\ d.precommitted = c.precommitted
        /\ d.state = c.state /\ d.validators = c.validators
        /\ d.epoch = c.epoch /\ d.round = c.round
        /\ d.best_prevote_target = c.best_prevote_target
        /\ d.best_precommit_target = c.best_precommit_target
    BY <1>0, <2>1 DEF Equivocated, Collector
  <2> QED BY <2>2, <2>3 DEF CollectorInv, CountsDistinctValidators, PhasesRestOnQuorums,
                            Quorum, VoteEffect
<1>2. CASE recorded = vote.target
  <2>1. d = c
    BY <1>0, <1>2, TargetAssumption DEF add_prevote
  <2> QED BY <2>1 DEF VoteEffect
<1>3. CASE recorded = NoTarget
  <2>1. PICK best \in Best(votes) :
           d = check_prevote_threshold([c EXCEPT !.prevoted[vote.voter] = vote.target,
                                                 !.prevotes = votes,
                                                 !.best_prevote_target = best])
    BY <1>0, <1>3, TargetAssumption DEF add_prevote
  <2>2. best \in Target /\ votes \in [Target -> Nat] /\ index \in Index
    BY <1>0 DEF Best, Index
  <2>3. /\ d.prevotes = votes /\ d.precommits = c.precommits
        /\ d.prevoted = index /\ d.precommitted = c.precommitted
        /\ d.validators = c.validators /\ d.epoch = c.epoch /\ d.round = c.round
        /\ d.best_prevote_target = best
        /\ d.best_precommit_target = c.best_precommit_target
        /\ d.equivocations = c.equivocations
        /\ \/ d.state = c.state
           \/ /\ d.state = "Precommitting" /\ c.state = "Prevoting"
              /\ has_supermajority(votes[best], Cardinality(c.validators))
    BY <1>0, <2>1, <2>2 DEF check_prevote_threshold, Collector
  <2>4. d \in Collector(0, Nat, SUBSET Account)
    BY <1>0, <2>1, <2>2 DEF check_prevote_threshold, Collector, RoundState, Index
  <2>5. CountsDistinctValidators(d)
    <3>1. ASSUME NEW t \in Target
          PROVE  votes[t] = Cardinality(VotersFor(index, t))
      <4>1. c.prevotes[t] = Cardinality(VotersFor(c.prevoted, t))
        BY DEF CollectorInv, CountsDistinctValidators
      <4> QED BY <1>0, <1>3, <4>1, RecordOne
    <3>2. \A a \in Account \ c.validators : index[a] = NoTarget /\ c.precommitted[a] = NoTarget
      BY <1>0 DEF CollectorInv, CountsDistinctValidators, Index
    <3> HIDE DEF votes, index
    <3> QED BY <2>3, <3>1, <3>2 DEF CollectorInv, CountsDistinctValidators
  <2>6. PhasesRestOnQuorums(d)
    <3>1. Cardinality(c.validators) \in Nat
      BY <1>0, AccountAssumption, FS_Subset, FS_CardinalityType DEF Collector
    <3>2. votes[best] = Cardinality(VotersFor(index, best))
      BY <2>2, <2>3, <2>5 DEF CountsDistinctValidators
    <3>3. ASSUME d.state \in {"Precommitting", "Completed"}
          PROVE  has_supermajority(votes[best], Cardinality(c.validators))
      <4>1. CASE d.state = c.state
        <5>1. /\ c.best_prevote_target \in Target
              /\ has_supermajority(c.prevotes[c.best_prevote_target],
                                   Cardinality(c.validators))
          BY <3>3, <4>1 DEF CollectorInv, PhasesRestOnQuorums, Quorum, CountsDistinctValidators
        <5> QED BY <1>0, <2>1, <3>1, <5>1, BestKeepsQuorum
      <4> QED BY <2>3, <4>1
    <3>4. d.state = "Completed" => Quorum(d, d.precommitted, d.best_precommit_target)
      BY <2>3 DEF CollectorInv, PhasesRestOnQuorums, Quorum
    <3> HIDE DEF votes, index
    <3> QED BY <2>2, <2>3, <3>2, <3>3, <3>4 DEF PhasesRestOnQuorums, Quorum
  <2> QED BY <1>0, <1>3, <2>3, <2>4, <2>5, <2>6 DEF CollectorInv, VoteEffect
<1> QED BY <1>0, <1>1, <1>2, <1>3

\* add_precommit keeps the invariant too, by the same argument.
LEMMA AddPrecommitInv ==
    ASSUME NEW c, CollectorInv(c),
           NEW vote \in FinalityVote({0}, Nat), Admissible(c, vote),
           vote.vote_type = "Precommit",
           NEW d \in add_precommit(c, vote)
    PROVE  CollectorInv(d) /\ VoteEffect(c, vote, d)
<1> DEFINE recorded == c.precommitted[vote.voter]
           votes == [c.precommits EXCEPT ![vote.target] = @ + 1]
           index == [c.precommitted EXCEPT ![vote.voter] = vote.target]
<1>0. /\ c \in Collector(0, Nat, SUBSET Account)
      /\ vote.voter \in Account /\ vote.target \in Target /\ vote.voter \in c.validators
      /\ recorded \in Target \cup {NoTarget}
      /\ c.precommits \in [Target -> Nat] /\ c.precommitted \in Index
  BY DEF CollectorInv, Collector, FinalityVote, Admissible, Index
<1>1. CASE recorded \notin {NoTarget, vote.target}
  <2>1. d = Equivocated(c, vote, recorded)
    BY <1>1 DEF add_precommit
  <2>2. d \in Collector(0, Nat, SUBSET Account)
    BY <1>0, <1>1, <2>1 DEF Equivocated, Collector, EquivocationProof, FinalityVote
  <2>3. /\ d.precommits = c.precommits /\ d.prevotes = c.prevotes
        /\ d.precommitted = c.precommitted /\ d.prevoted = c.prevoted
        /\ d.state = c.state /\ d.validators = c.validators
        /\ d.epoch = c.epoch /\ d.round = c.round
        /\ d.best_precommit_target = c.best_precommit_target
        /\ d.best_prevote_target = c.best_prevote_target
    BY <1>0, <2>1 DEF Equivocated, Collector
  <2> QED BY <2>2, <2>3 DEF CollectorInv, CountsDistinctValidators, PhasesRestOnQuorums,
                            Quorum, VoteEffect
<1>2. CASE recorded = vote.target
  <2>1. d = c
    BY <1>0, <1>2, TargetAssumption DEF add_precommit
  <2> QED BY <2>1 DEF VoteEffect
<1>3. CASE recorded = NoTarget
  <2>1. PICK best \in Best(votes) :
           d = check_precommit_threshold([c EXCEPT !.precommitted[vote.voter] = vote.target,
                                                 !.precommits = votes,
                                                 !.best_precommit_target = best])
    BY <1>0, <1>3, TargetAssumption DEF add_precommit
  <2>2. best \in Target /\ votes \in [Target -> Nat] /\ index \in Index
    BY <1>0 DEF Best, Index
  <2>3. /\ d.precommits = votes /\ d.prevotes = c.prevotes
        /\ d.precommitted = index /\ d.prevoted = c.prevoted
        /\ d.validators = c.validators /\ d.epoch = c.epoch /\ d.round = c.round
        /\ d.best_precommit_target = best
        /\ d.best_prevote_target = c.best_prevote_target
        /\ d.equivocations = c.equivocations
        /\ \/ d.state = c.state
           \/ /\ d.state = "Completed" /\ c.state = "Precommitting"
              /\ has_supermajority(votes[best], Cardinality(c.validators))
    BY <1>0, <2>1, <2>2 DEF check_precommit_threshold, Collector
  <2>4. d \in Collector(0, Nat, SUBSET Account)
    BY <1>0, <2>1, <2>2 DEF check_precommit_threshold, Collector, RoundState, Index
  <2>5. CountsDistinctValidators(d)
    <3>1. ASSUME NEW t \in Target
          PROVE  votes[t] = Cardinality(VotersFor(index, t))
      <4>1. c.precommits[t] = Cardinality(VotersFor(c.precommitted, t))
        BY DEF CollectorInv, CountsDistinctValidators
      <4> QED BY <1>0, <1>3, <4>1, RecordOne
    <3>2. \A a \in Account \ c.validators : index[a] = NoTarget /\ c.prevoted[a] = NoTarget
      BY <1>0 DEF CollectorInv, CountsDistinctValidators, Index
    <3> HIDE DEF votes, index
    <3> QED BY <2>3, <3>1, <3>2 DEF CollectorInv, CountsDistinctValidators
  <2>6. PhasesRestOnQuorums(d)
    <3>1. Cardinality(c.validators) \in Nat
      BY <1>0, AccountAssumption, FS_Subset, FS_CardinalityType DEF Collector
    <3>2. votes[best] = Cardinality(VotersFor(index, best))
      BY <2>2, <2>3, <2>5 DEF CountsDistinctValidators
    <3>3. ASSUME d.state = "Completed"
          PROVE  has_supermajority(votes[best], Cardinality(c.validators))
      <4>1. CASE d.state = c.state
        <5>1. /\ c.best_precommit_target \in Target
              /\ has_supermajority(c.precommits[c.best_precommit_target],
                                   Cardinality(c.validators))
          BY <3>3, <4>1 DEF CollectorInv, PhasesRestOnQuorums, Quorum, CountsDistinctValidators
        <5> QED BY <1>0, <2>1, <3>1, <5>1, BestKeepsQuorum
      <4> QED BY <2>3, <4>1
    <3>4. d.state \in {"Precommitting", "Completed"} =>
             Quorum(d, d.prevoted, d.best_prevote_target)
      BY <2>3 DEF CollectorInv, PhasesRestOnQuorums, Quorum
    <3> HIDE DEF votes, index
    <3> QED BY <2>2, <2>3, <3>2, <3>3, <3>4 DEF PhasesRestOnQuorums, Quorum
  <2> QED BY <1>0, <1>3, <2>3, <2>4, <2>5, <2>6 DEF CollectorInv, VoteEffect
<1> QED BY <1>0, <1>1, <1>2, <1>3

\* Every vote that reaches add_vote, from anyone and in any order, keeps the
\* invariant and changes only the voter's own entries.
LEMMA AddVoteInv ==
    ASSUME NEW c, CollectorInv(c), NEW vote \in FinalityVote({0}, Nat),
           NEW d \in add_vote(c, vote)
    PROVE  CollectorInv(d) /\ VoteEffect(c, vote, d)
<1>1. CASE ~Admissible(c, vote)
  BY <1>1 DEF add_vote, VoteEffect
<1>2. CASE Admissible(c, vote) /\ vote.vote_type = "Prevote"
  BY <1>2, AddPrevoteInv DEF add_vote
<1>3. CASE Admissible(c, vote) /\ vote.vote_type # "Prevote"
  <2>1. vote.vote_type = "Precommit"
    BY <1>3 DEF FinalityVote, VoteType
  <2> QED BY <1>3, <2>1, AddPrecommitInv DEF add_vote
<1> QED BY <1>1, <1>2, <1>3

\* Two targets cannot both be backed by a supermajority of one index.
LEMMA OneQuorumTarget ==
    ASSUME NEW c, CollectorInv(c), NEW index \in Index,
           \A a \in Account \ c.validators : index[a] = NoTarget,
           NEW t, NEW u, Quorum(c, index, t), Quorum(c, index, u)
    PROVE  t = u
<1>1. c.validators \in SUBSET Account /\ t \in Target /\ u \in Target
  BY DEF CollectorInv, Collector, Quorum
<1>2. Cardinality(c.validators) \in Nat
  BY <1>1, AccountAssumption, FS_Subset, FS_CardinalityType
<1>3. Cardinality(VotersFor(index, t)) + Cardinality(VotersFor(index, u))
         > Cardinality(c.validators)
  BY <1>2, VotersFinite, TwoSupermajorities DEF Quorum
<1>4. SUFFICES ASSUME t # u PROVE FALSE
  OBVIOUS
<1>5. Cardinality(VotersFor(index, t)) + Cardinality(VotersFor(index, u))
         <= Cardinality(c.validators)
  BY <1>1, <1>4, CountsOfTwoTargets
<1> QED BY <1>2, <1>3, <1>5, VotersFinite

\* Recording a voter that the index does not hold keeps every quorum.
LEMMA QuorumGrows ==
    ASSUME NEW c, NEW d, d.validators = c.validators,
           c.validators \in SUBSET Account,
           NEW index \in Index, NEW a \in Account, index[a] = NoTarget,
           NEW u \in Target, NEW t, Quorum(c, index, t)
    PROVE  Quorum(d, [index EXCEPT ![a] = u], t)
<1> DEFINE grown == [index EXCEPT ![a] = u]
<1>1. Cardinality(c.validators) \in Nat
  BY AccountAssumption, FS_Subset, FS_CardinalityType
<1>2. VotersFor(index, t) \subseteq VotersFor(grown, t)
  BY TargetAssumption DEF VotersFor, Index, Quorum
<1> HIDE DEF grown
<1>3. Cardinality(VotersFor(index, t)) <= Cardinality(VotersFor(grown, t))
  BY <1>2, VotersFinite, FS_Subset
<1>4. Quorum(d, grown, t)
  BY <1>1, <1>3, VotersFinite DEF Quorum, has_supermajority, SUPERMAJORITY_THRESHOLD
<1> QED BY <1>4 DEF grown

\* A vote never moves the best target of a phase that reached its threshold:
\* the old best keeps its quorum, the new best has one, and there is only one.
LEMMA VoteSettles ==
    ASSUME NEW c, CollectorInv(c), NEW vote \in FinalityVote({0}, Nat),
           NEW d, CollectorInv(d), VoteEffect(c, vote, d)
    PROVE  /\ c.state \in {"Precommitting", "Completed"} =>
                 d.best_prevote_target = c.best_prevote_target
           /\ c.state = "Completed" =>
                 /\ d.state = "Completed"
                 /\ d.best_precommit_target = c.best_precommit_target
<1>0. /\ c.prevoted \in Index /\ c.precommitted \in Index
      /\ d.prevoted \in Index /\ d.precommitted \in Index
      /\ c.validators \in SUBSET Account /\ d.validators = c.validators
      /\ vote.voter \in Account /\ vote.target \in Target
  BY DEF CollectorInv, Collector, Index, VoteEffect, FinalityVote
<1>1. ASSUME c.state \in {"Precommitting", "Completed"}
      PROVE  d.best_prevote_target = c.best_prevote_target
  <2>1. Quorum(c, c.prevoted, c.best_prevote_target)
    BY <1>1 DEF CollectorInv, PhasesRestOnQuorums
  <2>2. Quorum(d, d.prevoted, d.best_prevote_target)
    BY <1>1 DEF CollectorInv, PhasesRestOnQuorums, VoteEffect
  <2>3. Quorum(d, d.prevoted, c.best_prevote_target)
    <3>1. CASE d.prevoted = c.prevoted
      BY <1>0, <2>1, <3>1 DEF Quorum
    <3>2. CASE d.prevoted # c.prevoted
      <4>1. /\ c.prevoted[vote.voter] = NoTarget
            /\ d.prevoted = [c.prevoted EXCEPT ![vote.voter] = vote.target]
        BY <3>2 DEF VoteEffect
      <4> QED BY <1>0, <2>1, <4>1, QuorumGrows
    <3> QED BY <3>1, <3>2
  <2>4. \A a \in Account \ d.validators : d.prevoted[a] = NoTarget
    BY DEF CollectorInv, CountsDistinctValidators
  <2> QED BY <1>0, <2>2, <2>3, <2>4, OneQuorumTarget
<1>2. ASSUME c.state = "Completed"
      PROVE  d.state = "Completed" /\ d.best_precommit_target = c.best_precommit_target
  <2>0. d.state = "Completed"
    BY <1>2 DEF VoteEffect
  <2>1. Quorum(c, c.precommitted, c.best_precommit_target)
    BY <1>2 DEF CollectorInv, PhasesRestOnQuorums
  <2>2. Quorum(d, d.precommitted, d.best_precommit_target)
    BY <2>0 DEF CollectorInv, PhasesRestOnQuorums
  <2>3. Quorum(d, d.precommitted, c.best_precommit_target)
    <3>1. CASE d.precommitted = c.precommitted
      BY <1>0, <2>1, <3>1 DEF Quorum
    <3>2. CASE d.precommitted # c.precommitted
      <4>1. /\ c.precommitted[vote.voter] = NoTarget
            /\ d.precommitted = [c.precommitted EXCEPT ![vote.voter] = vote.target]
        BY <3>2 DEF VoteEffect
      <4> QED BY <1>0, <2>1, <4>1, QuorumGrows
    <3> QED BY <3>1, <3>2
  <2>4. \A a \in Account \ d.validators : d.precommitted[a] = NoTarget
    BY DEF CollectorInv, CountsDistinctValidators
  <2> QED BY <1>0, <2>0, <2>2, <2>3, <2>4, OneQuorumTarget
<1> QED BY <1>1, <1>2
=============================================================================
