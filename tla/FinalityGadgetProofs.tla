------------------------ MODULE FinalityGadgetProofs ------------------------
(***************************************************************************)
(* Proofs about FinalityGadget, for every validator set of three or more,  *)
(* every tree of blocks and both networks.                                 *)
(*                                                                         *)
(* Agreement does not follow from what a node sees: rounds of two nodes    *)
(* that bear one number need not vote on one block, and a node may vote    *)
(* twice under one number.  What holds is weaker and enough: a validator   *)
(* prevotes only blocks of its own chain, so every block that is precom-   *)
(* mitted, announced, justified or finalized is on the chains of 66% of    *)
(* the validators (Backed), chains only grow, and two such sets intersect. *)
(***************************************************************************)
EXTENDS FinalityGadget, VoteCollectorProofs, SequenceTheorems

\* H[v] stands for the blocks on v's chain.
Holdings == [Account -> SUBSET Block]

Holders(H, b) == {v \in Validators : b \in H[v]}

Backed(H, b) ==
    has_supermajority(Cardinality(Holders(H, b)), Cardinality(Validators))

\* What a message asserts of the chains when it is sent.
MessageOK(H, m) ==
    /\ m \in Message
    /\ m.kind = "Finalized" => Backed(H, m.target)
    /\ m.kind = "Vote" /\ m.vote.vote_type = "Prevote" => m.vote.target \in H[m.vote.voter]
    /\ m.kind = "Vote" /\ m.vote.vote_type = "Precommit" => Backed(H, m.vote.target)

\* What a collector records of the chains.
CollectorOK(H, c) ==
    /\ CollectorInv(c)
    /\ \A a \in Account :
          /\ c.prevoted[a] # NoTarget => c.prevoted[a] \in H[a]
          /\ c.precommitted[a] # NoTarget => Backed(H, c.precommitted[a])

\* A gadget in the middle of a handler, when outbound is being filled.
OpenGadget ==
    [current_round : Nat, has_active_round : BOOLEAN,
     collector : Collector(0, Nat, {{}, Validators}),
     have_prevoted : BOOLEAN, have_precommitted : BOOLEAN,
     last_finalized : Target, pending_blocks : SUBSET Block,
     justifications : SUBSET [target : Block, voters : SUBSET Account],
     outbound : SUBSET Message]

GadgetOK(H, n, g) ==
    /\ g \in OpenGadget
    /\ g.has_active_round => g.collector.validators = Validators
    /\ CollectorOK(H, g.collector)
    /\ g.pending_blocks \subseteq H[n]
    /\ g.last_finalized = Genesis \/ Backed(H, g.last_finalized)
    /\ \A j \in g.justifications : Backed(H, j.target)
    /\ \A m \in g.outbound : MessageOK(H, m)

RoundOK(g) == g.has_active_round <=> g.pending_blocks # {}

-----------------------------------------------------------------------------
(* Backed blocks.                                                          *)

LEMMA ValidatorsFinite ==
    /\ IsFiniteSet(Validators)
    /\ Cardinality(Validators) \in Nat
    /\ Cardinality(Validators) >= 3
  BY ValidatorsAssumption, AccountAssumption, FS_Subset, FS_CardinalityType

LEMMA HoldersFinite ==
    ASSUME NEW H, NEW b
    PROVE  IsFiniteSet(Holders(H, b)) /\ Cardinality(Holders(H, b)) \in Nat
  BY ValidatorsFinite, FS_Subset, FS_CardinalityType DEF Holders

\* Two backed blocks are on the chain of one validator.
LEMMA BackedTogether ==
    ASSUME NEW H, NEW b, NEW c, Backed(H, b), Backed(H, c)
    PROVE  \E v \in Validators : b \in H[v] /\ c \in H[v]
<1> DEFINE P == Holders(H, b)
           Q == Holders(H, c)
<1>1. Cardinality(P) + Cardinality(Q) > Cardinality(Validators)
  BY ValidatorsFinite, HoldersFinite, TwoSupermajorities DEF Backed
<1>2. Cardinality(P \cup Q) = Cardinality(P) + Cardinality(Q) - Cardinality(P \cap Q)
  BY HoldersFinite, FS_Union
<1>3. Cardinality(P \cup Q) <= Cardinality(Validators)
  <2>1. P \cup Q \in SUBSET Validators
    BY DEF Holders
  <2> QED BY <2>1, ValidatorsFinite, FS_Subset
<1>4. SUFFICES ASSUME P \cap Q = {} PROVE FALSE
  BY DEF Holders
<1>5. Cardinality(P \cap Q) = 0
  BY <1>4, FS_EmptySet, Zenon
<1> HIDE DEF P, Q
<1>6. Cardinality(P) \in Nat /\ Cardinality(Q) \in Nat
  BY HoldersFinite DEF P, Q
<1> QED BY <1>1, <1>2, <1>3, <1>5, <1>6, ValidatorsFinite

LEMMA BackedIsBlock ==
    ASSUME NEW H \in Holdings, NEW b, Backed(H, b)
    PROVE  b \in Block
  BY BackedTogether, ValidatorsAssumption DEF Holdings

\* A block backed on some chains stays backed when the chains grow.
LEMMA BackedGrows ==
    ASSUME NEW H, NEW K, \A v \in Account : H[v] \subseteq K[v],
           NEW b, Backed(H, b)
    PROVE  Backed(K, b)
<1>1. Holders(H, b) \subseteq Holders(K, b)
  BY ValidatorsAssumption DEF Holders
<1>2. Cardinality(Holders(H, b)) <= Cardinality(Holders(K, b))
  BY <1>1, HoldersFinite, FS_Subset
<1> QED BY <1>2, HoldersFinite, ValidatorsFinite
        DEF Backed, has_supermajority, SUPERMAJORITY_THRESHOLD

\* A round that reached its prevote threshold settled on a backed block, and a
\* completed one finalizes a backed block.
LEMMA QuorumBacks ==
    ASSUME NEW H \in Holdings, NEW c, CollectorOK(H, c), c.validators = Validators
    PROVE  /\ c.state = "Precommitting" => Backed(H, c.best_prevote_target)
           /\ c.state = "Completed" => Backed(H, c.best_precommit_target)
<1>0. c.prevoted \in Index /\ c.precommitted \in Index
  BY DEF CollectorOK, CollectorInv, Collector, Index
<1>1. ASSUME c.state = "Precommitting" PROVE Backed(H, c.best_prevote_target)
  <2> DEFINE t == c.best_prevote_target
  <2>1. Quorum(c, c.prevoted, t)
    BY <1>1 DEF CollectorOK, CollectorInv, PhasesRestOnQuorums
  <2>2. VotersFor(c.prevoted, t) \subseteq Holders(H, t)
    BY <2>1, TargetAssumption
    DEF CollectorOK, CollectorInv, CountsDistinctValidators, VotersFor, Holders, Quorum
  <2>3. Cardinality(VotersFor(c.prevoted, t)) <= Cardinality(Holders(H, t))
    BY <2>2, HoldersFinite, FS_Subset
  <2> HIDE DEF t
  <2>4. Backed(H, t)
    BY <2>1, <2>3, HoldersFinite, VotersFinite, ValidatorsFinite
    DEF Quorum, Backed, has_supermajority, SUPERMAJORITY_THRESHOLD
  <2> QED BY <2>4 DEF t
<1>2. ASSUME c.state = "Completed" PROVE Backed(H, c.best_precommit_target)
  <2> DEFINE t == c.best_precommit_target
             V == VotersFor(c.precommitted, t)
  <2>1. Quorum(c, c.precommitted, t)
    BY <1>2 DEF CollectorOK, CollectorInv, PhasesRestOnQuorums
  <2>2. Cardinality(V) > 0
    BY <2>1, VotersFinite, ValidatorsFinite, TwoSupermajorities DEF Quorum
  <2>3. PICK a \in V : TRUE
    <3>1. SUFFICES ASSUME V = {} PROVE FALSE
      OBVIOUS
    <3> HIDE DEF V
    <3>2. Cardinality(V) = 0
      BY <3>1, FS_EmptySet, Zenon
    <3> QED BY <2>2, <3>2
  <2>4. a \in Account /\ c.precommitted[a] = t /\ t \in Target
    BY <2>1, <2>3 DEF VotersFor, Quorum
  <2> QED BY <2>4, TargetAssumption DEF CollectorOK
<1> QED BY <1>1, <1>2

-----------------------------------------------------------------------------
(* The handlers keep a gadget's invariant, whatever the chains hold.       *)

LEMMA NewCollectorOK ==
    ASSUME NEW H, NEW r \in Nat, NEW S \in {{}, Validators}
    PROVE  /\ CollectorOK(H, NewCollector(0, r, S))
           /\ NewCollector(0, r, S) \in Collector(0, Nat, {{}, Validators})
           /\ NewCollector(0, r, S).validators = S
<1>1. CollectorInv(NewCollector(0, r, S))
  BY ValidatorsAssumption, NewCollectorInv
<1> QED BY <1>1 DEF CollectorOK, NewCollector, Collector, RoundState

LEMMA EmitOK ==
    ASSUME NEW H, NEW n, NEW g, GadgetOK(H, n, g), NEW m, MessageOK(H, m)
    PROVE  /\ GadgetOK(H, n, Emit(g, m))
           /\ RoundOK(Emit(g, m)) <=> RoundOK(g)
  BY DEF Emit, GadgetOK, OpenGadget, MessageOK, RoundOK

LEMMA PrevoteOK ==
    ASSUME NEW H \in Holdings, NEW n \in Account, NEW g, GadgetOK(H, n, g),
           NEW b \in H[n]
    PROVE  LET h == create_and_broadcast_prevote(n, g, b)
           IN  GadgetOK(H, n, h) /\ (RoundOK(h) <=> RoundOK(g))
<1> DEFINE m == VoteMessage(Vote(n, g, "Prevote", b))
           p == [g EXCEPT !.have_prevoted = TRUE]
<1>1. MessageOK(H, m)
  BY DEF MessageOK, Message, VoteMessage, Vote, FinalityVote, VoteType, GadgetOK,
         OpenGadget, Collector, Holdings, Block
<1>2. GadgetOK(H, n, p) /\ (RoundOK(p) <=> RoundOK(g))
  BY DEF GadgetOK, OpenGadget, RoundOK
<1> HIDE DEF m, p
<1>3. GadgetOK(H, n, Emit(p, m)) /\ (RoundOK(Emit(p, m)) <=> RoundOK(p))
  BY <1>1, <1>2, EmitOK
<1> QED BY <1>2, <1>3 DEF create_and_broadcast_prevote, m, p

LEMMA PrecommitOK ==
    ASSUME NEW H \in Holdings, NEW n \in Account, NEW g, GadgetOK(H, n, g),
           g.has_active_round
    PROVE  LET h == create_and_broadcast_precommit(n, g)
           IN  GadgetOK(H, n, h) /\ (RoundOK(h) <=> RoundOK(g))
<1> DEFINE t == g.collector.best_prevote_target
           m == VoteMessage(Vote(n, g, "Precommit", t))
           p == [g EXCEPT !.have_precommitted = TRUE]
<1>1. CASE should_precommit(n, g) /\ t # NoTarget
  <2>1. Backed(H, t)
    BY <1>1, QuorumBacks DEF GadgetOK, should_precommit
  <2>2. t \in Target
    BY <2>1, BackedIsBlock DEF Block
  <2>3. MessageOK(H, m)
    BY <2>1, <2>2 DEF MessageOK, Message, VoteMessage, Vote, FinalityVote, VoteType,
       GadgetOK, OpenGadget, Collector
  <2>4. GadgetOK(H, n, p) /\ (RoundOK(p) <=> RoundOK(g))
    BY DEF GadgetOK, OpenGadget, RoundOK
  <2>5. create_and_broadcast_precommit(n, g) = Emit(p, m)
    BY <1>1 DEF create_and_broadcast_precommit
  <2> HIDE DEF m, p
  <2> QED BY <2>3, <2>4, <2>5, EmitOK
<1>2. CASE ~(should_precommit(n, g) /\ t # NoTarget)
  BY <1>2 DEF create_and_broadcast_precommit
<1> QED BY <1>1, <1>2

LEMMA StartOK ==
    ASSUME NEW H \in Holdings, NEW n \in Account, NEW g, GadgetOK(H, n, g),
           NEW h \in start_finality_round(n, g)
    PROVE  GadgetOK(H, n, h) /\ RoundOK(h)
<1>1. PICK b \in Highest(g.pending_blocks) :
         h = create_and_broadcast_prevote(n, start_round(g), b)
  BY DEF start_finality_round
<1>2. b \in g.pending_blocks /\ b \in H[n]
  BY <1>1 DEF Highest, GadgetOK
<1>3. GadgetOK(H, n, start_round(g)) /\ RoundOK(start_round(g))
  <2>1. /\ g.current_round \in Nat
        /\ CollectorOK(H, NewCollector(0, g.current_round, Validators))
        /\ NewCollector(0, g.current_round, Validators) \in Collector(0, Nat, {{}, Validators})
        /\ NewCollector(0, g.current_round, Validators).validators = Validators
    BY NewCollectorOK DEF GadgetOK, OpenGadget
  <2> QED BY <1>2, <2>1 DEF start_round, GadgetOK, OpenGadget, RoundOK
<1> QED BY <1>1, <1>2, <1>3, PrevoteOK

\* complete_current_round, for a finalized block that is backed or for none.
LEMMA CompleteOK ==
    ASSUME NEW H \in Holdings, NEW n \in Account, NEW g, GadgetOK(H, n, g),
           NEW f, f = NoTarget \/ Backed(H, f),
           NEW h \in complete_current_round(n, g, f)
    PROVE  GadgetOK(H, n, h) /\ RoundOK(h)
<1> DEFINE done ==
        [NoRound(g) EXCEPT
           !.last_finalized =
               IF g.has_active_round /\ f # NoTarget THEN f ELSE @,
           !.pending_blocks =
               IF f = NoTarget THEN @ ELSE {b \in @ : number[b] > number[f]}]
         next == [done EXCEPT !.current_round = @ + 1]
<1>1. f = NoTarget \/ (f \in Target /\ Backed(H, f))
  BY BackedIsBlock DEF Block
<1>2. GadgetOK(H, n, NoRound(g)) /\ ~NoRound(g).has_active_round
  <2>1. /\ CollectorOK(H, NewCollector(0, 0, {}))
        /\ NewCollector(0, 0, {}) \in Collector(0, Nat, {{}, Validators})
    BY NewCollectorOK
  <2> QED BY <2>1 DEF NoRound, GadgetOK, OpenGadget
<1>3. GadgetOK(H, n, done) /\ ~done.has_active_round
  BY <1>1, <1>2 DEF GadgetOK, OpenGadget
<1>4. h \in IF done.pending_blocks = {} THEN {done} ELSE start_finality_round(n, next)
  BY DEF complete_current_round
<1> HIDE DEF done
<1>5. GadgetOK(H, n, next)
  BY <1>3 DEF GadgetOK, OpenGadget
<1> HIDE DEF next
<1> QED BY <1>3, <1>4, <1>5, StartOK DEF RoundOK

LEMMA ImportedOK ==
    ASSUME NEW H \in Holdings, NEW n \in Account, NEW g, GadgetOK(H, n, g), RoundOK(g),
           NEW b \in H[n], NEW h \in on_block_imported(n, g, b)
    PROVE  GadgetOK(H, n, h) /\ RoundOK(h)
<1> DEFINE seen == [g EXCEPT !.pending_blocks = @ \cup {b}]
<1>1. /\ GadgetOK(H, n, seen)
      /\ seen.pending_blocks # {} /\ seen.has_active_round = g.has_active_round
  BY DEF GadgetOK, OpenGadget, Holdings
<1>2. h \in IF g.has_active_round THEN {seen} ELSE start_finality_round(n, seen)
  BY DEF on_block_imported
<1> HIDE DEF seen
<1> QED BY <1>1, <1>2, StartOK DEF RoundOK

\* A collector that takes a message's vote keeps what it records of the chains.
LEMMA CollectorTakesVote ==
    ASSUME NEW H, NEW c, CollectorOK(H, c), c.validators = Validators,
           NEW vote \in FinalityVote({0}, Nat), MessageOK(H, VoteMessage(vote)),
           NEW d \in add_vote(c, vote)
    PROVE  CollectorOK(H, d) /\ VoteEffect(c, vote, d) /\ d.validators = Validators
<1>1. CollectorInv(d) /\ VoteEffect(c, vote, d)
  BY AddVoteInv DEF CollectorOK
<1>2. /\ vote.vote_type = "Prevote" => vote.target \in H[vote.voter]
      /\ vote.vote_type = "Precommit" => Backed(H, vote.target)
      /\ vote.voter \in Account
  BY DEF MessageOK, VoteMessage, FinalityVote
<1>3. /\ c.prevoted \in Index /\ c.precommitted \in Index
  BY DEF CollectorOK, CollectorInv, Collector, Index
<1>4. ASSUME NEW a \in Account
      PROVE  /\ d.prevoted[a] # NoTarget => d.prevoted[a] \in H[a]
             /\ d.precommitted[a] # NoTarget => Backed(H, d.precommitted[a])
  BY <1>1, <1>2, <1>3 DEF CollectorOK, VoteEffect, Index
<1> QED BY <1>1, <1>4 DEF CollectorOK, VoteEffect

LEMMA OnVoteOK ==
    ASSUME NEW H \in Holdings, NEW n \in Account, NEW g, GadgetOK(H, n, g), RoundOK(g),
           NEW vote \in FinalityVote({0}, Nat), MessageOK(H, VoteMessage(vote)),
           NEW h \in on_vote(n, g, vote)
    PROVE  GadgetOK(H, n, h) /\ RoundOK(h)
<1>1. CASE ~(/\ g.has_active_round
             /\ vote.epoch = g.collector.epoch /\ vote.round = g.collector.round)
  BY <1>1 DEF on_vote
<1>2. CASE /\ g.has_active_round
           /\ vote.epoch = g.collector.epoch /\ vote.round = g.collector.round
  <2>1. PICK c \in add_vote(g.collector, vote) : h \in after_vote(n, g, c)
    BY <1>2 DEF on_vote
  <2>2. /\ CollectorOK(H, c) /\ VoteEffect(g.collector, vote, c)
        /\ c.validators = Validators
    BY <1>2, <2>1, CollectorTakesVote DEF GadgetOK
  <2>3. c \in Collector(0, Nat, {{}, Validators})
    BY <2>2 DEF CollectorOK, CollectorInv, Collector
  <2> DEFINE counted == [g EXCEPT !.collector = c]
             target == finalized_target(c)
             justified == [counted EXCEPT !.justifications = @ \cup
                {[target |-> target, voters |-> get_precommits_for_best(c)]}]
             announced == Emit(justified, FinalizedMessage(target))
  <2>4. /\ GadgetOK(H, n, counted) /\ RoundOK(counted)
        /\ counted.has_active_round
    BY <1>2, <2>2, <2>3 DEF GadgetOK, OpenGadget, RoundOK
  <2>5. h \in IF c.state = g.collector.state THEN {counted}
              ELSE IF c.state = "Precommitting"
                   THEN {create_and_broadcast_precommit(n, counted)}
              ELSE complete_current_round(n, announced, target)
    BY <2>1 DEF after_vote
  <2> HIDE DEF counted
  <2>6. CASE c.state = g.collector.state
    BY <2>4, <2>5, <2>6
  <2>7. CASE c.state # g.collector.state /\ c.state = "Precommitting"
    <3>1. h = create_and_broadcast_precommit(n, counted)
      BY <2>5, <2>7
    <3> QED BY <2>4, <3>1, PrecommitOK
  <2>8. CASE c.state # g.collector.state /\ c.state # "Precommitting"
    <3>1. c.state = "Completed" /\ target = c.best_precommit_target
      BY <2>2, <2>8 DEF VoteEffect, finalized_target
    <3>2. Backed(H, target)
      BY <2>2, <3>1, QuorumBacks
    <3>3. target \in Block
      BY <3>2, BackedIsBlock
    <3>4. get_precommits_for_best(c) \in SUBSET Account
      BY DEF get_precommits_for_best, VotersFor
    <3> HIDE DEF target
    <3>5. GadgetOK(H, n, justified)
      BY <2>4, <3>2, <3>3, <3>4 DEF GadgetOK, OpenGadget
    <3>6. MessageOK(H, FinalizedMessage(target))
      BY <3>2, <3>3 DEF MessageOK, Message, FinalizedMessage
    <3> HIDE DEF justified
    <3>7. GadgetOK(H, n, announced)
      BY <3>5, <3>6, EmitOK
    <3>8. h \in complete_current_round(n, announced, target)
      BY <2>5, <2>8
    <3> HIDE DEF announced
    <3> QED BY <3>2, <3>7, <3>8, CompleteOK
  <2> QED BY <2>6, <2>7, <2>8
<1> QED BY <1>1, <1>2

LEMMA AnnouncementOK ==
    ASSUME NEW H \in Holdings, NEW n \in Account, NEW g, GadgetOK(H, n, g), RoundOK(g),
           NEW target, Backed(H, target),
           NEW h \in handle_finalized_announcement(n, g, target)
    PROVE  GadgetOK(H, n, h) /\ RoundOK(h)
  BY CompleteOK DEF handle_finalized_announcement

LEMMA TickOK ==
    ASSUME NEW H \in Holdings, NEW n \in Account, NEW g, GadgetOK(H, n, g), RoundOK(g),
           NEW timed_out, NEW h \in tick(n, g, timed_out)
    PROVE  GadgetOK(H, n, h) /\ RoundOK(h)
<1>1. \/ h = g
      \/ g.has_active_round /\ h = create_and_broadcast_precommit(n, g)
  BY DEF tick
<1> QED BY <1>1, PrecommitOK

\* What a message asserts, and what holds of a gadget, still holds when the
\* chains have grown.
LEMMA MessageGrows ==
    ASSUME NEW H, NEW K, \A v \in Account : H[v] \subseteq K[v],
           NEW m, MessageOK(H, m)
    PROVE  MessageOK(K, m)
<1>1. \A b : Backed(H, b) => Backed(K, b)
  BY BackedGrows
<1> QED BY <1>1 DEF MessageOK, Message, FinalityVote

LEMMA GadgetGrows ==
    ASSUME NEW H \in Holdings, NEW K \in Holdings,
           \A v \in Account : H[v] \subseteq K[v],
           NEW n \in Account, NEW g, GadgetOK(H, n, g)
    PROVE  GadgetOK(K, n, g)
<1>1. \A b : Backed(H, b) => Backed(K, b)
  BY BackedGrows
<1>2. \A m : MessageOK(H, m) => MessageOK(K, m)
  BY MessageGrows
<1>3. CollectorOK(K, g.collector)
  BY <1>1 DEF GadgetOK, CollectorOK
<1> QED BY <1>1, <1>2, <1>3 DEF GadgetOK

-----------------------------------------------------------------------------
(* The network.                                                            *)

Blocks == [v \in Account |-> {b \in Block : HasBlock(v, b)}]

IInv ==
    /\ TypeOK
    /\ \A n \in Account : GadgetOK(Blocks, n, gadget[n]) /\ RoundOK(gadget[n])
    /\ \A p \in DOMAIN net : MessageOK(Blocks, p.msg)

LEMMA BlocksType == Blocks \in Holdings
  BY DEF Blocks, Holdings

\* A handler whose results are sound, run on sound packets, keeps the gadgets
\* and the packets sound.
LEMMA HandleOK ==
    ASSUME NEW H \in Holdings, NEW n \in Account, NEW gs, NEW rest,
           gadget \in [Account -> Gadget],
           \A m \in Account : GadgetOK(H, m, gadget[m]) /\ RoundOK(gadget[m]),
           DOMAIN rest \subseteq [to : Account, msg : Message],
           \A p \in DOMAIN rest : MessageOK(H, p.msg),
           \A g \in gs : GadgetOK(H, n, g) /\ RoundOK(g),
           Handle(n, gs, rest)
    PROVE  /\ gadget' \in [Account -> Gadget]
           /\ \A m \in Account : GadgetOK(H, m, gadget'[m]) /\ RoundOK(gadget'[m])
           /\ DOMAIN net' \subseteq [to : Account, msg : Message]
           /\ \A p \in DOMAIN net' : MessageOK(H, p.msg)
<1>1. PICK g \in gs : /\ gadget' = [gadget EXCEPT ![n] = [g EXCEPT !.outbound = {}]]
                      /\ net' = Sent(rest, Publish(n, g.outbound))
  BY DEF Handle
<1> DEFINE h == [g EXCEPT !.outbound = {}]
<1>2. GadgetOK(H, n, g) /\ RoundOK(g)
  BY <1>1
<1>3. h \in Gadget /\ GadgetOK(H, n, h) /\ RoundOK(h)
  BY <1>2 DEF GadgetOK, RoundOK, OpenGadget, Gadget
<1>4. DOMAIN Publish(n, g.outbound) = [to : Account \ {n}, msg : g.outbound]
  BY DEF Publish
<1>5. DOMAIN net' = DOMAIN rest \cup [to : Account \ {n}, msg : g.outbound]
  BY <1>1, <1>4 DEF Sent, (+), SetToBag, BagToSet
<1>6. \A m \in g.outbound : m \in Message /\ MessageOK(H, m)
  BY <1>2 DEF GadgetOK, OpenGadget
<1> HIDE DEF h
<1>7. gadget' = [gadget EXCEPT ![n] = h]
  BY <1>1 DEF h
<1> QED BY <1>3, <1>5, <1>6, <1>7

LEMMA InitIInv == Init => IInv
<1> SUFFICES ASSUME Init PROVE IInv
  OBVIOUS
<1>1. /\ NewCollector(0, 0, {}) \in Collector(0, Nat, {{}, Validators})
      /\ CollectorOK(Blocks, NewCollector(0, 0, {}))
  BY NewCollectorOK
<1>2. NewGadget \in Gadget
  BY <1>1, BlocksAssumption DEF NewGadget, Gadget
<1>3. \A n \in Account : GadgetOK(Blocks, n, NewGadget)
  BY <1>1, BlocksAssumption DEF NewGadget, GadgetOK, OpenGadget
<1>4. RoundOK(NewGadget)
  BY DEF NewGadget, RoundOK
<1>5. DOMAIN net = {}
  BY DEF Init, EmptyBag, SetToBag
<1> HIDE DEF NewGadget
<1> QED BY <1>2, <1>3, <1>4, <1>5 DEF Init, IInv, TypeOK

\* An imported block extends the importer's chain and no other.
LEMMA ImportGrows ==
    ASSUME TypeOK, NEW n \in Account, NEW b \in Block,
           chain' = [chain EXCEPT ![n] = Append(@, b)]
    PROVE  /\ chain' \in [Account -> Seq(Block)]
           /\ b \in Blocks'[n]
           /\ \A v \in Account : Blocks[v] \subseteq Blocks'[v]
<1>1. chain' \in [Account -> Seq(Block)]
  BY DEF TypeOK
<1>2. /\ Len(chain'[n]) = Len(chain[n]) + 1 /\ Len(chain[n]) \in Nat
      /\ chain'[n][Len(chain[n]) + 1] = b
      /\ \A i \in 1..Len(chain[n]) : chain'[n][i] = chain[n][i]
  BY DEF TypeOK
<1>3. b \in Blocks'[n]
  BY <1>2 DEF Blocks, HasBlock
<1>4. ASSUME NEW v \in Account, NEW c \in Blocks[v] PROVE c \in Blocks'[v]
  <2>1. PICK i \in 1..Len(chain[v]) : chain[v][i] = c
    BY DEF Blocks, HasBlock
  <2>2. i \in 1..Len(chain'[v]) /\ chain'[v][i] = c
    BY <1>2, <2>1 DEF TypeOK
  <2> QED BY <2>2 DEF Blocks, HasBlock
<1> QED BY <1>1, <1>3, <1>4

LEMMA ImportStep ==
    ASSUME IInv, NEW n \in Account, NEW b \in Block, ImportBlock(n, b)
    PROVE  IInv'
<1>1. PICK K \in Holdings : K = Blocks'
  BY BlocksType DEF Blocks, Holdings
<1>2. /\ chain' \in [Account -> Seq(Block)] /\ b \in K[n]
      /\ \A v \in Account : Blocks[v] \subseteq K[v]
  BY <1>1, ImportGrows DEF IInv, ImportBlock
<1>3. \A m \in Account : GadgetOK(K, m, gadget[m]) /\ RoundOK(gadget[m])
  BY <1>2, BlocksType, GadgetGrows DEF IInv
<1>4. \A p \in DOMAIN net : MessageOK(K, p.msg)
  BY <1>2, MessageGrows DEF IInv
<1>5. \A g \in on_block_imported(n, gadget[n], b) : GadgetOK(K, n, g) /\ RoundOK(g)
  BY <1>2, <1>3, ImportedOK
<1>6. /\ gadget' \in [Account -> Gadget]
      /\ \A m \in Account : GadgetOK(K, m, gadget'[m]) /\ RoundOK(gadget'[m])
      /\ DOMAIN net' \subseteq [to : Account, msg : Message]
      /\ \A p \in DOMAIN net' : MessageOK(K, p.msg)
  BY <1>3, <1>4, <1>5, HandleOK DEF IInv, TypeOK, ImportBlock
<1> QED BY <1>1, <1>2, <1>6 DEF IInv, TypeOK

LEMMA DeliverStep ==
    ASSUME IInv, NEW p \in DOMAIN net, Deliver(p)
    PROVE  IInv'
<1> DEFINE n == p.to
           gs == IF p.msg.kind = "Vote"
                 THEN on_vote(n, gadget[n], p.msg.vote)
                 ELSE handle_finalized_announcement(n, gadget[n], p.msg.target)
<1>1. /\ n \in Account /\ p.msg \in Message /\ MessageOK(Blocks, p.msg)
      /\ GadgetOK(Blocks, n, gadget[n]) /\ RoundOK(gadget[n])
  BY DEF IInv, TypeOK
<1>2. DOMAIN Delivered(p) \subseteq DOMAIN net
  BY DEF Delivered, (-)
<1>3. ASSUME NEW g \in gs PROVE GadgetOK(Blocks, n, g) /\ RoundOK(g)
  <2>1. CASE p.msg.kind = "Vote"
    <3>1. /\ p.msg.vote \in FinalityVote({0}, Nat)
          /\ MessageOK(Blocks, VoteMessage(p.msg.vote))
      BY <1>1, <2>1 DEF Message, MessageOK, VoteMessage
    <3> QED BY <1>1, <1>3, <2>1, <3>1, BlocksType, OnVoteOK
  <2>2. CASE p.msg.kind # "Vote"
    <3>1. Backed(Blocks, p.msg.target)
      BY <1>1, <2>2 DEF Message, MessageOK
    <3> QED BY <1>1, <1>3, <2>2, <3>1, BlocksType, AnnouncementOK
  <2> QED BY <2>1, <2>2
<1>4. Handle(n, gs, Delivered(p)) /\ UNCHANGED chain
  BY DEF Deliver
<1> HIDE DEF n, gs
<1>5. /\ gadget' \in [Account -> Gadget]
      /\ \A m \in Account : GadgetOK(Blocks, m, gadget'[m]) /\ RoundOK(gadget'[m])
      /\ DOMAIN net' \subseteq [to : Account, msg : Message]
      /\ \A q \in DOMAIN net' : MessageOK(Blocks, q.msg)
  BY <1>1, <1>2, <1>3, <1>4, BlocksType, HandleOK DEF IInv, TypeOK
<1>6. Blocks' = Blocks
  BY <1>4 DEF Blocks, HasBlock
<1> QED BY <1>4, <1>5, <1>6 DEF IInv, TypeOK

LEMMA TickStep ==
    ASSUME IInv, NEW n \in Account, NEW timed_out \in BOOLEAN, Tick(n, timed_out)
    PROVE  IInv'
<1>1. \A g \in tick(n, gadget[n], timed_out) : GadgetOK(Blocks, n, g) /\ RoundOK(g)
  BY BlocksType, TickOK DEF IInv
<1>2. /\ gadget' \in [Account -> Gadget]
      /\ \A m \in Account : GadgetOK(Blocks, m, gadget'[m]) /\ RoundOK(gadget'[m])
      /\ DOMAIN net' \subseteq [to : Account, msg : Message]
      /\ \A q \in DOMAIN net' : MessageOK(Blocks, q.msg)
  BY <1>1, BlocksType, HandleOK DEF IInv, TypeOK, Tick
<1>3. chain' = chain /\ Blocks' = Blocks
  BY DEF Tick, Blocks, HasBlock
<1> QED BY <1>2, <1>3 DEF IInv, TypeOK

LEMMA NextIInv == IInv /\ [Next]_vars => IInv'
<1> SUFFICES ASSUME IInv, [Next]_vars PROVE IInv'
  OBVIOUS
<1>1. CASE \E n \in Account, b \in Block : ImportBlock(n, b)
  BY <1>1, ImportStep
<1>2. CASE \E p \in DOMAIN net : Deliver(p)
  BY <1>2, DeliverStep
<1>3. CASE \E n \in Account, timed_out \in BOOLEAN : Tick(n, timed_out)
  BY <1>3, TickStep
<1>4. CASE UNCHANGED vars
  <2>1. Blocks' = Blocks
    BY <1>4 DEF vars, Blocks, HasBlock
  <2> QED BY <1>4, <2>1 DEF vars, IInv, TypeOK
<1> QED BY <1>1, <1>2, <1>3, <1>4 DEF Next

LEMMA SpecIInv == Spec => []IInv
  BY InitIInv, NextIInv, PTL DEF Spec

\* The gadgets and the packets of any network keep their types.
THEOREM TypeCorrect == Spec => []TypeOK
<1>1. IInv => TypeOK
  BY DEF IInv
<1> QED BY <1>1, SpecIInv, PTL

\* A node has a round running exactly while it has blocks to finalize.
THEOREM PendingBlocksHaveRounds == Spec => []PendingHasRound
<1>1. IInv => PendingHasRound
  BY DEF IInv, PendingHasRound, RoundOK
<1> QED BY <1>1, SpecIInv, PTL

\* Agreement: no two nodes ever finalize, or justify, blocks that conflict, for
\* any number of validators and any loss, delay, repetition or reordering.
THEOREM Agreement == Spec => []FinalizedOnOneChain
<1>1. IInv => FinalizedOnOneChain
  <2> SUFFICES ASSUME IInv, NEW n \in Account, NEW m \in Account,
                      NEW b \in Block, NEW c \in Block,
                      FinalizedAt(n, b), FinalizedAt(m, c)
               PROVE  \E v \in Validators : HasBlock(v, b) /\ HasBlock(v, c)
    BY DEF FinalizedOnOneChain
  <2>1. Backed(Blocks, b) /\ Backed(Blocks, c)
    BY DEF IInv, GadgetOK, FinalizedAt, Block
  <2>2. PICK v \in Validators : b \in Blocks[v] /\ c \in Blocks[v]
    BY <2>1, BackedTogether
  <2> QED BY <2>2, ValidatorsAssumption DEF Blocks
<1> QED BY <1>1, SpecIInv, PTL
=============================================================================
