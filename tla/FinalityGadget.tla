--------------------------- MODULE FinalityGadget ---------------------------
(***************************************************************************)
(* The finality gadgets of a network of nodes and the gossip between them  *)
(* (consensus/finality/gadget.rs and rounds.rs, reached through            *)
(* node/finality_integration.rs).                                          *)
(*                                                                         *)
(* A node runs its handlers one at a time (the select! loop of             *)
(* cli/runner.rs), so a handler is one atomic step; what interleaves is    *)
(* the nodes and the gossip.  A gadget is a record and a handler maps it   *)
(* to the set of gadgets it may leave, with the messages it emits in       *)
(* outbound.  The time a message waits in the node's outbound queue is     *)
(* part of the delay of the network, which is unbounded.                   *)
(*                                                                         *)
(* The epoch of the gadget is 0 for the life of the node (nothing in the   *)
(* node calls new_epoch) and the validator set is fixed here.              *)
(***************************************************************************)
EXTENDS VoteCollector, Sequences, Bags

CONSTANTS
    Validators, \* the validator set of every gadget
    Genesis,    \* block 0, the first last_finalized
    parent,     \* parent[b]: the block that b extends
    Redelivery  \* may the network deliver one publication again and again?

ASSUME ValidatorsAssumption ==
    /\ Validators \subseteq Account
    /\ Cardinality(Validators) >= 3     \* MIN_VALIDATORS_FOR_FINALITY

ASSUME BlocksAssumption ==
    /\ Genesis \in Target /\ number[Genesis] = 0
    /\ parent \in [Target \ {Genesis} -> Target]

\* FALSE is the network of the code: each publication reaches a node at most
\* once.  TRUE allows every behaviour of FALSE and more, with fewer states.
ASSUME RedeliveryAssumption == Redelivery \in BOOLEAN

Block == Target \ {Genesis}

VARIABLES
    chain,      \* chain[n]: the blocks node n has imported, in order
    gadget,     \* gadget[n]: the FinalityGadget of node n
    net         \* the bag of packets in flight

vars == <<chain, gadget, net>>

-----------------------------------------------------------------------------
(* Messages.  A vote is published twice, once through the broadcaster's    *)
(* channel and once through outbound_queue, and gossipsub numbers the two  *)
(* publications as different messages; an announcement goes once.          *)

VoteMessage(vote) == [kind |-> "Vote", vote |-> vote]

FinalizedMessage(target) == [kind |-> "Finalized", target |-> target]

Copies(msg) == IF msg.kind = "Vote" /\ ~Redelivery THEN 2 ELSE 1

\* Under Redelivery the number of copies does not matter, only their presence.
Sent(packets, new) ==
    IF Redelivery THEN SetToBag(BagToSet(packets (+) new)) ELSE packets (+) new

\* Gossip reaches every other node and never its own publisher.
Publish(n, msgs) ==
    [p \in [to : Account \ {n}, msg : msgs] |-> Copies(p.msg)]

-----------------------------------------------------------------------------
(* Rounds (rounds.rs).                                                     *)

Vote(n, g, type, target) ==
    [vote_type |-> type, target |-> target, epoch |-> g.collector.epoch,
     round |-> g.collector.round, voter |-> n, sig |-> TRUE]

Emit(g, msg) == [g EXCEPT !.outbound = @ \cup {msg}]

\* The state left by active_round.take(): no round and nothing collected.
NoRound(g) ==
    [g EXCEPT !.has_active_round = FALSE, !.collector = NewCollector(0, 0, {}),
              !.have_prevoted = FALSE, !.have_precommitted = FALSE]

\* RoundManager::start_round with FinalityRound::new.
start_round(g) ==
    [g EXCEPT !.has_active_round = TRUE,
              !.collector = NewCollector(0, g.current_round, Validators),
              !.have_prevoted = FALSE, !.have_precommitted = FALSE]

create_and_broadcast_prevote(n, g, target) ==
    IF n \in Validators /\ ~g.have_prevoted /\ g.collector.state = "Prevoting"
    THEN Emit([g EXCEPT !.have_prevoted = TRUE],
              VoteMessage(Vote(n, g, "Prevote", target)))
    ELSE g

should_precommit(n, g) ==
    g.collector.state = "Precommitting" /\ ~g.have_precommitted /\ n \in Validators

create_and_broadcast_precommit(n, g) ==
    IF should_precommit(n, g) /\ g.collector.best_prevote_target # NoTarget
    THEN Emit([g EXCEPT !.have_precommitted = TRUE],
              VoteMessage(Vote(n, g, "Precommit", g.collector.best_prevote_target)))
    ELSE g

-----------------------------------------------------------------------------
(* The gadget's handlers (gadget.rs).                                      *)

Highest(blocks) == {b \in blocks : \A c \in blocks : number[c] <= number[b]}

start_finality_round(n, g) ==
    {create_and_broadcast_prevote(n, start_round(g), b)
        : b \in Highest(g.pending_blocks)}

\* Mutant: the round ends and no round follows for the blocks still pending.
leave_pending(n, g, finalized) ==
    {[NoRound(g) EXCEPT
        !.last_finalized =
            IF g.has_active_round /\ finalized # NoTarget THEN finalized ELSE @,
        !.pending_blocks =
            IF finalized = NoTarget THEN @
            ELSE {b \in @ : number[b] > number[finalized]}]}

\* complete_current_round: last_finalized moves only if a round was active,
\* and the round number advances only if blocks are still pending.
complete_current_round(n, g, finalized) ==
    LET done ==
          [NoRound(g) EXCEPT
             !.last_finalized =
                 IF g.has_active_round /\ finalized # NoTarget THEN finalized ELSE @,
             !.pending_blocks =
                 IF finalized = NoTarget THEN @
                 ELSE {b \in @ : number[b] > number[finalized]}]
    IN  IF done.pending_blocks = {} THEN {done}
        ELSE start_finality_round(n, [done EXCEPT !.current_round = @ + 1])

on_block_imported(n, g, b) ==
    LET seen == [g EXCEPT !.pending_blocks = @ \cup {b}]
    IN  IF g.has_active_round THEN {seen} ELSE start_finality_round(n, seen)

\* on_vote once the collector c has taken the vote: what a transition does.
after_vote(n, g, c) ==
    LET counted == [g EXCEPT !.collector = c]
        target == finalized_target(c)
        justification == [target |-> target, voters |-> get_precommits_for_best(c)]
        announced ==
            Emit([counted EXCEPT !.justifications = @ \cup {justification}],
                 FinalizedMessage(target))
    IN  IF c.state = g.collector.state THEN {counted}
        ELSE IF c.state = "Precommitting"
             THEN {create_and_broadcast_precommit(n, counted)}
        ELSE complete_current_round(n, announced, target)

on_vote(n, g, vote) ==
    IF /\ g.has_active_round
       /\ vote.epoch = g.collector.epoch /\ vote.round = g.collector.round
    THEN UNION {after_vote(n, g, c) : c \in add_vote(g.collector, vote)}
    ELSE {g}

handle_finalized_announcement(n, g, target) ==
    IF number[target] > number[g.last_finalized]
    THEN complete_current_round(n, g, target)
    ELSE {g}

\* tick, with timed_out the value of is_timed_out() when it runs.  is_done()
\* of rounds.rs holds for every timed out round.
tick(n, g, timed_out) ==
    LET done == is_done(g.collector) \/ timed_out
    IN  IF ~g.has_active_round THEN {g}
        ELSE IF timed_out /\ ~done
             THEN complete_current_round(
                      n, [g EXCEPT !.collector = mark_failed(@)], NoTarget)
        ELSE {create_and_broadcast_precommit(n, g)}

-----------------------------------------------------------------------------
(* The steps of the network.                                               *)

NewGadget ==
    [current_round |-> 0, has_active_round |-> FALSE,
     collector |-> NewCollector(0, 0, {}),
     have_prevoted |-> FALSE, have_precommitted |-> FALSE,
     last_finalized |-> Genesis, pending_blocks |-> {},
     justifications |-> {}, outbound |-> {}]

Init ==
    /\ chain = [n \in Account |-> <<>>]
    /\ gadget = [n \in Account |-> NewGadget]
    /\ net = EmptyBag

\* Node n's gadget becomes one of gs; rest is what else is in flight.
Handle(n, gs, rest) ==
    \E g \in gs :
        /\ gadget' = [gadget EXCEPT ![n] = [g EXCEPT !.outbound = {}]]
        /\ net' = Sent(rest, Publish(n, g.outbound))

Head_(n) == IF chain[n] = <<>> THEN Genesis ELSE chain[n][Len(chain[n])]

\* A block is imported or produced only on top of the node's own head, and
\* the head never moves back: there is no reorganisation.
ImportBlock(n, b) ==
    /\ parent[b] = Head_(n) /\ number[b] = Len(chain[n]) + 1
    /\ chain' = [chain EXCEPT ![n] = Append(@, b)]
    /\ Handle(n, on_block_imported(n, gadget[n], b), net)

Delivered(p) == IF Redelivery THEN net ELSE net (-) SetToBag({p})

\* One copy of a packet is handed to its node.
Deliver(p) ==
    /\ Handle(p.to,
              IF p.msg.kind = "Vote"
              THEN on_vote(p.to, gadget[p.to], p.msg.vote)
              ELSE handle_finalized_announcement(p.to, gadget[p.to], p.msg.target),
              Delivered(p))
    /\ UNCHANGED chain

\* The finality interval of the event loop.
Tick(n, timed_out) ==
    /\ Handle(n, tick(n, gadget[n], timed_out), net)
    /\ UNCHANGED chain

Next ==
    \/ \E n \in Account, b \in Block : ImportBlock(n, b)
    \/ \E p \in DOMAIN net : Deliver(p)
    \/ \E n \in Account, timed_out \in BOOLEAN : Tick(n, timed_out)

Spec == Init /\ [][Next]_vars

-----------------------------------------------------------------------------
(* Properties.                                                             *)

Message ==
    [kind : {"Vote"}, vote : FinalityVote({0}, Nat)]
        \cup [kind : {"Finalized"}, target : Block]

Gadget ==
    [current_round : Nat, has_active_round : BOOLEAN,
     collector : Collector(0, Nat, {{}, Validators}),
     have_prevoted : BOOLEAN, have_precommitted : BOOLEAN,
     last_finalized : Target, pending_blocks : SUBSET Block,
     justifications : SUBSET [target : Block, voters : SUBSET Account],
     outbound : {{}}]

\* The fields of the gadgets and the packets keep their types.
TypeOK ==
    /\ chain \in [Account -> Seq(Block)]
    /\ gadget \in [Account -> Gadget]
    /\ DOMAIN net \subseteq [to : Account, msg : Message]

HasBlock(v, b) == \E i \in 1..Len(chain[v]) : chain[v][i] = b

\* Node n reports block b as finalized, or holds a justification of it.
FinalizedAt(n, b) ==
    \/ b = gadget[n].last_finalized
    \/ \E j \in gadget[n].justifications : j.target = b

\* Whatever the gossip loses, delays, duplicates or reorders, and whichever
\* branch of a fork each node imported, the blocks that any two nodes ever
\* finalized lie on the chain of one validator: no two of them conflict.
FinalizedOnOneChain ==
    \A n, m \in Account : \A b, c \in Block :
        FinalizedAt(n, b) /\ FinalizedAt(m, c) =>
            \E v \in Validators : HasBlock(v, b) /\ HasBlock(v, c)

\* A block waiting in pending_blocks always has a round running for it, and a
\* round runs only while a block waits (complete_current_round starts the next
\* one in the same step): no imported block is left without a vote.
PendingHasRound ==
    \A n \in Account :
        gadget[n].has_active_round <=> gadget[n].pending_blocks # {}

\* "Finalized blocks cannot be reverted": the block a node reports as its last
\* finalized one never moves down.
FinalizedNeverReverts ==
    [][\A n \in Account :
         number[gadget'[n].last_finalized] >= number[gadget[n].last_finalized]]_vars

-----------------------------------------------------------------------------
(* Every packet is eventually delivered, every node eventually imports a   *)
(* block that extends its head, and the event loop ticks for ever: a round *)
(* that is still active after ROUND_TIMEOUT_MS is ticked as timed out.     *)

Fairness ==
    /\ \A n \in Account :
          /\ WF_vars(\E b \in Block : ImportBlock(n, b))
          /\ WF_vars(\E p \in DOMAIN net : p.to = n /\ Deliver(p))
          /\ WF_vars(Tick(n, TRUE))

FairSpec == Spec /\ Fairness

\* "All blocks eventually get finalized", when no message is lost.
AllBlocksFinalized ==
    \A n \in Account, b \in Block :
        HasBlock(n, b) ~> number[gadget[n].last_finalized] >= number[b]
=============================================================================
