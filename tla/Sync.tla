------------------------------- MODULE Sync -------------------------------
(***************************************************************************)
(* Block synchronisation of one node: SyncManager (kratos-core/src/        *)
(* network/sync.rs), the requests of NetworkService (network/service.rs)   *)
(* and the handlers of KratOsNode (node/service.rs) that import what the   *)
(* network delivers.                                                       *)
(*                                                                         *)
(* The peers follow one valid chain: a block is its number.  They answer   *)
(* with any part of the blocks asked for, since an answer may be old or    *)
(* the provider's lock taken; gossip may be lost or late.  An import fails *)
(* at most MaxFailures times, for reasons of the node.  The loop           *)
(* (cli/runner.rs) polls the network until nothing is ready and then       *)
(* handles the events of the poll; `phase` tells which of both it does.    *)
(***************************************************************************)
EXTENDS Integers, Sequences, FiniteSetsExt, Functions, TLC

CONSTANTS
    Peer,
    BATCH,                      \* blocks per request (50)
    SYNC_THRESHOLD,             \* 10
    FAR_BEHIND,                 \* 1000
    MAX_PENDING_SYNC_REQUESTS,  \* 3
    EARLY_HEIGHT,               \* 10, in is_synced
    MaxHeight, MaxEvents, MaxFailures    \* bounds

ASSUME SyncAssumption ==
    /\ BATCH \in Nat \ {0} /\ SYNC_THRESHOLD \in Nat \ {0} /\ FAR_BEHIND > SYNC_THRESHOLD
    /\ MAX_PENDING_SYNC_REQUESTS \in Nat \ {0}

VARIABLES
    node,       \* the node
    remote,     \* the height of each peer's chain
    gossip      \* announcements of blocks in flight

syncVars == <<node, remote, gossip>>

SyncState == {"Synced", "Downloading", "FarBehind", "Idle"}

\* Numbers of requests for blocks; a request for the status has its peer as number.
RequestId == 1..MAX_PENDING_SYNC_REQUESTS

\* peers: what the peer manager knows; requests: pending_requests by number.
SyncInit ==
    /\ node = [height |-> 0, state |-> "Idle", best_known_height |-> 0, pending_blocks |-> {},
               requests |-> <<>>, pending_sync_requests |-> 0, recent |-> FALSE,
               peers |-> [p \in Peer |-> [connected |-> FALSE, best_height |-> 0]],
               events |-> <<>>, phase |-> "poll", failures |-> 0]
    /\ remote \in [Peer -> 0..MaxHeight]
    /\ gossip = {}

sync_gap(s) == IF s.best_known_height > s.height THEN s.best_known_height - s.height ELSE 0

update_state(s) ==
    LET gap == sync_gap(s)
        effective_threshold == IF s.height = 0 THEN 0 ELSE SYNC_THRESHOLD
    IN  [s EXCEPT !.state = IF gap = 0 THEN "Synced"
                            ELSE IF gap > FAR_BEHIND THEN "FarBehind"
                            ELSE IF gap > effective_threshold THEN "Downloading" ELSE "Synced"]

\* Buffered blocks that the chain has passed stay in pending_blocks and are never
\* looked at again; the model leaves them out.
update_local_state(s, height) ==
    update_state([s EXCEPT !.height = height, !.pending_blocks = {n \in @ : n > height}])

\* update_peer_height and peer_height_update.
peer_height_update(s, p, height) ==
    update_state([s EXCEPT !.peers[p].best_height = Max({@, height}),
                           !.best_known_height = Max({@, height})])

\* Mutant: a node that is far behind leaves it to another kind of synchronisation.
should_sync_near(s) == s.state = "Downloading"

should_sync(s) == s.state \in {"Downloading", "FarBehind"}

is_synced(s) == IF s.height < EARLY_HEIGHT THEN sync_gap(s) = 0 ELSE sync_gap(s) <= 1

\* For each of the blocks; the others are not ahead, or too far.
add_downloaded_block(s, blocks) ==
    [s EXCEPT !.pending_blocks =
        @ \cup {n \in blocks : n > s.height /\ n <= s.best_known_height + 100}]

Request(s, id, r) == [s EXCEPT !.requests = (id :> r) @@ @]

\* The peers among which HashMap order and score decide.
best_sync_peers(s) ==
    LET able == {p \in Peer : s.peers[p].connected /\ s.peers[p].best_height > 0}
    IN  {p \in able : \A q \in able : s.peers[q].best_height <= s.peers[p].best_height}

\* The possible results: unchanged where it returns early.
maybe_start_sync(s) ==
    IF /\ should_sync(s) /\ ~s.recent
       /\ s.pending_sync_requests < MAX_PENDING_SYNC_REQUESTS
       /\ best_sync_peers(s) # {}
    THEN {Request([s EXCEPT !.recent = TRUE, !.pending_sync_requests = @ + 1],
                  Min(RequestId \ DOMAIN s.requests),
                  [type |-> "Sync", peer |-> p, from |-> s.height + 1]) : p \in best_sync_peers(s)}
    ELSE {s}

Emit(s, event) == [s EXCEPT !.events = Append(@, event)]

-----------------------------------------------------------------------------
(* NetworkService: one swarm event.                                        *)

Poll == node.phase = "poll" /\ Len(node.events) < MaxEvents

\* ConnectionEstablished: request_status.  The requests of an earlier connection have failed.
connection_established(p) ==
    /\ Poll /\ ~node.peers[p].connected
    /\ \A id \in DOMAIN node.requests : node.requests[id].peer # p
    /\ node' = Request([node EXCEPT !.peers[p].connected = TRUE], p, [type |-> "Status", peer |-> p])
    /\ UNCHANGED <<remote, gossip>>

connection_closed(p) ==
    /\ Poll /\ node.peers[p].connected
    /\ node' = [node EXCEPT !.peers[p].connected = FALSE]
    /\ UNCHANGED <<remote, gossip>>

\* A block far ahead is dropped while the node synchronises.
handle_gossip_message(m) ==
    LET s == peer_height_update(node, m.from, m.number)
    IN  /\ Poll
        /\ IF should_sync(s) /\ m.number > s.height + 1
           THEN node' \in maybe_start_sync(s)
           ELSE node' = Emit(s, [type |-> "Block", number |-> m.number])
        /\ gossip' = gossip \ {m}
        /\ UNCHANGED remote

outbound_failure(id) ==
    /\ Poll
    /\ node' = [node EXCEPT !.requests = Restrict(@, DOMAIN @ \ {id}),
                            !.pending_sync_requests =
                                IF node.requests[id].type = "Sync" /\ @ > 0 THEN @ - 1 ELSE @]
    /\ UNCHANGED <<remote, gossip>>

\* StatusRequest of a peer.
handle_status_request(p) ==
    /\ Poll /\ node.peers[p].connected
    /\ node' = peer_height_update(node, p, remote[p])
    /\ UNCHANGED <<remote, gossip>>

handle_status_response(id) ==
    LET p == node.requests[id].peer
        s == peer_height_update([node EXCEPT !.requests = Restrict(@, DOMAIN @ \ {id})], p, remote[p])
        threshold == IF s.height = 0 THEN 0 ELSE SYNC_THRESHOLD
    IN  /\ Poll /\ node.requests[id].type = "Status"
        /\ IF remote[p] > s.height + threshold
           THEN node' \in maybe_start_sync(Emit(s, [type |-> "SyncNeeded"]))
           ELSE node' = s
        /\ UNCHANGED <<remote, gossip>>

\* Mutant: an answered request counts as pending.
answer_uncounted(id, k) ==
    LET r == node.requests[id]
        last == r.from + k - 1
        s == peer_height_update(
                 [node EXCEPT !.requests = Restrict(@, DOMAIN @ \ {id})], r.peer, remote[r.peer])
    IN  /\ Poll
        /\ node' \in {Emit(s, [type |-> "SyncBlocks", from |-> r.from, last |-> last, has_more |-> FALSE])}
        /\ UNCHANGED <<remote, gossip>>

\* The peer sends k blocks; all of them are buffered before the node sees them.
handle_sync_response(id, k) ==
    LET r == node.requests[id]
        last == r.from + k - 1
        heard == peer_height_update(
                     [node EXCEPT !.requests = Restrict(@, DOMAIN @ \ {id}),
                                  !.pending_sync_requests = IF @ > 0 THEN @ - 1 ELSE 0],
                     r.peer, remote[r.peer])
        s == Emit(add_downloaded_block(heard, r.from..last),
                  [type |-> "SyncBlocks", from |-> r.from, last |-> last, has_more |-> k = BATCH])
    IN  /\ Poll
        /\ node' \in IF k = BATCH THEN maybe_start_sync(s) ELSE {s}
        /\ UNCHANGED <<remote, gossip>>

-----------------------------------------------------------------------------
(* KratOsNode.                                                             *)

\* The end of the poll, and of the events it emitted.
switch_phase ==
    /\ \/ node.phase = "poll" /\ node.events # <<>> /\ node' = [node EXCEPT !.phase = "process"]
       \/ node.phase = "process" /\ node.events = <<>> /\ node' = [node EXCEPT !.phase = "poll"]
    /\ UNCHANGED <<remote, gossip>>

\* try_import_buffered_blocks: j blocks are imported, and the loop ends because the
\* next one is not there, or because its import fails and it is lost.
try_import_buffered_blocks(s) ==
    LET Run(j) == (s.height + 1)..(s.height + j) \subseteq s.pending_blocks
        After(j, taken) == [update_local_state(s, s.height + j) EXCEPT
                                !.pending_blocks = {n \in @ : n > s.height + taken}]
        all == CHOOSE j \in 0..MaxHeight : Run(j) /\ ~Run(j + 1)
    IN  {After(all, all)} \cup
        IF s.failures = MaxFailures THEN {}
        ELSE {[After(j, j + 1) EXCEPT !.failures = @ + 1] : j \in 0..(all - 1)}

\* BlockReceived: a block ahead is buffered, the next one imported.
handle_block(s, n) ==
    IF n <= s.height THEN {s}
    ELSE IF n > s.height + 1 THEN {add_downloaded_block(s, {n})}
    ELSE try_import_buffered_blocks(update_local_state(s, n)) \cup
         IF s.failures = MaxFailures THEN {} ELSE {[s EXCEPT !.failures = @ + 1]}

\* SyncBlocksReceived: blocks are imported up to n, where the next import fails or
\* there is no more; the others are buffered, as all are if the first is not next.
handle_sync_blocks(s, from, last) ==
    LET Imported(t, n) == try_import_buffered_blocks(
            add_downloaded_block(update_local_state(t, n), (n + 2)..last))
        failing == [s EXCEPT !.failures = @ + 1]
    IN  IF last <= s.height THEN {s}
        ELSE IF from > s.height + 1 THEN {add_downloaded_block(s, from..last)}
        ELSE Imported(s, last) \cup
             IF s.failures = MaxFailures THEN {}
             ELSE {add_downloaded_block(failing, (s.height + 2)..last)} \cup
                  UNION {Imported(failing, n) : n \in (s.height + 1)..(last - 1)}

handle_network_event ==
    /\ node.phase = "process" /\ node.events # <<>>
    /\ LET e == Head(node.events)
           s == [node EXCEPT !.events = Tail(@)]
       IN  \/ e.type = "Block" /\ node' \in handle_block(s, e.number)
           \/ /\ e.type = "SyncBlocks"
              /\ \E t \in handle_sync_blocks(s, e.from, e.last) :
                    node' \in IF e.has_more THEN maybe_start_sync(t) ELSE {t}
           \/ e.type = "SyncNeeded" /\ node' \in maybe_start_sync(s)
    /\ UNCHANGED <<remote, gossip>>

\* perform_maintenance of the runner.
maintenance ==
    /\ node.phase = "poll" /\ node.events = <<>> /\ ~is_synced(node)
    /\ node' \in maybe_start_sync(node)
    /\ UNCHANGED <<remote, gossip>>

\* MIN_SYNC_INTERVAL_MS is over.
interval_over ==
    /\ node.recent /\ node' = [node EXCEPT !.recent = FALSE]
    /\ UNCHANGED <<remote, gossip>>

-----------------------------------------------------------------------------
(* The peers.                                                              *)

peer_grows(p) ==
    /\ remote[p] < MaxHeight
    /\ remote' = [remote EXCEPT ![p] = @ + 1]
    /\ gossip' \in {gossip, gossip \cup {[from |-> p, number |-> remote[p] + 1]}}
    /\ UNCHANGED node

\* handle_incoming_request: how many blocks a peer sends of those asked for.  None if its
\* storage is locked at the moment, fewer than it has now if it answered earlier.
Served(p, from) == 0..Max({0, Min({BATCH, remote[p] + 1 - from})})

gossip_lost(m) == gossip' = gossip \ {m} /\ UNCHANGED <<node, remote>>

Answer(id) ==
    LET r == node.requests[id]
    IN  \/ handle_status_response(id)
        \/ r.type = "Sync" /\ \E k \in Served(r.peer, r.from) : handle_sync_response(id, k)

SyncStep ==
    \/ \E p \in Peer :
          connection_established(p) \/ connection_closed(p) \/ handle_status_request(p) \/ peer_grows(p)
    \/ \E m \in gossip : handle_gossip_message(m) \/ gossip_lost(m)
    \/ \E id \in DOMAIN node.requests : outbound_failure(id) \/ Answer(id)
    \/ handle_network_event \/ switch_phase \/ maintenance \/ interval_over

\* The loop runs, time passes, and a request is answered or fails.  Of the answers
\* to requests for blocks that are repeated for ever, some bring all that was asked for.
FullAnswer(id) ==
    LET r == node.requests[id]
    IN  r.type = "Sync" /\ handle_sync_response(id, Max(Served(r.peer, r.from)))

SyncFairness ==
    /\ WF_syncVars(handle_network_event \/ switch_phase)
    /\ WF_syncVars(maintenance) /\ WF_syncVars(interval_over)
    /\ \A id \in RequestId :
          WF_syncVars(id \in DOMAIN node.requests /\ (outbound_failure(id) \/ Answer(id)))
    /\ SF_syncVars(\E id \in DOMAIN node.requests : FullAnswer(id))

-----------------------------------------------------------------------------
(* Properties.                                                             *)

\* The node keeps its types; it never imports past the chain of its peers, and never
\* knows of a height that no peer has.  The state of the sync manager is that of its
\* heights as soon as one is known (update_state), so that blocks are requested, and
\* gossip is deferred, only while the node is behind.
SyncTypeOK ==
    /\ node.state \in SyncState /\ node.state \in {"Idle", update_state(node).state}
    /\ node.height \in 0..Max(Range(remote)) /\ node.best_known_height \in 0..Max(Range(remote))
    /\ node.pending_blocks \subseteq 1..Max(Range(remote))
    /\ \A p \in Peer : node.peers[p].best_height <= remote[p]
    /\ node.failures <= MaxFailures

\* pending_sync_requests is the number of requests for blocks that are pending: an
\* answer and a failure take a request out of the table and of the counter, in
\* whatever order and however many are in flight.
RequestsCounted ==
    /\ node.pending_sync_requests =
           Cardinality({id \in DOMAIN node.requests : node.requests[id].type = "Sync"})
    /\ node.pending_sync_requests <= MAX_PENDING_SYNC_REQUESTS

\* What the node keeps of heights and of requests agrees with its peers and with each
\* other: the two facts above (update_state, handle_sync_response).
SyncStateAgrees == SyncTypeOK /\ RequestsCounted

Behind == node.state \in {"Downloading", "FarBehind"}

\* The best peer is there to be asked.
Reachable ==
    \E p \in Peer : node.peers[p].connected /\ node.peers[p].best_height = node.best_known_height

\* maybe_start_sync: a node that is far behind gets within the threshold, though requests
\* fail, answers bring less than asked for, imports fail and gossip is lost, unless
\* it loses the peer.  (Within the threshold it asks for nothing and waits for gossip.)
CatchesUp == <>[]Reachable => []<>~Behind

-----------------------------------------------------------------------------
(* The instance for TLC: a node with two peers.                             *)

SyncSpec == SyncInit /\ [][SyncStep]_syncVars /\ SyncFairness

\* One peer grows and announces its blocks; the other is one to fall back on, with
\* its chain two blocks long.  The second peer, gossip in flight, several requests or
\* events and failed imports come one at a time.
BoundSync ==
    LET static == CHOOSE p \in Peer : TRUE
        busy == Cardinality(DOMAIN node.requests) > 1 \/ Len(node.events) > 1
        InUse == <<node.peers[static].best_height > 0, gossip # {}, busy, node.failures > 0>>
    IN  /\ Cardinality({n \in DOMAIN InUse : InUse[n]}) <= 1
        /\ remote[static] = 2 /\ Cardinality(gossip) <= 1 /\ \A m \in gossip : m.from # static
=============================================================================
