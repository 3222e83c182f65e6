------------------------------ MODULE WarpSync ------------------------------
(* Warp synchronisation (network/warp_sync.rs): a snapshot of the accounts  *)
(* in chunks, each with a Merkle proof, and the manager that collects them. *)
(* The hash of two nodes is the pair, a chunk's hash is its contents, so    *)
(* equal hashes mean equal data.                                            *)
EXTENDS Integers, Sequences, SequencesExt, FiniteSets, FiniteSetsExt, Functions

CONSTANTS
    Content,            \* what the accounts of a chunk may be
    MaxChunks,          \* bound: chunks of a snapshot
    MaxSnapshots,       \* bound: snapshots that peers offer
    WARP_THRESHOLD, MAX_SNAPSHOT_AGE,
    MaxWarpHeight       \* bound: heights

VARIABLES
    warp,         \* WarpSyncManager
    published     \* history: the snapshots whose headers the manager took

warpVars == <<warp, published>>

NoHeader == [block_number |-> -1]

-----------------------------------------------------------------------------
(* Merkle trees of at most MaxChunks leaves; Height bounds the levels.      *)

\* One level up: pairs, an odd last node paired with itself.
NextLevel(level) ==
    [i \in 1..((Len(level) + 1) \div 2) |->
        <<level[2 * i - 1], IF 2 * i <= Len(level) THEN level[2 * i] ELSE level[2 * i - 1]>>]

\* The levels of the tree from the leaves to the root.
Levels(leaves) ==
    LET f[h \in 0..MaxChunks] ==
          IF h = 0 THEN <<leaves>>
          ELSE LET below == f[h - 1]
               IN  IF Len(Last(below)) <= 1 THEN below ELSE Append(below, NextLevel(Last(below)))
    IN  f[MaxChunks]

compute_merkle_root(leaves) == Last(Levels(leaves))[1]

\* index >> h, counted from 0
Shifted(index, h) == index \div 2^h

generate_merkle_proof(leaves, index) ==
    LET levels == Levels(leaves)
    IN  [h \in 1..(Len(levels) - 1) |->
            LET i == Shifted(index, h - 1)
                sibling == IF i % 2 = 0 THEN i + 1 ELSE i - 1
            IN  levels[h][IF sibling < Len(levels[h]) THEN sibling + 1 ELSE i + 1]]

\* ceil(log2(total))
ProofLen(total) == CHOOSE n \in 0..total : 2^n >= total /\ (n = 0 \/ 2^(n - 1) < total)

\* The root that a proof leads to.
Climb(leaf, index, proof) ==
    LET f[h \in 0..Len(proof)] ==
          IF h = 0 THEN leaf
          ELSE IF Shifted(index, h - 1) % 2 = 0 THEN <<f[h - 1], proof[h]>>
               ELSE <<proof[h], f[h - 1]>>
    IN  f[Len(proof)]

verify_merkle_proof(chunk, root, total) ==
    IF chunk.proof = << >> THEN total = 1 /\ chunk.content = root
    ELSE Len(chunk.proof) = ProofLen(total)
         /\ Climb(chunk.content, chunk.index, chunk.proof) = root

\* StateSnapshot::new
Snapshot(number, contents) ==
    [header |-> [block_number |-> number, root |-> compute_merkle_root(contents),
                 total_chunks |-> Len(contents)],
     chunks |-> [i \in 1..Len(contents) |->
                   [index |-> i - 1, content |-> contents[i],
                    proof |-> generate_merkle_proof(contents, i - 1)]]]

\* StateSnapshot::verify
verify(snapshot) ==
    /\ Len(snapshot.chunks) = snapshot.header.total_chunks
    /\ \A i \in 1..Len(snapshot.chunks) :
          /\ snapshot.chunks[i].index = i - 1
          /\ verify_merkle_proof(snapshot.chunks[i], snapshot.header.root,
                                 snapshot.header.total_chunks)

-----------------------------------------------------------------------------
(* WarpSyncManager *)

WarpInit ==
    /\ warp = [state |-> "Inactive", local_height |-> 0, network_height |-> 0,
               header |-> NoHeader, received |-> << >>, verified |-> << >>]
    /\ published = {}

check_warp_needed(w) ==
    IF w.state = "Inactive" /\ w.network_height - w.local_height > WARP_THRESHOLD
    THEN [w EXCEPT !.state = "RequestingSnapshot"] ELSE w

update_warp_height(height) ==
    /\ warp' = check_warp_needed([warp EXCEPT !.local_height = height])
    /\ UNCHANGED published

warp_peer_height(height) ==
    /\ height > warp.network_height
    /\ warp' = check_warp_needed([warp EXCEPT !.network_height = height])
    /\ UNCHANGED published


\* The header of a snapshot that some peer made.
handle_snapshot_header(number, contents) ==
    LET snapshot == Snapshot(number, contents)
    IN  /\ warp.network_height - number <= MAX_SNAPSHOT_AGE
        /\ warp' = [warp EXCEPT !.header = snapshot.header, !.received = << >>,
                                !.state = "DownloadingState"]
        /\ published' = published \union {contents}

\* A chunk from some peer: of this snapshot or of another one.
handle_state_chunk(chunk) ==
    /\ warp.header # NoHeader
    /\ chunk.index < warp.header.total_chunks
    /\ verify_merkle_proof(chunk, warp.header.root, warp.header.total_chunks)
    /\ LET received == [i \in DOMAIN warp.received \union {chunk.index} |->
                          IF i = chunk.index THEN chunk ELSE warp.received[i]]
       IN  warp' = [warp EXCEPT !.received = received,
                      !.state = IF Cardinality(DOMAIN received) = warp.header.total_chunks
                                THEN "VerifyingState" ELSE "DownloadingState"]
    /\ UNCHANGED published

\* verify_state takes the header, and removes the chunks up to the first missing one,
\* before it can fail; only a snapshot that does not verify sets the state.
verify_state ==
    LET total == warp.header.total_chunks
        missing == {i \in 0..(total - 1) : i \notin DOMAIN warp.received}
        taken == IF missing = {} THEN 0..(total - 1) ELSE 0..(Min(missing) - 1)
        snapshot == [header |-> warp.header,
                     chunks |-> [i \in 1..total |-> warp.received[i - 1]]]
        rest == [warp EXCEPT !.header = NoHeader,
                             !.received = Restrict(@, DOMAIN @ \ taken)]
    IN  /\ warp.header # NoHeader
        /\ warp' = IF missing # {} THEN rest
                   ELSE IF verify(snapshot)
                        THEN [rest EXCEPT !.state = "DownloadingHeaders",
                                !.verified = [i \in 1..total |-> snapshot.chunks[i].content]]
                        ELSE [rest EXCEPT !.state = "Failed"]
        /\ UNCHANGED published

complete == warp' = [warp EXCEPT !.state = "Complete"] /\ UNCHANGED published

fail == warp' = [warp EXCEPT !.state = "Failed"] /\ UNCHANGED published

Contents == UNION {[1..n -> Content] : n \in 1..MaxChunks}

WarpStep ==
    \/ \E height \in 0..MaxWarpHeight : update_warp_height(height) \/ warp_peer_height(height)
    \/ \E number \in 0..MaxWarpHeight, contents \in Contents :
          /\ Cardinality(published \union {contents}) <= MaxSnapshots
          /\ handle_snapshot_header(number, contents)
    \/ \E contents \in published : \E i \in 1..Len(contents) :
          handle_state_chunk(Snapshot(0, contents).chunks[i])
    \/ verify_state
    \/ complete
    \/ fail

-----------------------------------------------------------------------------
WarpTypeOK ==
    warp.state \in {"Inactive", "RequestingSnapshot", "DownloadingState", "VerifyingState",
                    "DownloadingHeaders", "Complete", "Failed"}

=============================================================================
