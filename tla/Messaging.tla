----------------------------- MODULE Messaging -----------------------------
(***************************************************************************)
(* MessagingContract (kratos-core/src/contracts/messaging.rs): messages    *)
(* between chains, relayed with a Merkle proof and delivered if the proof  *)
(* verifies.  A message's type, payload and recipient are carried and not  *)
(* looked at; no code makes a message InOutbox.                            *)
(***************************************************************************)
EXTENDS ContractBase

CONSTANTS
    Chain,
    Root,                    \* state roots
    MAX_MESSAGES_PER_BLOCK,  \* 100
    MESSAGE_EXPIRY,
    BASE_MESSAGE_FEE,
    Fees,                    \* the fees offered
    MaxMessages              \* bound on the messages sent

VARIABLE messaging

MessageStatus == {"Pending", "Relayed", "Delivered", "Failed", "Expired", "Cancelled"}

\* A proof for a leaf of the state with the given root at the given block.
MerkleProof == [root : Root, block_number : 0..MaxBlock, verifies : BOOLEAN]

NoProof == [verifies |-> FALSE]

MessagingInit ==
    messaging = [messages |-> <<>>,
                 outbox |-> [c \in Chain |-> <<>>],
                 inbox |-> [c \in Chain |-> <<>>],
                 next_message_id |-> 1,
                 nonces |-> [c \in Chain |-> [a \in Account |-> 0]],
                 known_state_roots |-> <<>>,
                 messages_per_block |-> [c \in Chain |-> [b \in 0..MaxBlock |-> 0]]]

Message(id) == messaging.messages[id]

register_state_root(chain, block, root) ==
    messaging' = [messaging EXCEPT !.known_state_roots = (<<chain, block>> :> root) @@ @]

send_message(source, target, sender, fee) ==
    LET id == messaging.next_message_id
    IN  /\ id <= MaxMessages
        /\ messaging.messages_per_block[source][current_block] < MAX_MESSAGES_PER_BLOCK
        /\ fee >= BASE_MESSAGE_FEE
        /\ source # target
        /\ messaging' = [messaging EXCEPT
               !.nonces[source][sender] = @ + 1,
               !.next_message_id = id + 1,
               !.messages = (id :> [source_chain |-> source, target_chain |-> target,
                                    sender |-> sender, created_at |-> current_block,
                                    expires_at |-> current_block + MESSAGE_EXPIRY,
                                    status |-> "Pending", inclusion_proof |-> NoProof,
                                    nonce |-> messaging.nonces[source][sender]]) @@ @,
               !.outbox[source] = Append(@, id),
               !.messages_per_block[source][current_block] = @ + 1]

relay_message(id, proof) ==
    /\ Message(id).status = "Pending"
    /\ messaging' = [messaging EXCEPT
           !.messages[id].inclusion_proof = proof,
           !.messages[id].status = "Relayed",
           !.inbox[Message(id).target_chain] = Append(@, id)]

\* A root that is not known is not compared.
Proven(m) ==
    LET key == <<m.source_chain, m.inclusion_proof.block_number>>
    IN  /\ key \in DOMAIN messaging.known_state_roots =>
               m.inclusion_proof.root = messaging.known_state_roots[key]
        /\ m.inclusion_proof.verifies

\* Expiry is tested before the status, whatever the status is.
verify_and_deliver(id) ==
    \/ /\ current_block > Message(id).expires_at
       /\ messaging' = [messaging EXCEPT !.messages[id].status = "Expired"]
    \/ /\ current_block <= Message(id).expires_at
       /\ Message(id).status = "Relayed"
       /\ messaging' = [messaging EXCEPT !.messages[id].status =
              IF Proven(Message(id)) THEN "Delivered" ELSE "Failed"]

cancel_message(id, caller) ==
    /\ Message(id).sender = caller
    /\ Message(id).status = "Pending"
    /\ messaging' = [messaging EXCEPT !.messages[id].status = "Cancelled"]

expire_old_messages ==
    messaging' = [messaging EXCEPT !.messages = [id \in DOMAIN @ |->
        IF current_block > @[id].expires_at /\ @[id].status \in {"Pending", "Relayed"}
        THEN [@[id] EXCEPT !.status = "Expired"] ELSE @[id]]]

MessagingStep ==
    \/ \E c \in Chain, b \in 0..current_block, r \in Root : register_state_root(c, b, r)
    \/ \E source, target \in Chain, a \in Account, fee \in Fees :
          send_message(source, target, a, fee)
    \/ \E id \in DOMAIN messaging.messages :
          \/ \E proof \in MerkleProof : relay_message(id, proof)
          \/ verify_and_deliver(id)
          \/ \E a \in Account : cancel_message(id, a)
    \/ expire_old_messages

-----------------------------------------------------------------------------
(* Properties.                                                             *)

Ids == DOMAIN messaging.messages

\* Messages keep their types; every message waits in the outbox of its source
\* and, from its relay on, in the inbox of its target, once in each.
MessagingTypeOK ==
    /\ \A id \in Ids :
          /\ Message(id).status \in MessageStatus
          /\ Message(id).inclusion_proof \in MerkleProof \cup {NoProof}
          /\ {Message(id).source_chain, Message(id).target_chain} \subseteq Chain
    /\ \A c \in Chain :
          /\ IsInjective(messaging.outbox[c]) /\ IsInjective(messaging.inbox[c])
          /\ Range(messaging.outbox[c]) = {id \in Ids : Message(id).source_chain = c}
          /\ Range(messaging.inbox[c]) =
                 {id \in Ids : /\ Message(id).target_chain = c
                               /\ Message(id).inclusion_proof # NoProof}

\* relay_message, verify_and_deliver, cancel_message, expire_old_messages: what
\* became of a message stands.  A message whose fee was returned is not relayed
\* or delivered, and a failed one is not tried again; only Expired may be written
\* over an outcome.
OutcomeStands ==
    [][\A id \in Ids :
          Message(id).status \in {"Delivered", "Failed", "Cancelled", "Expired"} =>
              messaging'.messages[id].status \in {Message(id).status, "Expired"}]_messaging

\* send_message: the nonces of a sender on a chain number its messages without a
\* gap or a repetition, also past messages that were cancelled or expired.
NoncesNumberMessages ==
    \A c \in Chain, a \in Account :
        LET mine == {id \in Ids : Message(id).source_chain = c /\ Message(id).sender = a}
        IN  /\ {Message(id).nonce : id \in mine} = 0..(messaging.nonces[c][a] - 1)
            /\ Cardinality(mine) = messaging.nonces[c][a]
=============================================================================
