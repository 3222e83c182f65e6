------------------------------- MODULE Wallet -------------------------------
(* The wallet (kratos-wallet), the RPC server that takes its calls          *)
(* (rpc/server.rs) and the node's loop that answers them one at a time      *)
(* (cli/runner.rs).                                                         *)
(*                                                                          *)
(* The wallet waits for each answer; a call it gave up is still in the      *)
(* server's channel and is executed later.  The history file is truncated   *)
(* and then written, so a crash between the two leaves an unreadable one,    *)
(* which reads as empty.                                                    *)
(* The pool and the chain are the node's as the wallet meets them: one      *)
(* transaction of the account per nonce, replaced by one with a higher fee. *)
(* A transaction is its number; two transactions differ in their timestamp. *)
(*                                                                          *)
(* due is history: what the wallet knew when it started to write the file.  *)
EXTENDS Integers, Sequences, SequencesExt

CONSTANTS
    PENDING_SECONDS,       \* age from which a pending record is shown as confirmed, 120
    SECONDS_PER_BLOCK,     \* 6
    MAX_SCAN_BLOCKS,       \* 1000
    HistoryLimit,          \* records the wallet asks for, 100
    BaseFee,               \* kind of transaction -> its fee, which grows with the kind
    MaxMade, MaxBlocks, MaxWait, MaxWalletCrashes   \* bounds

VARIABLES
    ui,       \* [screen, kind, tx, copy]: what the wallet waits for and works on
    channel,  \* calls not yet handled: [method, tx, waiting]
    reply,    \* the answer on its way to the wallet
    file,     \* the history file: [torn, records], newest first
    own,      \* the node: [blocks, pool, nonce]; a block is the transactions of the account
    seconds, made, walletCrashes, due

walletVars == <<ui, channel, reply, file, own, seconds, made, walletCrashes, due>>

NoReply == [none |-> TRUE]
Failed == [error |-> TRUE]
Nothing == [id |-> 0, kind |-> "transfer", nonce |-> 0, timestamp |-> 0]
Menu == [screen |-> "menu", kind |-> "transfer", tx |-> Nothing, copy |-> <<>>]

WalletInit ==
    /\ ui = Menu /\ channel = <<>> /\ reply = NoReply
    /\ file = [torn |-> FALSE, records |-> <<>>]
    /\ own = [blocks |-> <<>>, pool |-> {}, nonce |-> 0]
    /\ seconds = 0 /\ made = 0 /\ walletCrashes = 0 /\ due = {}

Ids(history) == {r.id : r \in ToSet(history)}

load_history == file.records

\* TransactionHistory::add
add(history, record) ==
    IF record.id \in Ids(history) THEN history ELSE <<record>> \o history

new_sent(tx) == [id |-> tx.id, status |-> "Pending", block |-> -1, timestamp |-> tx.timestamp]

\* RpcClient::call and the server's handler, which passes the call on to the node
call(method, tx, next) ==
    /\ channel' = Append(channel, [method |-> method, tx |-> tx, waiting |-> TRUE])
    /\ ui' = next
    /\ reply' = NoReply

\* save_history, first half: the file is truncated, and copy is what will be written.
save_history(history) ==
    /\ file' = [torn |-> TRUE, records |-> <<>>]
    /\ ui' = [Menu EXCEPT !.screen = "save", !.copy = history]

-----------------------------------------------------------------------------
(* The wallet                                                               *)

send_krat ==
    /\ ui.screen = "menu" /\ made < MaxMade
    /\ call("get_nonce", Nothing, [Menu EXCEPT !.screen = "nonce"])
    /\ UNCHANGED <<file, own, seconds, made, walletCrashes, due>>

propose_validator ==
    /\ ui.screen = "menu" /\ made < MaxMade
    /\ call("get_nonce", Nothing, [Menu EXCEPT !.screen = "nonce", !.kind = "propose"])
    /\ UNCHANGED <<file, own, seconds, made, walletCrashes, due>>

vote_for_candidate ==
    /\ ui.screen = "menu" /\ made < MaxMade
    /\ call("candidates", Nothing, [Menu EXCEPT !.screen = "candidates", !.kind = "vote"])
    /\ UNCHANGED <<file, own, seconds, made, walletCrashes, due>>

\* vote_for_candidate after the list: a second vote is not sent.
candidates_shown ==
    /\ ui.screen = "candidates" /\ reply \notin {NoReply, Failed}
    /\ IF reply.voted THEN ui' = Menu /\ reply' = NoReply /\ UNCHANGED channel
       ELSE call("get_nonce", Nothing, [ui EXCEPT !.screen = "nonce"])
    /\ UNCHANGED <<file, own, seconds, made, walletCrashes, due>>

\* send_krat and the others, with the nonce: sign and submit
submit_transaction ==
    /\ ui.screen = "nonce" /\ reply \notin {NoReply, Failed}
    /\ LET tx == [id |-> made + 1, kind |-> ui.kind, nonce |-> reply.nonce, timestamp |-> seconds]
       IN  call("submit", tx, [ui EXCEPT !.screen = "submit", !.tx = tx])
    /\ made' = made + 1
    /\ UNCHANGED <<file, own, seconds, walletCrashes, due>>

\* The node took it: a transfer is recorded (add_transaction), a proposal or vote is not.
submitted ==
    /\ ui.screen = "submit" /\ reply \notin {NoReply, Failed}
    /\ reply' = NoReply
    /\ IF ui.kind = "transfer"
       THEN /\ save_history(add(load_history, new_sent(ui.tx)))
            /\ due' = Ids(load_history) \cup {ui.tx.id}
       ELSE ui' = Menu /\ UNCHANGED <<file, due>>
    /\ UNCHANGED <<channel, own, seconds, made, walletCrashes>>

transaction_history ==
    /\ ui.screen = "menu"
    /\ call("history", Nothing, [Menu EXCEPT !.screen = "history", !.copy = load_history])
    /\ due' = Ids(load_history)
    /\ UNCHANGED <<file, own, seconds, made, walletCrashes>>

\* What the node has is confirmed (convert_rpc_transactions), unless it is known already.
convert_rpc_transactions(transactions) ==
    [i \in DOMAIN transactions |->
        [id |-> transactions[i].tx.id, status |-> "Confirmed", block |-> transactions[i].block,
         timestamp |-> transactions[i].tx.timestamp]]

merge_history ==
    /\ ui.screen = "history" /\ reply \notin {NoReply, Failed}
    /\ call("height", Nothing, [ui EXCEPT !.screen = "height", !.copy =
           FoldLeft(add, ui.copy, convert_rpc_transactions(reply.transactions))])
    /\ UNCHANGED <<file, own, seconds, made, walletCrashes, due>>

\* update_pending_transactions, given the height or an error, and the save
update_pending_transactions ==
    /\ ui.screen = "height" /\ reply # NoReply
    /\ save_history([i \in DOMAIN ui.copy |->
           LET r == ui.copy[i] age == seconds - r.timestamp IN
           IF reply # Failed /\ r.status = "Pending" /\ age > PENDING_SECONDS
           THEN [r EXCEPT !.status = "Confirmed", !.block =
                     IF reply.height < age \div SECONDS_PER_BLOCK THEN 0
                     ELSE reply.height - age \div SECONDS_PER_BLOCK]
           ELSE r])
    /\ reply' = NoReply
    /\ UNCHANGED <<channel, own, seconds, made, walletCrashes, due>>

\* save_history, second half
write_all ==
    /\ ui.screen = "save"
    /\ file' = [torn |-> FALSE, records |-> ui.copy] /\ ui' = Menu
    /\ UNCHANGED <<channel, reply, own, seconds, made, walletCrashes, due>>

\* The call fails or the answer comes too late: whatever the node did or will do stands.
call_fails ==
    /\ ui.screen \in {"candidates", "nonce", "submit", "history", "height"} /\ reply # Failed
    /\ channel' = [i \in DOMAIN channel |-> [channel[i] EXCEPT !.waiting = FALSE]]
    /\ IF ui.screen = "height" THEN reply' = Failed /\ UNCHANGED ui
       ELSE reply' = NoReply /\ ui' = Menu
    /\ UNCHANGED <<file, own, seconds, made, walletCrashes, due>>

\* The process ends anywhere, with the file as it is.
wallet_crash ==
    /\ ui.screen # "menu" /\ walletCrashes < MaxWalletCrashes
    /\ ui' = Menu /\ reply' = NoReply
    /\ channel' = [i \in DOMAIN channel |-> [channel[i] EXCEPT !.waiting = FALSE]]
    /\ walletCrashes' = walletCrashes + 1
    /\ UNCHANGED <<file, own, seconds, made, due>>

-----------------------------------------------------------------------------
(* The node                                                                 *)

Fee(tx) == BaseFee[tx.kind]

\* submit_transaction: the outcome for a nonce that is taken depends on the fees.
SubmitTransaction(tx) ==
    LET same == {t \in own.pool : t.nonce = tx.nonce}
    IN  IF \A t \in same : Fee(tx) > Fee(t)
        THEN [ok |-> TRUE, pool |-> (own.pool \ same) \cup {tx}]
        ELSE [ok |-> FALSE, pool |-> own.pool]

\* Mutant: the scan stops before the head.
history_without_head(limit) ==
    LET height == Len(own.blocks)
        first == IF height > MAX_SCAN_BLOCKS THEN height - MAX_SCAN_BLOCKS ELSE 1
        scanned(n) == [i \in 1..Len(own.blocks[n]) |-> [tx |-> own.blocks[n][i], block |-> n]]
        all == FoldLeft(LAMBDA acc, n : scanned(n) \o acc, <<>>,
                        [i \in 1..(height - first) |-> first + i - 1])
    IN  SubSeq(all, 1, IF Len(all) < limit THEN Len(all) ELSE limit)

\* The blocks from the newest to the oldest that is scanned, up to the limit
StateGetTransactionHistory(limit) ==
    LET height == Len(own.blocks)
        first == IF height > MAX_SCAN_BLOCKS THEN height - MAX_SCAN_BLOCKS ELSE 1
        scanned(n) == [i \in 1..Len(own.blocks[n]) |-> [tx |-> own.blocks[n][i], block |-> n]]
        all == FoldLeft(LAMBDA acc, n : scanned(n) \o acc, <<>>,
                        [i \in 1..(height + 1 - first) |-> first + i - 1])
    IN  SubSeq(all, 1, IF Len(all) < limit THEN Len(all) ELSE limit)

Voted == \E n \in DOMAIN own.blocks : \E i \in DOMAIN own.blocks[n] : own.blocks[n][i].kind = "vote"

\* The account's transactions in the blocks that a scan reaches, the newest up to the limit
InReach ==
    LET filled == {n \in DOMAIN own.blocks : own.blocks[n] # <<>>}
    IN  {own.blocks[n][1].id : n \in {n \in filled :
            /\ n + MAX_SCAN_BLOCKS >= Len(own.blocks)
            /\ Cardinality({k \in filled : k > n}) < HistoryLimit}}

\* The loop takes the next call; the answer is dropped if nobody waits for it.
handle_rpc_call ==
    /\ channel # <<>>
    /\ LET c == Head(channel)
           taken == SubmitTransaction(c.tx)
           answer == CASE c.method = "get_nonce" -> [nonce |-> own.nonce]
                       [] c.method = "candidates" -> [voted |-> Voted]
                       [] c.method = "height" -> [height |-> Len(own.blocks)]
                       [] c.method = "history" ->
                              [transactions |-> StateGetTransactionHistory(HistoryLimit)]
                       [] OTHER -> [hash |-> c.tx.id]
           refused == c.method = "submit" /\ ~taken.ok
       IN  /\ own' = IF c.method = "submit" THEN [own EXCEPT !.pool = taken.pool] ELSE own
           /\ IF ~c.waiting THEN UNCHANGED <<ui, reply>>
              ELSE IF refused THEN ui' = Menu /\ reply' = NoReply
              ELSE reply' = answer /\ UNCHANGED ui
           /\ due' = IF c.method = "history" /\ c.waiting THEN due \cup InReach ELSE due
    /\ channel' = Tail(channel)
    /\ UNCHANGED <<file, seconds, made, walletCrashes>>

\* A block, of this node or another, takes the account's next transaction or none.
block_made ==
    /\ Len(own.blocks) < MaxBlocks
    /\ \E txs \in {<<>>} \cup {<<t>> : t \in {t \in own.pool : t.nonce = own.nonce}} :
          own' = [blocks |-> Append(own.blocks, txs), pool |-> own.pool \ ToSet(txs),
                  nonce |-> own.nonce + Len(txs)]
    /\ UNCHANGED <<ui, channel, reply, file, seconds, made, walletCrashes, due>>

\* The pool drops a transaction for one of another account that pays more.
evicted ==
    /\ \E t \in own.pool : own' = [own EXCEPT !.pool = @ \ {t}]
    /\ UNCHANGED <<ui, channel, reply, file, seconds, made, walletCrashes, due>>

seconds_pass ==
    /\ seconds < MaxWait
    /\ seconds' = seconds + 1
    /\ UNCHANGED <<ui, channel, reply, file, own, made, walletCrashes, due>>

BoundWallet == Len(channel) <= 2

WalletStep ==
    \/ send_krat \/ propose_validator \/ vote_for_candidate \/ candidates_shown
    \/ submit_transaction \/ submitted
    \/ transaction_history \/ merge_history \/ update_pending_transactions \/ write_all
    \/ call_fails \/ wallet_crash
    \/ handle_rpc_call \/ block_made \/ evicted \/ seconds_pass

-----------------------------------------------------------------------------
IncludedIds == {own.blocks[n][1].id : n \in {n \in DOMAIN own.blocks : own.blocks[n] # <<>>}}

\* The history shows a transaction once, though it comes from the wallet's own sending and from
\* the node; what it shows as confirmed is in a block or was pending for too long
\* (TransactionHistory::add, update_pending_transactions); and one transaction per nonce is
\* included, though answers are lost and the user sends again.
WalletTypeOK ==
    /\ \A history \in {ui.copy} \cup {load_history} :
          /\ \A i, j \in DOMAIN history : history[i].id = history[j].id => i = j
          /\ \A i \in DOMAIN history : history[i].status = "Confirmed" =>
                \/ history[i].id \in IncludedIds
                \/ seconds - history[i].timestamp > PENDING_SECONDS
    /\ \A m, n \in DOMAIN own.blocks : own.blocks[m] # <<>> /\ own.blocks[n] # <<>>
          /\ own.blocks[m][1].nonce = own.blocks[n][1].nonce => m = n

\* What the wallet writes to the history file has every record the file had, and every
\* transaction of the account that the blocks in the node's reach had when it answered: a payment
\* whose answer was lost is found by the next refresh (transaction_history, add_transaction,
\* StateGetTransactionHistory).
RefreshFindsPayments == ui.screen = "save" => due \subseteq Ids(ui.copy)
=============================================================================
