------------------------------- MODULE Peers -------------------------------
(* The peer table and the rate limiter of the network service              *)
(* (network/peer.rs, network/rate_limit.rs, and the handlers of             *)
(* network/service.rs that use them).  Time is in units; a window of the    *)
(* limiter is WINDOW units, a ban BAN_DURATION.  Sizes are in units of half *)
(* the largest message.  Counters that only statistics read are left out.   *)
EXTENDS Integers, FiniteSets, FiniteSetsExt, Functions, TLAPS

CONSTANTS
    RemotePeer,          \* peers that may connect
    INITIAL_SCORE, MIN_SCORE, GOOD_SCORE,
    BAD_SCORE, TIMEOUT_SCORE,   \* penalties, as absolute values
    PEER_TIMEOUT, SCORE_DECAY_INTERVAL, STALE_THRESHOLD,
    WINDOW, MAX_MESSAGES, MAX_MESSAGE_SIZE, MAX_BANDWIDTH,
    BAN_DURATION, STATS_LIFETIME, MAX_VIOLATIONS,
    MaxTime              \* bound: end of time

ASSUME PeersAssumption ==
    BAN_DURATION \in Nat /\ STATS_LIFETIME = BAN_DURATION /\ MAX_VIOLATIONS \in Nat \ {0}

VARIABLES
    peerTable,   \* [peers, last_decay]: PeerManager
    limiter,     \* [stats, banned]: NetworkRateLimiter
    time         \* Instant::now()

peersVars == <<peerTable, limiter, time>>

PeerState == {"Connecting", "Connected", "Disconnected", "Banned"}

NewPeer(bootstrap) ==
    [state |-> "Connecting", score |-> INITIAL_SCORE, last_seen |-> time, is_bootstrap |-> bootstrap]

\* entry(..).or_insert_with(PeerInfo::new)
Entry(peers, p) == IF p \in DOMAIN peers THEN peers[p] ELSE NewPeer(FALSE)

\* add_bootstrap_nodes is called before anybody connects.
PeersInit ==
    /\ time = 0
    /\ \E bootstrap \in SUBSET RemotePeer :
          peerTable = [peers |-> [p \in bootstrap |-> NewPeer(TRUE)], last_decay |-> 0]
    /\ limiter = [stats |-> << >>, banned |-> << >>]

With(f, k, v) == [x \in DOMAIN f \union {k} |-> IF x = k THEN v ELSE f[x]]

-----------------------------------------------------------------------------
(* PeerManager *)

SetPeer(p, info) == peerTable' = [peerTable EXCEPT !.peers = With(@, p, info)]

peer_connected(p) ==
    /\ SetPeer(p, [Entry(peerTable.peers, p) EXCEPT !.state = "Connected", !.last_seen = time])
    /\ UNCHANGED <<limiter, time>>

peer_disconnected(p) ==
    /\ p \in DOMAIN peerTable.peers
    /\ SetPeer(p, [peerTable.peers[p] EXCEPT !.state = "Disconnected"])
    /\ UNCHANGED <<limiter, time>>

add_peer_address(p) ==
    /\ SetPeer(p, Entry(peerTable.peers, p))
    /\ UNCHANGED <<limiter, time>>

\* good_block, good_transaction, bad_block, bad_transaction and timeout: only the last
\* one does not touch the peer.
record(p, what) ==
    /\ p \in DOMAIN peerTable.peers
    /\ SetPeer(p, [peerTable.peers[p] EXCEPT
                      !.score = @ + CASE what = "good" -> GOOD_SCORE
                                      [] what = "bad" -> -BAD_SCORE
                                      [] what = "timeout" -> -TIMEOUT_SCORE,
                      !.last_seen = IF what = "timeout" THEN @ ELSE time])
    /\ UNCHANGED <<limiter, time>>

\* PeerManager::ban_peer: the table only (a peer of another genesis), or with the
\* limiter (NetworkService::ban_peer, after an invalid block).
ban_peer(p, limited) ==
    /\ peerTable' = IF p \in DOMAIN peerTable.peers
                    THEN [peerTable EXCEPT !.peers[p].state = "Banned",
                                           !.peers[p].score = MIN_SCORE - 1]
                    ELSE peerTable
    /\ limiter' = IF limited THEN [limiter EXCEPT !.banned = With(@, p, time)] ELSE limiter
    /\ UNCHANGED time

decay_scores(peers) ==
    [p \in DOMAIN peers |->
        [peers[p] EXCEPT !.score = IF @ > INITIAL_SCORE THEN @ - 1
                                   ELSE IF @ < INITIAL_SCORE THEN @ + 1 ELSE @]]

cleanup_stale_peers(peers) ==
    Restrict(peers, {p \in DOMAIN peers :
        \/ peers[p].is_bootstrap
        \/ peers[p].state # "Disconnected"
        \/ time - peers[p].last_seen <= STALE_THRESHOLD})

\* PeerManager::tick
Ticked ==
    LET decays == time - peerTable.last_decay > SCORE_DECAY_INTERVAL
        peers == IF decays THEN decay_scores(peerTable.peers) ELSE peerTable.peers
    IN  [peers |-> cleanup_stale_peers(peers),
         last_decay |-> IF decays THEN time ELSE peerTable.last_decay]

should_disconnect(info) == info.score < MIN_SCORE \/ info.state = "Banned"

peers_to_disconnect(peers) ==
    {p \in DOMAIN peers :
        \/ should_disconnect(peers[p])
        \/ peers[p].state = "Connected" /\ time - peers[p].last_seen > PEER_TIMEOUT}

-----------------------------------------------------------------------------
(* NetworkRateLimiter *)

NewStats == [messages |-> 0, bytes |-> 0, window_start |-> time, violations |-> 0]

StatsOf(l, p) == IF p \in DOMAIN l.stats THEN l.stats[p] ELSE NewStats

maybe_reset_window(s) ==
    IF time - s.window_start >= WINDOW
    THEN [s EXCEPT !.messages = 0, !.bytes = 0, !.window_start = time]
    ELSE s

\* Mutant: the violations survive the ban.
ban_forgotten(l, p) == [l EXCEPT !.banned = Restrict(@, DOMAIN @ \ {p})]

\* What is_banned does to an expired ban, and unban_peer to any.
lift_ban(l, p) ==
    [l EXCEPT !.banned = Restrict(@, DOMAIN @ \ {p}),
              !.stats = IF p \in DOMAIN @ THEN [@ EXCEPT ![p].violations = 0] ELSE @]

is_banned(l, p) == p \in DOMAIN l.banned /\ time - l.banned[p] < BAN_DURATION

record_violation(l, p, s) ==
    LET count == s.violations + 1
    IN  [l EXCEPT !.stats = With(@, p, [s EXCEPT !.violations = count]),
                  !.banned = IF count >= MAX_VIOLATIONS THEN With(@, p, time) ELSE @]

\* check_message: whether the message is let through, and the limiter afterwards.
check_message(p, size) ==
    LET l == IF p \in DOMAIN limiter.banned THEN lift_ban(limiter, p) ELSE limiter
        s == maybe_reset_window(StatsOf(l, p))
        over == s.messages >= MAX_MESSAGES \/ s.bytes + size > MAX_BANDWIDTH * WINDOW
        refused(l2) == [ok |-> FALSE, limiter |-> l2]
    IN  IF is_banned(limiter, p) THEN refused(limiter)
        ELSE IF size > MAX_MESSAGE_SIZE THEN refused(record_violation(l, p, StatsOf(l, p)))
        ELSE IF over THEN refused(record_violation(l, p, s))
        ELSE [ok |-> TRUE, limiter |->
                [l EXCEPT !.stats = With(@, p, [s EXCEPT !.messages = @ + 1, !.bytes = @ + size])]]

\* A gossip message: the limiter first; one that is let through touches its sender when
\* it raises the sender's height, and costs it when it does not decode.
handle_gossipsub(p, size, kind) ==
    LET verdict == check_message(p, size)
    IN  /\ limiter' = verdict.limiter
        /\ peerTable' =
              IF verdict.ok /\ p \in DOMAIN peerTable.peers /\ kind # "other"
              THEN [peerTable EXCEPT !.peers[p].last_seen = time,
                                     !.peers[p].score = IF kind = "garbled" THEN @ - BAD_SCORE ELSE @]
              ELSE peerTable
        /\ UNCHANGED time

unban_peer(p) ==
    /\ limiter' = lift_ban(limiter, p)
    /\ UNCHANGED <<peerTable, time>>

\* NetworkRateLimiter::cleanup
cleanup(l) ==
    [stats |-> Restrict(l.stats, {p \in DOMAIN l.stats :
                   time - l.stats[p].window_start < STATS_LIFETIME}),
     banned |-> Restrict(l.banned, {p \in DOMAIN l.banned : is_banned(l, p)})]

\* The node's maintenance: the limiter only.
cleanup_rate_limiter ==
    /\ limiter' = cleanup(limiter)
    /\ UNCHANGED <<peerTable, time>>

\* NetworkService::perform_maintenance, run by the service's own loop.  A connection that
\* it closes is reported by the swarm, at once here.
perform_maintenance ==
    LET ticked == Ticked
        gone == peers_to_disconnect(ticked.peers)
    IN  /\ limiter' = cleanup(limiter)
        /\ peerTable' = [ticked EXCEPT !.peers =
              [p \in DOMAIN @ |-> IF p \in gone /\ @[p].state \in {"Connected", "Banned"}
                                  THEN [@[p] EXCEPT !.state = "Disconnected"] ELSE @[p]]]
        /\ UNCHANGED time

pass_time == time < MaxTime /\ time' = time + 1 /\ UNCHANGED <<peerTable, limiter>>

PeersStep ==
    \/ \E p \in RemotePeer :
        \/ peer_connected(p) \/ peer_disconnected(p) \/ add_peer_address(p) \/ unban_peer(p)
        \/ \E what \in {"good", "bad", "timeout"} : record(p, what)
        \/ \E limited \in BOOLEAN : ban_peer(p, limited)
        \/ \E size \in 1..(MAX_MESSAGE_SIZE + 1), kind \in {"higher", "garbled", "other"} :
              handle_gossipsub(p, size, kind)
    \/ cleanup_rate_limiter
    \/ perform_maintenance
    \/ pass_time

-----------------------------------------------------------------------------
PeersTypeOK ==
    /\ \A p \in DOMAIN peerTable.peers : peerTable.peers[p].state \in PeerState
    /\ \A p \in DOMAIN limiter.stats :
          limiter.stats[p].messages \in 0..MAX_MESSAGES /\ limiter.stats[p].bytes \in Nat

\* A peer that is not in the limiter's list of bans has fewer violations than a ban takes
\* (record_violation, is_banned, unban_peer and cleanup together): nobody who served a ban
\* is banned again for a single offence.
BansStartAfresh ==
    \A p \in DOMAIN limiter.stats :
        limiter.stats[p].violations >= MAX_VIOLATIONS => p \in DOMAIN limiter.banned

PeersSpec == PeersInit /\ [][PeersStep]_peersVars

-----------------------------------------------------------------------------
(* Proof that bans start afresh, for any peers, limits and times.           *)

\* The statistics of a peer in l: the window began in the past, and with as many
\* violations as a ban takes the peer is banned, since its window began at the earliest.
\* So cleanup, which forgets statistics and bans by their age, never forgets the ban only.
StatsInv(l) ==
    /\ DOMAIN l = {"stats", "banned"}
    /\ \A p \in DOMAIN l.banned : l.banned[p] \in Int
    /\ \A p \in DOMAIN l.stats :
          /\ DOMAIN l.stats[p] = {"messages", "bytes", "window_start", "violations"}
          /\ l.stats[p].window_start \in Int /\ l.stats[p].window_start <= time
          /\ l.stats[p].violations \in Int
          /\ l.stats[p].violations >= MAX_VIOLATIONS =>
                p \in DOMAIN l.banned /\ l.stats[p].window_start <= l.banned[p]

PeersInv == time \in Int /\ StatsInv(limiter)

\* At first the limiter knows nobody.
LEMMA PeersInvInit == PeersInit => PeersInv
BY DEF PeersInit, PeersInv, StatsInv

\* lift_ban, of any peer
LEMMA LiftBanKeeps ==
    ASSUME PeersInv, NEW p
    PROVE  /\ StatsInv(lift_ban(limiter, p))
           /\ p \in DOMAIN lift_ban(limiter, p).stats =>
                 lift_ban(limiter, p).stats[p].violations < MAX_VIOLATIONS
BY PeersAssumption DEF PeersInv, StatsInv, lift_ban, Restrict

\* cleanup: the ban outlives the statistics.
LEMMA CleanupKeeps == PeersInv => StatsInv(cleanup(limiter))
BY PeersAssumption DEF PeersInv, StatsInv, cleanup, is_banned, Restrict

\* record_violation, with the statistics of the peer or of its new window
LEMMA ViolationKeeps ==
    ASSUME time \in Int, NEW l, StatsInv(l), NEW p, NEW s,
           DOMAIN s = {"messages", "bytes", "window_start", "violations"},
           s.window_start \in Int, s.window_start <= time, s.violations \in Int,
           s.violations < MAX_VIOLATIONS
    PROVE  StatsInv(record_violation(l, p, s))
BY PeersAssumption DEF StatsInv, record_violation, With

\* check_message, of a banned, an oversized, a surplus and an admitted message
LEMMA CheckMessageKeeps ==
    ASSUME PeersInv, NEW p, NEW size
    PROVE  StatsInv(check_message(p, size).limiter)
<1> DEFINE l == IF p \in DOMAIN limiter.banned THEN lift_ban(limiter, p) ELSE limiter
           s0 == StatsOf(l, p)
           s == maybe_reset_window(s0)
           n == [s EXCEPT !.messages = @ + 1, !.bytes = @ + size]
           fields == {"messages", "bytes", "window_start", "violations"}
           Fresh(x) == /\ DOMAIN x = fields
                       /\ x.window_start \in Int /\ x.window_start <= time
                       /\ x.violations \in Int /\ x.violations < MAX_VIOLATIONS
<1>1. StatsInv(l) /\ (p \in DOMAIN l.stats => l.stats[p].violations < MAX_VIOLATIONS)
  <2>1. CASE p \in DOMAIN limiter.banned
    BY <2>1, LiftBanKeeps
  <2>2. CASE p \notin DOMAIN limiter.banned
    BY <2>2, PeersAssumption DEF PeersInv, StatsInv
  <2> QED BY <2>1, <2>2
<1> HIDE DEF l
<1>2. Fresh(s0)
  BY <1>1, PeersAssumption DEF StatsOf, NewStats, StatsInv, PeersInv
<1> HIDE DEF s0
<1>3. Fresh(s)
  BY <1>2 DEF maybe_reset_window, PeersInv
<1> HIDE DEF s
<1>4. StatsInv(record_violation(l, p, s0)) /\ StatsInv(record_violation(l, p, s))
  BY <1>1, <1>2, <1>3, ViolationKeeps DEF PeersInv
<1>5. Fresh(n)
  BY <1>3
<1> HIDE DEF n
<1>6. StatsInv([l EXCEPT !.stats = With(@, p, n)])
  BY <1>1, <1>5, PeersAssumption DEF StatsInv, With
<1> QED BY <1>4, <1>6 DEF check_message, PeersInv, l, s0, s, n

\* Every handler, the two loops and the passing of time keep it.
LEMMA PeersInvNext == PeersInv /\ [PeersStep]_peersVars => PeersInv'
<1> SUFFICES ASSUME PeersInv, [PeersStep]_peersVars PROVE PeersInv'
  OBVIOUS
<1>1. CASE UNCHANGED <<limiter, time>>
  BY <1>1 DEF PeersInv, StatsInv
<1>2. ASSUME NEW p \in RemotePeer, NEW limited \in BOOLEAN, ban_peer(p, limited) PROVE PeersInv'
  BY <1>2 DEF ban_peer, With, PeersInv, StatsInv
<1>3. ASSUME NEW p \in RemotePeer, unban_peer(p) PROVE PeersInv'
  <2>1. limiter' = lift_ban(limiter, p) /\ time' = time
    BY <1>3 DEF unban_peer
  <2> QED BY <2>1, LiftBanKeeps DEF PeersInv, StatsInv
<1>4. ASSUME NEW p \in RemotePeer, NEW size, NEW kind, handle_gossipsub(p, size, kind) PROVE PeersInv'
  <2>1. limiter' = check_message(p, size).limiter /\ time' = time
    BY <1>4 DEF handle_gossipsub
  <2> QED BY <2>1, CheckMessageKeeps DEF PeersInv, StatsInv
<1>5. CASE cleanup_rate_limiter \/ perform_maintenance
  <2>1. limiter' = cleanup(limiter) /\ time' = time
    BY <1>5 DEF cleanup_rate_limiter, perform_maintenance
  <2> QED BY <2>1, CleanupKeeps DEF PeersInv, StatsInv
<1>6. CASE pass_time
  BY <1>6 DEF pass_time, PeersInv, StatsInv
<1>7. CASE UNCHANGED peersVars
  BY <1>1, <1>7 DEF peersVars
<1>8. ASSUME NEW p \in RemotePeer, peer_connected(p) \/ peer_disconnected(p) \/ add_peer_address(p)
                \/ \E what \in {"good", "bad", "timeout"} : record(p, what)
      PROVE PeersInv'
  BY <1>1, <1>8 DEF peer_connected, peer_disconnected, add_peer_address, record
<1> QED BY <1>2, <1>3, <1>4, <1>5, <1>6, <1>7, <1>8 DEF PeersStep

\* Whatever the peers do and however time passes, a peer that served its ban, or whose ban
\* was lifted or forgotten, has fewer violations than the next ban takes (record_violation,
\* is_banned, unban_peer and cleanup of the rate limiter).
THEOREM EveryBanStartsAfresh == PeersSpec => []BansStartAfresh
<1>1. PeersInv => BansStartAfresh
  BY DEF PeersInv, StatsInv, BansStartAfresh
<1> QED BY <1>1, PeersInvInit, PeersInvNext, PTL DEF PeersSpec
=============================================================================
