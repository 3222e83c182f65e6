------------------------------ MODULE DnsSeed ------------------------------
(* A DNS seed (kratos-dns-seed) and the nodes that report to it             *)
(* (network/dns_seed_client.rs, send_dns_heartbeats of node/service.rs).    *)
(* Each connection is a task of the seed; what a task does under one lock   *)
(* is one step; the locks themselves are modelled at the end.  Time is in units of the     *)
(* node's maintenance interval.  Regions are unknown to the seed, so that   *)
(* the diverse selection is: the best n/regions peers, then the others.     *)
EXTENDS Integers, Sequences, SequencesExt, FiniteSets, FiniteSetsExt, Functions

CONSTANTS
    SeedNode,                \* nodes, each at one address
    ValidatorNode,           \* those that are validators
    HEARTBEAT_CYCLES,        \* maintenance cycles between two heartbeats
    CONNECTION_TIMEOUT,      \* units a connection may take
    PEER_TIMEOUT_UNITS, MAX_AGE, CACHE_VALID,
    RATE_LIMIT, RATE_WINDOW, MAX_SEED_VIOLATIONS, SEED_BAN,
    INITIAL_PEER_SCORE, MAX_PEER_SCORE, MAX_IN_FILE,
    EMERGENCY, RESTRICTED, DEGRADED,    \* fewer validators than this
    BOOTSTRAP_DURATION,
    Task,                    \* tasks of the seed that run at a time
    MaxClock, MaxReported, MaxSeedStarts    \* bounds

ASSUME SeedAssumption ==
    /\ ValidatorNode \subseteq SeedNode
    /\ CONNECTION_TIMEOUT < HEARTBEAT_CYCLES    \* 30 s and 30 s, before 120 s
    /\ MAX_AGE = 2 * HEARTBEAT_CYCLES

VARIABLES
    clock,
    reporter,    \* per node: [counter, due, height]
    conns,       \* connections that the seed accepted and has not answered
    seed,        \* the memory of the seed
    disk,        \* its RocksDB: peers by id
    newest,      \* history: timestamp of the newest heartbeat the seed took from a node
    restarts     \* restarts of the seed

VARIABLES
    task,    \* per task: the steps that remain
    queue    \* per lock: the requests, those granted (a prefix) and those waiting

lockVars == <<task, queue>>
seedVars == <<clock, reporter, conns, seed, disk, newest, restarts>>

PutPeer(f, k, v) == [x \in DOMAIN f \union {k} |-> IF x = k THEN v ELSE f[x]]
Drop(f, S) == Restrict(f, DOMAIN f \ S)

\* PeerRegistry::open, and the services that start empty.
Opened(db, max_peers) ==
    [cache |-> db, best_height |-> Max({db[p].height : p \in DOMAIN db} \union {0}),
     max_peers |-> max_peers, limiter |-> << >>,
     is_bootstrap |-> TRUE, bootstrap_end |-> clock + BOOTSTRAP_DURATION,
     state |-> [best_height |-> 0, active_validators |-> 0, active_peers |-> 0,
                security |-> "Bootstrap"],
     file |-> [peers |-> << >>, at |-> -CACHE_VALID]]

SeedInit ==
    /\ clock = 0 /\ conns = {} /\ disk = << >> /\ newest = << >> /\ restarts = 0
    /\ reporter = [n \in SeedNode |-> [counter |-> 0, due |-> FALSE, height |-> 0]]
    /\ \E max_peers \in 1..Cardinality(SeedNode) : seed = Opened(<< >>, max_peers)

-----------------------------------------------------------------------------
(* The nodes *)

\* One unit passes: each node runs its maintenance, in which every HEARTBEAT_CYCLES-th
\* call of send_dns_heartbeats sends, and connections time out on both sides.  Locks are
\* held for less than a unit.
pass_unit ==
    /\ clock < MaxClock
    /\ \A n \in SeedNode : ~reporter[n].due
    /\ \A c \in conns : c.stage # "validated"
    /\ clock' = clock + 1
    /\ reporter' = [n \in SeedNode |->
          LET counter == reporter[n].counter + 1
              due == counter >= HEARTBEAT_CYCLES
          IN  [reporter[n] EXCEPT !.counter = IF due THEN 0 ELSE counter, !.due = due]]
    /\ conns' = {c \in conns : clock' - c.timestamp <= CONNECTION_TIMEOUT}
    /\ UNCHANGED <<seed, disk, newest, restarts>>

\* send_heartbeat_to_seed: the connection may be refused or time out; the chain may have
\* grown since the last time.
send_heartbeat(n, height, lost) ==
    /\ reporter[n].due
    /\ reporter' = [reporter EXCEPT ![n].due = FALSE, ![n].height = height]
    /\ conns' = IF lost THEN conns
                ELSE conns \union {[node |-> n, timestamp |-> clock, height |-> height,
                                    stage |-> "accepted"]}
    /\ UNCHANGED <<clock, seed, disk, newest, restarts>>

-----------------------------------------------------------------------------
(* The rate limiter *)

LimitEntry(l, n) ==
    IF n \in DOMAIN l THEN l[n]
    ELSE [count |-> 0, window_start |-> clock, violations |-> 0, ban_until |-> 0]

\* A violation more, and the ban that it may bring.
Offend(e) ==
    [e EXCEPT !.violations = @ + 1,
              !.ban_until = IF e.violations + 1 >= MAX_SEED_VIOLATIONS
                            THEN clock + SEED_BAN ELSE @]

\* check_rate_limit: the entry afterwards.
check_rate_limit(l, n) ==
    LET e == LimitEntry(l, n)
        free == IF e.ban_until > 0 THEN [e EXCEPT !.ban_until = 0, !.violations = 0] ELSE e
        window == IF clock >= free.window_start + RATE_WINDOW
                  THEN [free EXCEPT !.window_start = clock, !.count = 0] ELSE free
        counted == [window EXCEPT !.count = @ + 1]
    IN  IF clock < e.ban_until THEN [ok |-> FALSE, entry |-> e]
        ELSE IF counted.count > RATE_LIMIT THEN [ok |-> FALSE, entry |-> Offend(counted)]
        ELSE [ok |-> TRUE, entry |-> counted]

-----------------------------------------------------------------------------
(* handle_connection *)

\* The limiter, then the message, read and validated (validate_heartbeat): its age, and
\* whether it is well formed, of this genesis and signed.  A bad signature is a violation.
handle_connection(c, verdict) ==
    LET limit == check_rate_limit(seed.limiter, c.node)
        fresh == c.timestamp >= clock - MAX_AGE
        entry == IF limit.ok /\ verdict = "signature" /\ fresh THEN Offend(limit.entry)
                 ELSE limit.entry
    IN  /\ c.stage = "accepted"
        /\ seed' = [seed EXCEPT !.limiter = PutPeer(@, c.node, entry)]
        /\ conns' = (conns \ {c}) \union
              IF limit.ok /\ fresh /\ verdict = "valid" THEN {[c EXCEPT !.stage = "validated"]}
              ELSE {}
        /\ UNCHANGED <<clock, reporter, disk, newest, restarts>>

lowest(cache) == {p \in DOMAIN cache : \A q \in DOMAIN cache : cache[p].score <= cache[q].score}


\* evict_lowest_scoring_peer and remove_stale_peers, by remove_peer
remove_peer(cache, db, p) == [cache |-> Drop(cache, {p}), db |-> Drop(db, {p})]

\* PeerRegistry::update_peer, under the write lock.  A peer that reports again is one point
\* better; if there are too many one of the worst is evicted.  The answer carries the state.
update_peer(c) ==
    LET known == c.node \in DOMAIN seed.cache
        info == [last_seen |-> c.timestamp, height |-> c.height,
                 score |-> IF known THEN Min({seed.cache[c.node].score + 1, MAX_PEER_SCORE})
                           ELSE INITIAL_PEER_SCORE,
                 is_validator |-> c.node \in ValidatorNode]
        cache == PutPeer(seed.cache, c.node, info)
        db == PutPeer(disk, c.node, info)
        noted == PutPeer(newest, c.node,
                         Max({c.timestamp} \union {newest[n] : n \in DOMAIN newest \cap {c.node}}))
        write(r, evicted) ==
            /\ seed' = [seed EXCEPT !.cache = r.cache, !.best_height = Max({@, c.height})]
            /\ disk' = r.db
            /\ newest' = Drop(noted, evicted)
    IN  /\ c.stage = "validated"
        /\ conns' = conns \ {c}
        /\ IF Cardinality(DOMAIN cache) > seed.max_peers
           THEN \E p \in lowest(cache) : write(remove_peer(cache, db, p), {p})
           ELSE write([cache |-> cache, db |-> db], {})
        /\ UNCHANGED <<clock, reporter, restarts>>

-----------------------------------------------------------------------------
(* Maintenance, the network state and the file of peers *)

is_stale(info) == clock - info.last_seen > PEER_TIMEOUT_UNITS

get_active_peers(cache) == Restrict(cache, {p \in DOMAIN cache : ~is_stale(cache[p])})

\* run_maintenance, its first part
remove_stale_peers ==
    LET stale == {p \in DOMAIN seed.cache : is_stale(seed.cache[p])}
    IN  /\ stale # {}
        /\ seed' = [seed EXCEPT !.cache = Drop(@, stale)]
        /\ disk' = Drop(disk, stale)
        /\ UNCHANGED <<clock, reporter, conns, newest, restarts>>

from_validator_count(count, bootstrap) ==
    IF bootstrap THEN "Bootstrap"
    ELSE IF count < EMERGENCY THEN "Emergency"
    ELSE IF count < RESTRICTED THEN "Restricted"
    ELSE IF count < DEGRADED THEN "Degraded" ELSE "Normal"

\* The element at index len/2 of the sorted heights.
compute_median_height(peers) ==
    IF DOMAIN peers = {} THEN 0
    ELSE CHOOSE h \in {peers[p].height : p \in DOMAIN peers} :
            LET half == Cardinality(DOMAIN peers) \div 2
            IN  /\ Cardinality({p \in DOMAIN peers : peers[p].height < h}) <= half
                /\ Cardinality({p \in DOMAIN peers : peers[p].height <= h}) > half

\* NetworkStateAggregator::update_from_peers: maintenance and run_periodic_generation
update_from_peers ==
    LET peers == get_active_peers(seed.cache)
        bootstrap == seed.is_bootstrap /\ clock < seed.bootstrap_end
        validators == Cardinality({p \in DOMAIN peers : peers[p].is_validator})
    IN  /\ seed' = [seed EXCEPT !.is_bootstrap = bootstrap,
              !.state = [best_height |-> compute_median_height(peers),
                         active_validators |-> validators,
                         active_peers |-> Cardinality(DOMAIN peers),
                         security |-> from_validator_count(validators, bootstrap)]]
        /\ UNCHANGED <<clock, reporter, conns, disk, newest, restarts>>

\* get_diverse_peers: the best n of the active peers, ties in any order
diverse(peers, n) ==
    {S \in SUBSET DOMAIN peers :
        /\ Cardinality(S) = Min({n, Cardinality(DOMAIN peers)})
        /\ \A p \in S, q \in DOMAIN peers \ S : peers[p].score >= peers[q].score}

\* IdPeersGenerator::generate, in the periodic task and for a request without a cached file
generate ==
    /\ \E S \in diverse(get_active_peers(seed.cache), MAX_IN_FILE) :
          seed' = [seed EXCEPT !.file = [peers |-> Restrict(seed.cache, S), at |-> clock]]
    /\ UNCHANGED <<clock, reporter, conns, disk, newest, restarts>>

\* decrease_peer_score
decrease_peer_score(p, amount) ==
    LET score == Max({seed.cache[p].score - amount, 0})
    IN  /\ p \in DOMAIN seed.cache
        /\ seed' = [seed EXCEPT !.cache[p].score = score]
        /\ disk' = PutPeer(disk, p, [seed.cache[p] EXCEPT !.score = score])
        /\ UNCHANGED <<clock, reporter, conns, newest, restarts>>

\* The process ends at any time and is started again on its database.
restart_seed ==
    /\ restarts < MaxSeedStarts
    /\ restarts' = restarts + 1
    /\ seed' = Opened(disk, seed.max_peers)
    /\ conns' = {}
    /\ UNCHANGED <<clock, reporter, disk, newest>>

SeedStep ==
    \/ pass_unit
    \/ \E n \in SeedNode, lost \in BOOLEAN : \E height \in reporter[n].height..MaxReported :
          send_heartbeat(n, height, lost)
    \/ \E c \in conns : \E verdict \in {"valid", "signature", "other"} :
          handle_connection(c, verdict)
    \/ \E c \in conns : update_peer(c)
    \/ remove_stale_peers
    \/ update_from_peers
    \/ generate
    \/ \E p \in SeedNode : decrease_peer_score(p, 1)
    \/ restart_seed

-----------------------------------------------------------------------------
SeedTypeOK ==
    /\ \A p \in DOMAIN seed.cache : seed.cache[p].score \in 0..MAX_PEER_SCORE
    /\ Cardinality(DOMAIN seed.cache) <= seed.max_peers

\* The cache of the registry is its database (update_peer, remove_peer,
\* decrease_peer_score, open), and the seed knows a node until PEER_TIMEOUT after the
\* newest heartbeat that it took from it, though connections are handled by tasks of their
\* own: they end before the next heartbeat, so an older one never replaces a newer one.
ReportersAreKnown ==
    /\ seed.cache = disk
    /\ \A n \in DOMAIN newest :
          clock - newest[n] <= PEER_TIMEOUT_UNITS =>
              n \in DOMAIN seed.cache /\ ~is_stale(seed.cache[n])


-----------------------------------------------------------------------------
(* The locks: the registry of peers, the network state and the file          *)
(* generator are each behind a tokio RwLock, which is granted in the order   *)
(* of the requests.  A task is the sequence of the locks it takes and        *)
(* releases.                                                                 *)

Lock == {"registry", "network_state", "generator"}

R(lock) == [op |-> "read", lock |-> lock]
W(lock) == [op |-> "write", lock |-> lock]
Release == [op |-> "release", lock |-> "all"]

\* run_maintenance: remove the stale peers, update the state, log it.
maintenance_task ==
    <<W("registry"), Release, R("registry"), W("network_state"), Release,
      R("registry"), R("network_state"), Release>>

\* run_periodic_generation: update the state, then generate and save the file.
generation_task ==
    <<R("registry"), W("network_state"), Release,
      R("registry"), R("network_state"), W("generator"), Release>>

\* handle_connection of the heartbeat receiver, after the rate limiter
heartbeat_task == <<W("registry"), Release, R("network_state"), Release>>

\* Mutant: the guard of the cached file lives to the end of the handler.
idpeers_guard_kept ==
    <<R("generator"), R("registry"), R("network_state"), W("generator"), Release>>

\* get_idpeers without a cached file; with one it ends at the first release.
get_idpeers ==
    <<R("generator"), Release, R("registry"), R("network_state"), W("generator"), Release>>

\* get_status and the two get_metrics
get_status == <<R("registry"), R("network_state"), Release>>

\* query of the DNS handler, get_peers, and the flush at shutdown
query == <<R("registry"), Release>>

get_network_info == <<R("network_state"), Release>>

Script ==
    {maintenance_task, generation_task, heartbeat_task, get_idpeers,
     SubSeq(get_idpeers, 1, 2), get_status, query, get_network_info}

LocksInit ==
    /\ task = [t \in Task |-> << >>]
    /\ queue = [l \in Lock |-> << >>]

\* Requests of a lock that are granted: the readers in front, or the writer in front.
Granted(l) ==
    {i \in 1..Len(queue[l]) : i = 1 \/ \A j \in 1..i : queue[l][j].op = "read"}

Waiting(t) == \E l \in Lock : \E i \in 1..Len(queue[l]) \ Granted(l) : queue[l][i].task = t

\* A task starts: a timer fires, or a request comes.
spawn(t, script) ==
    /\ task[t] = << >>
    /\ task' = [task EXCEPT ![t] = script]
    /\ UNCHANGED queue

\* lock.read().await, lock.write().await: the request is queued, and the task goes on when
\* it is granted.
acquire(t) ==
    /\ task[t] # << >> /\ ~Waiting(t)
    /\ LET step == Head(task[t])
       IN  /\ step.op # "release"
           /\ queue' = [queue EXCEPT ![step.lock] = Append(@, [task |-> t, op |-> step.op])]
    /\ task' = [task EXCEPT ![t] = Tail(@)]

\* The end of a block drops the guards of the block.
drop_guards(t) ==
    /\ task[t] # << >> /\ ~Waiting(t)
    /\ Head(task[t]).op = "release"
    /\ queue' = [l \in Lock |-> SelectSeq(queue[l], LAMBDA q : q.task # t)]
    /\ task' = [task EXCEPT ![t] = Tail(@)]

LocksStep ==
    \E t \in Task : acquire(t) \/ drop_guards(t) \/ \E script \in Script : spawn(t, script)

-----------------------------------------------------------------------------
LocksTypeOK ==
    \A l \in Lock : \A i, j \in Granted(l) :
        i # j => queue[l][i].op = "read" /\ queue[l][j].op = "read"

\* The tasks of the seed never wait for each other in a circle: if any has something left
\* to do, one of them is not waiting for a lock (run_maintenance,
\* run_periodic_generation, handle_connection and the handlers of the HTTP and DNS servers).
SomeTaskGoesOn ==
    (\E t \in Task : task[t] # << >>) => \E t \in Task : task[t] # << >> /\ ~Waiting(t)
=============================================================================
