----------------------------- MODULE MCServices -----------------------------
(***************************************************************************)
(* The parts a node and its neighbours keep beside the chain, one of them  *)
(* in a behaviour: a round of votes, the early validators, credits and     *)
(* slashing, the clock, the drift of block times, peers, warp sync, the    *)
(* DNS seed and its locks, joining, the security state, slot selection and *)
(* the wallet.                                                             *)
(***************************************************************************)
EXTENDS VoteRound, EarlyValidators, Credits, ClockHealth, Drift, Peers, WarpSync,
        DnsSeed, Join, SecurityStates, SlotSelection, Wallet

CONSTANTS
    Components,   \* those a behaviour may be about
    a1, b1

VARIABLE component

chainVars == <<vars, earlyVars, driftVars, slotVars, watchVars>>
validatorVars == <<creditVars, slashVars, clockVars>>
netVars == <<peersVars, warpVars, seedVars, lockVars>>
clientVars == <<joinVars, walletVars>>

\* A component that the behaviour is not about starts in one of its initial states.
ServicesInit ==
    /\ component \in Components
    /\ Init /\ EarlyInit /\ SlashingInit /\ ClockInit /\ DriftInit /\ PeersInit /\ WarpInit
    /\ SeedInit /\ LocksInit /\ JoinInit /\ WatchInit /\ SlotInit /\ WalletInit
    /\ component # "peers" => peerTable.peers = << >>
    /\ component # "seed" => seed.max_peers = 1
    /\ component # "join" => starter.mode = "join"
    /\ component # "security" => watch = NewTracker
    /\ component # "slots" =>
          electors = CHOOSE e \in [Elector -> [stake : StakeValues, vc : VcValues,
                                               active : BOOLEAN, blocks_produced : VcValues]] : TRUE

ServicesNext ==
    /\ UNCHANGED component
    /\ \/ /\ UNCHANGED <<validatorVars, netVars, clientVars>>
          /\ \/ component = "votes" /\ Next
                /\ UNCHANGED <<earlyVars, driftVars, slotVars, watchVars>>
             \/ component = "early" /\ EarlyStep
                /\ UNCHANGED <<vars, driftVars, slotVars, watchVars>>
             \/ component = "drift" /\ DriftStep
                /\ UNCHANGED <<vars, earlyVars, slotVars, watchVars>>
             \/ component = "slots" /\ SlotStep
                /\ UNCHANGED <<vars, earlyVars, driftVars, watchVars>>
             \/ component = "security" /\ WatchStep
                /\ UNCHANGED <<vars, earlyVars, driftVars, slotVars>>
       \/ /\ UNCHANGED <<chainVars, netVars, clientVars>>
          /\ \/ component = "slashing" /\ SlashingStep /\ UNCHANGED clockVars
             \/ component = "clock" /\ ClockStep /\ UNCHANGED <<creditVars, slashVars>>
       \/ /\ UNCHANGED <<chainVars, validatorVars, clientVars>>
          /\ \/ component = "peers" /\ PeersStep /\ UNCHANGED <<warpVars, seedVars, lockVars>>
             \/ component = "warp" /\ WarpStep /\ UNCHANGED <<peersVars, seedVars, lockVars>>
             \/ component = "seed" /\ SeedStep /\ UNCHANGED <<peersVars, warpVars, lockVars>>
             \/ component = "locks" /\ LocksStep /\ UNCHANGED <<peersVars, warpVars, seedVars>>
       \/ /\ UNCHANGED <<chainVars, validatorVars, netVars>>
          /\ \/ component = "join" /\ JoinStep /\ UNCHANGED walletVars
             \/ component = "wallet" /\ WalletStep /\ UNCHANGED joinVars

ServicesSpec ==
    ServicesInit /\ [][ServicesNext]_<<component, chainVars, validatorVars, netVars, clientVars>>

\* The components keep their types, and what they keep twice agrees: votes and voters,
\* validators and roles, block slots along a chain, credits and their limits, the records of
\* the wallet and their hashes (add_vote, ensure_bootstrap_validator, validate_block, add).
ServicesTypeOK ==
    /\ TypeOK /\ EarlyTypeOK /\ CreditsTypeOK /\ ClockTypeOK /\ DriftTypeOK /\ PeersTypeOK
    /\ WarpTypeOK /\ SeedTypeOK /\ LocksTypeOK /\ JoinTypeOK /\ WatchTypeOK /\ SlotTypeOK
    /\ WalletTypeOK

-----------------------------------------------------------------------------
(* Constants.                                                              *)

\* Two blocks of one height, so that the tie-break by number cannot decide between them.
MCTarget == {a1, b1}
MCnumber == [t \in MCTarget |-> 1]

MCCooldown == [Critical |-> 3, High |-> 1]

MCGenesisAccount(g) == IF g = "g" THEN {1, 2} ELSE {2, 3}

MCBaseFee == [transfer |-> 1, vote |-> 10, propose |-> 50]

-----------------------------------------------------------------------------
(* Bounds.                                                                 *)

\* Of the parties that are not validators, which are alike, one comes first.
BoundEarly ==
    LET newcomers == Party \ GenesisValidators
        known == newcomers \intersect
            (DOMAIN validators.early_candidates \union DOMAIN validators.validators)
    IN  known # {} => (CHOOSE p \in newcomers : TRUE) \in known

\* Slashing starts from few credits, without ballots and decay.
BoundSlashing ==
    events # << >> =>
        /\ ballots = {}
        /\ \A v \in DOMAIN creditRecords :
              LET r == creditRecords[v]
              IN  /\ r.year = 0 /\ r.credits["uptime"] <= 1 /\ r.credits["seniority"] = 0
                  /\ ~trackers[v].active /\ trackers[v].last_decay_quarter = 0

\* The file of a clock is in use outside the emergency mode.
BoundClock == health.emergency => healthFile = NoFile

BoundPeers ==
    \A p \in DOMAIN peerTable.peers :
        peerTable.peers[p].score \in (MIN_SCORE - 1)..(INITIAL_SCORE + 1)

\* At most two of the seed's special cases at once.
BoundSeed ==
    LET InUse == <<seed.file.at >= 0,
                   ~seed.is_bootstrap \/ seed.state.active_peers > 0,
                   \E n \in DOMAIN seed.limiter : seed.limiter[n].violations > 0,
                   SeedNode \ ValidatorNode \subseteq
                       {c.node : c \in conns} \union DOMAIN seed.cache,
                   \E n \in SeedNode : reporter[n].height > 0,
                   restarts > 0,
                   \E n \in DOMAIN seed.cache : seed.cache[n].score # INITIAL_PEER_SCORE>>
    IN  Cardinality({n \in DOMAIN InUse : InUse[n]}) <= 2
=============================================================================
