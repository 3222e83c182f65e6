------------------------------- MODULE Credits ------------------------------
(* Validator credits: the records and the manager of                        *)
(* consensus/validator_credits.rs and the quarterly decay of                *)
(* consensus/vc_decay.rs.  A record counts credits in four categories; the  *)
(* multiplier of the bootstrap era is an argument of the methods.  Then the  *)
(* SlashingManager of consensus/slashing.rs, which works on the records:     *)
(* what an event costs in credits and stake, cooldowns, and ejection after   *)
(* three critical events whose count decays.                                 *)
EXTENDS Integers, FiniteSets, Sequences

CONSTANTS
    Holder,                                             \* validators
    EPOCHS_PER_DAY, EPOCHS_PER_MONTH, EPOCHS_PER_YEAR, epochs_per_quarter,
    VotesPerDay, VotesPerMonth, ArbitrationsPerYear,    \* 3, 50 and 5 in the code
    ArbitrationCredit, SeniorityCredit,                 \* 5 and 5
    DecayPercent, min_vc_threshold,
    Multiplier,                                         \* multipliers that callers pass
    MaxEpochs, MaxCredits                               \* bounds

ASSUME CreditsAssumption ==
    /\ EPOCHS_PER_DAY \in Nat \ {0} /\ EPOCHS_PER_MONTH \in Nat \ {0}
    /\ epochs_per_quarter \in Nat \ {0}

VARIABLES
    epochNow,
    creditRecords,  \* function from some holders to records
    trackers,       \* function from some holders to [active, last_decay_quarter]
    ballots         \* history: [holder, epoch, n]: votes credited to a holder in an epoch

creditVars == <<epochNow, creditRecords, trackers, ballots>>

Category == {"vote", "uptime", "arbitration", "seniority"}

NewRecord(e) ==
    [credits |-> [c \in Category |-> 0], today |-> 0, month |-> 0, year |-> 0,
     daily |-> e, monthly |-> e, yearly |-> e, seniority_epoch |-> e]

total_vc(r) == r.credits["vote"] + r.credits["uptime"] + r.credits["arbitration"]
               + r.credits["seniority"]

CreditsInit ==
    /\ epochNow = 0
    /\ creditRecords = << >> /\ trackers = << >>
    /\ ballots = {}

Enter(f, k, v) == [x \in DOMAIN f \union {k} |-> IF x = k THEN v ELSE f[x]]

\* initialize_validator of both managers: an existing record is replaced.
initialize_validator(v) ==
    /\ creditRecords' = Enter(creditRecords, v, NewRecord(epochNow))
    /\ trackers' = Enter(trackers, v, [active |-> FALSE, last_decay_quarter |-> 0])
    /\ ballots' = {b \in ballots : b.holder # v}
    /\ UNCHANGED epochNow


maybe_reset_daily(r) ==
    IF epochNow >= r.daily + EPOCHS_PER_DAY
    THEN [r EXCEPT !.today = 0, !.daily = epochNow] ELSE r

maybe_reset_monthly(r) ==
    IF epochNow >= r.monthly + EPOCHS_PER_MONTH
    THEN [r EXCEPT !.month = 0, !.monthly = epochNow] ELSE r

maybe_reset_yearly(r) ==
    IF epochNow >= r.yearly + EPOCHS_PER_YEAR
    THEN [r EXCEPT !.year = 0, !.yearly = epochNow] ELSE r

Cast(v) == {b \in ballots : b.holder = v /\ b.epoch = epochNow}
Ballot(v) ==
    (ballots \ Cast(v)) \union
    {[holder |-> v, epoch |-> epochNow, n |-> IF Cast(v) = {} THEN 1
                                              ELSE (CHOOSE b \in Cast(v) : TRUE).n + 1]}

Factor(m) == IF m < 1 THEN 1 ELSE m

\* record_governance_vote_with_multiplier.  The counters are reset also when no credit is
\* given.
record_governance_vote(v, m) ==
    /\ v \in DOMAIN creditRecords
    /\ LET r == maybe_reset_monthly(maybe_reset_daily(creditRecords[v]))
           given == r.today < VotesPerDay /\ r.month < VotesPerMonth
       IN /\ creditRecords' = [creditRecords EXCEPT ![v] =
                 IF given THEN [r EXCEPT !.credits["vote"] = @ + Factor(m), !.today = @ + 1,
                                         !.month = @ + 1]
                 ELSE r]
          /\ ballots' = IF given THEN Ballot(v) ELSE ballots
    /\ UNCHANGED <<epochNow, trackers>>

\* record_uptime_with_multiplier for a participation of at least 95%
record_uptime(v, m) ==
    /\ v \in DOMAIN creditRecords
    /\ creditRecords' = [creditRecords EXCEPT ![v].credits["uptime"] = @ + Factor(m)]
    /\ UNCHANGED <<epochNow, trackers, ballots>>

record_arbitration(v) ==
    /\ v \in DOMAIN creditRecords
    /\ LET r == maybe_reset_yearly(creditRecords[v]) IN
       creditRecords' = [creditRecords EXCEPT ![v] =
           IF r.year < ArbitrationsPerYear
           THEN [r EXCEPT !.credits["arbitration"] = @ + ArbitrationCredit, !.year = @ + 1]
           ELSE r]
    /\ UNCHANGED <<epochNow, trackers, ballots>>

Senior(r) ==
    IF epochNow < r.seniority_epoch + EPOCHS_PER_MONTH THEN r
    ELSE [r EXCEPT !.credits["seniority"] = @ + SeniorityCredit, !.seniority_epoch = epochNow]

update_all_seniority ==
    /\ creditRecords' = [v \in DOMAIN creditRecords |-> Senior(creditRecords[v])]
    /\ UNCHANGED <<epochNow, trackers, ballots>>

\* record_governance_activity, record_uptime_activity and record_arbitration_activity set
\* three flags of which only the disjunction is read.
record_activity(v) ==
    /\ v \in DOMAIN trackers
    /\ trackers' = [trackers EXCEPT ![v].active = TRUE]
    /\ UNCHANGED <<epochNow, creditRecords, ballots>>

\* apply_proportional_decay_static: every share is rounded down.
Decayed(r, amount) ==
    [r EXCEPT !.credits = [c \in Category |-> @[c] - (@[c] * amount) \div total_vc(r)]]

DecayAmount(r) ==
    LET share == (total_vc(r) * DecayPercent) \div 100 IN IF share < 1 THEN 1 ELSE share

apply_decay_if_needed(v) ==
    /\ v \in DOMAIN trackers
    /\ LET quarter == epochNow \div epochs_per_quarter IN
       /\ quarter > trackers[v].last_decay_quarter
       /\ creditRecords' = [creditRecords EXCEPT ![v] =
             IF ~trackers[v].active /\ total_vc(@) > min_vc_threshold
             THEN Decayed(@, DecayAmount(@)) ELSE @]
       /\ trackers' = [trackers EXCEPT ![v] = [active |-> FALSE, last_decay_quarter |-> quarter]]
    /\ UNCHANGED <<epochNow, ballots>>

epoch_passes ==
    /\ epochNow < MaxEpochs
    /\ epochNow' = epochNow + 1
    /\ UNCHANGED <<creditRecords, trackers, ballots>>

CreditsStep ==
    \/ epoch_passes
    \/ update_all_seniority
    \/ \E v \in Holder :
          \/ initialize_validator(v)
          \/ record_arbitration(v)
          \/ record_activity(v)
          \/ apply_decay_if_needed(v)
          \/ \E m \in Multiplier : record_governance_vote(v, m) \/ record_uptime(v, m)

BoundCredits == \A v \in DOMAIN creditRecords : total_vc(creditRecords[v]) <= MaxCredits

-----------------------------------------------------------------------------
CreditsTypeOK ==
    \A v \in DOMAIN creditRecords :
        creditRecords[v].credits \in [Category -> Nat] /\ creditRecords[v].daily <= epochNow

\* The votes credited to v in the epochs from e up to before e + len
Credited(v, e, len) ==
    {<<b, i>> \in ballots \X (1..(2 * VotesPerMonth)) :
        b.holder = v /\ b.epoch \in e..(e + len - 1) /\ i <= b.n}


-----------------------------------------------------------------------------
(* Slashing                                                                  *)

CONSTANTS
    CooldownEpochs,                     \* function: 52 for Critical, 12 for High
    CRITICAL_COUNT_DECAY_EPOCHS, SLASHING_RECORD_RETENTION_EPOCHS, MAX_SLASHING_RECORDS,
    StakeOf,                            \* the stakes that callers pass
    MaxSlashes                          \* bound

ASSUME SlashingAssumption == CRITICAL_COUNT_DECAY_EPOCHS \in Nat \ {0}

VARIABLES
    strikes,        \* function from some holders to [count, last]: critical_counts
    cooldowns,      \* function from some holders to the epoch their cooldown ends
    slashes,        \* set of slashing records, numbered
    events          \* history: sequence of [holder, epoch, severity, ejected] of the events slashed for

slashVars == <<strikes, cooldowns, slashes, events>>

SlashingInit ==
    /\ CreditsInit
    /\ strikes = << >> /\ cooldowns = << >> /\ slashes = {}
    /\ events = << >>

Severity == {"Critical", "High", "Medium", "Low"}
vc_slash_percent == [Critical |-> 50, High |-> 25, Medium |-> 10, Low |-> 5]
stake_slash_percent == [Critical |-> 20, High |-> 5, Medium |-> 1, Low |-> 0]

\* f64::round of a percentage
Rounded(n, percent) == (2 * n * percent + 100) \div 200

calculate_vc_slash(r, s) == Rounded(total_vc(r), vc_slash_percent[s])

\* The category with the most credits; max_by_key takes the last of equals.
Order == <<"vote", "uptime", "arbitration", "seniority">>
Largest(r) ==
    Order[CHOOSE i \in 1..4 :
        \A j \in 1..4 : \/ r.credits[Order[j]] < r.credits[Order[i]]
                        \/ r.credits[Order[j]] = r.credits[Order[i]] /\ j <= i]

Share(r, amount, c) == (r.credits[c] * amount) \div total_vc(r)

apply_vc_slash(r, amount) ==
    IF amount = 0 \/ total_vc(r) = 0 THEN r
    ELSE LET residual == amount - (Share(r, amount, "vote") + Share(r, amount, "uptime")
                         + Share(r, amount, "arbitration") + Share(r, amount, "seniority"))
             cut(c) == Share(r, amount, c) + IF c = Largest(r) THEN residual ELSE 0
         IN [r EXCEPT !.credits =
                [c \in Category |-> IF @[c] > cut(c) THEN @[c] - cut(c) ELSE 0]]

calculate_stake_slash(stake, s) == Rounded(stake, stake_slash_percent[s])

DecayedCount(k) ==
    LET by == (epochNow - k.last) \div CRITICAL_COUNT_DECAY_EPOCHS IN
    IF k.count > by THEN k.count - by ELSE 0

\* The part of determine_cooldown_ejection that counts a critical event
strike(v) ==
    LET old == IF v \in DOMAIN strikes THEN strikes[v] ELSE [count |-> 0, last |-> epochNow]
    IN [count |-> DecayedCount(old) + 1, last |-> epochNow]

\* slash_validator.  An ejected validator gets no cooldown; a cooldown replaces the one
\* before it.
slash_validator(v, s, stake) ==
    /\ v \in DOMAIN creditRecords /\ Len(events) < MaxSlashes
    /\ LET r == creditRecords[v]
           after == apply_vc_slash(r, calculate_vc_slash(r, s))
           ejected == s = "Critical" /\ strike(v).count >= 3
           cooldown == IF ~ejected /\ s \in {"Critical", "High"}
                       THEN epochNow + CooldownEpochs[s] ELSE -1
       IN /\ creditRecords' = [creditRecords EXCEPT ![v] = after]
          /\ strikes' = IF s = "Critical" THEN Enter(strikes, v, strike(v)) ELSE strikes
          /\ cooldowns' = IF cooldown >= 0 THEN Enter(cooldowns, v, cooldown) ELSE cooldowns
          /\ slashes' = slashes \union
                {[n |-> Len(events), holder |-> v, epoch |-> epochNow, severity |-> s,
                  vc_slashed |-> total_vc(r) - total_vc(after),
                  stake_slashed |-> IF total_vc(after) = 0 \/ s = "Critical"
                                    THEN calculate_stake_slash(stake, s) ELSE 0]}
          /\ events' = Append(events, [holder |-> v, epoch |-> epochNow, severity |-> s,
                                       ejected |-> ejected])
    /\ UNCHANGED <<epochNow, trackers, ballots>>

Kept == {r \in slashes : r.epoch >= epochNow - SLASHING_RECORD_RETENTION_EPOCHS}


\* It leaves the epoch of the last event as it is.
decay_critical_counts ==
    [v \in {w \in DOMAIN strikes : DecayedCount(strikes[w]) > 0} |->
        [strikes[v] EXCEPT !.count = DecayedCount(strikes[v])]]

\* on_epoch_boundary: cleanup_expired_cooldowns, decay_critical_counts and
\* prune_old_records, which keeps the newest.
on_epoch_boundary ==
    /\ cooldowns' = [v \in {w \in DOMAIN cooldowns : epochNow <= cooldowns[w]} |-> cooldowns[v]]
    /\ strikes' = decay_critical_counts
    /\ \E kept \in SUBSET Kept :
          /\ slashes' = kept
          /\ Cardinality(Kept) <= MAX_SLASHING_RECORDS => kept = Kept
          /\ Cardinality(Kept) > MAX_SLASHING_RECORDS =>
                /\ Cardinality(kept) = MAX_SLASHING_RECORDS
                /\ \A r \in kept, o \in Kept \ kept : r.epoch >= o.epoch
    /\ UNCHANGED <<creditVars, events>>

SlashingStep ==
    \/ CreditsStep /\ UNCHANGED slashVars
    \/ on_epoch_boundary
    \/ \E v \in Holder, s \in Severity, stake \in StakeOf : slash_validator(v, s, stake)

-----------------------------------------------------------------------------
is_in_cooldown(v) == v \in DOMAIN cooldowns /\ epochNow <= cooldowns[v]

Strikes(v) == {i \in DOMAIN events : events[i].holder = v /\ events[i].severity = "Critical"}

=============================================================================
