---------------------------- MODULE ClockHealth -----------------------------
(* LocalClockHealth of consensus/clock_health.rs with its file, the clock   *)
(* record of a validator in storage/state.rs, and the test of the clock in  *)
(* try_produce_block.  The moving average is a level in ms; where a sample  *)
(* takes it depends on EMA_ALPHA and on the samples before, and is left     *)
(* open, so it may go further at once than the code's average does.         *)
EXTENDS Integers

CONSTANTS
    DriftLevel,                \* the levels of drift told apart, in ms
    EXCLUDED_TO_RECOVERING_SECS, DEGRADED_TO_HEALTHY_SECS, RECOVERING_TO_HEALTHY_SECS,
    EMERGENCY_RECOVERY_SUSTAIN_SECS,
    MaxSeconds, MaxMissed      \* bounds

VARIABLES
    second,
    health,       \* [status, ema, improvement_since, emergency, emergency_recovery_since]
    healthFile,   \* the last health saved, or NoFile
    clockRecord,  \* [missed, failures]: ValidatorClockRecord
    lastBad       \* history: when the drift of an excluded clock was last too large, or Never

clockVars == <<second, health, healthFile, clockRecord, lastBad>>

NoFile == [status |-> "none"]
Never == -1

NewHealth == [status |-> "Healthy", ema |-> 0, improvement_since |-> Never, emergency |-> FALSE,
              emergency_recovery_since |-> Never]

ClockInit ==
    /\ second = 0 /\ health = NewHealth /\ healthFile = NoFile
    /\ clockRecord = [missed |-> 0, failures |-> 0]
    /\ lastBad = Never

can_produce_blocks(status) == status \in {"Healthy", "Degraded"}

\* get_effective_thresholds
Thresholds(h) ==
    IF h.emergency
    THEN [healthy_max |-> 1500, degraded_max |-> 2000, recovery_max |-> 1800, target |-> 1200]
    ELSE [healthy_max |-> 1000, degraded_max |-> 1500, recovery_max |-> 1300, target |-> 800]

\* The status s with since as improvement_since
To(h, s, since) ==
    [h EXCEPT !.status = s,
              !.improvement_since = IF s # h.status THEN Never ELSE since]

\* Good drift for as long as needed leads to the status next.
Improving(h, next, secs) ==
    IF h.improvement_since = Never THEN To(h, h.status, second)
    ELSE IF second - h.improvement_since >= secs THEN To(h, next, Never)
    ELSE h

\* Mutant: a bad sample does not end the improvement of an excluded clock.
improvement_kept(h) ==
    LET t == Thresholds(h) IN
    IF h.status # "Excluded" /\ h.ema > t.degraded_max THEN To(h, "Excluded", Never)
    ELSE CASE h.status = "Healthy" ->
                 To(h, IF h.ema > t.healthy_max THEN "Degraded" ELSE "Healthy", h.improvement_since)
           [] h.status = "Degraded" ->
                 IF h.ema < t.target THEN Improving(h, "Healthy", DEGRADED_TO_HEALTHY_SECS)
                 ELSE To(h, "Degraded", Never)
           [] h.status = "Excluded" ->
                 IF h.ema < t.recovery_max
                 THEN Improving(h, "Recovering", EXCLUDED_TO_RECOVERING_SECS) ELSE h
           [] h.status = "Recovering" ->
                 IF h.ema < t.target THEN Improving(h, "Healthy", RECOVERING_TO_HEALTHY_SECS)
                 ELSE To(h, IF h.ema > t.healthy_max THEN "Degraded" ELSE "Recovering", Never)

\* compute_new_status and handle_status_change
compute_new_status(h) ==
    LET t == Thresholds(h) IN
    IF h.status # "Excluded" /\ h.ema > t.degraded_max THEN To(h, "Excluded", Never)
    ELSE CASE h.status = "Healthy" ->
                 To(h, IF h.ema > t.healthy_max THEN "Degraded" ELSE "Healthy", h.improvement_since)
           [] h.status = "Degraded" ->
                 IF h.ema < t.target THEN Improving(h, "Healthy", DEGRADED_TO_HEALTHY_SECS)
                 ELSE To(h, "Degraded", Never)
           [] h.status = "Excluded" ->
                 IF h.ema < t.recovery_max
                 THEN Improving(h, "Recovering", EXCLUDED_TO_RECOVERING_SECS)
                 ELSE To(h, "Excluded", Never)
           [] h.status = "Recovering" ->
                 IF h.ema < t.target THEN Improving(h, "Healthy", RECOVERING_TO_HEALTHY_SECS)
                 ELSE To(h, IF h.ema > t.healthy_max THEN "Degraded" ELSE "Recovering", Never)

\* record_clock_drift: record_drift and save.  The write of the file may fail.
record_drift(ema, saved) ==
    /\ LET h == [health EXCEPT !.ema = ema] IN
       /\ health' = compute_new_status(h)
       /\ lastBad' = IF /\ "Excluded" \in {h.status, health'.status}
                        /\ ema >= Thresholds(h).recovery_max
                     THEN second ELSE lastBad
    /\ healthFile' = IF saved THEN health' ELSE healthFile
    /\ UNCHANGED <<second, clockRecord>>

\* update_emergency_mode for a ratio of degraded validators above 30%, below 15%, or between
update_emergency_mode(ratio) ==
    /\ health' =
         IF ~health.emergency /\ ratio = "high"
         THEN [health EXCEPT !.emergency = TRUE, !.emergency_recovery_since = Never]
         ELSE IF ~health.emergency THEN health
         ELSE IF ratio # "low" THEN [health EXCEPT !.emergency_recovery_since = Never]
         ELSE IF health.emergency_recovery_since = Never
         THEN [health EXCEPT !.emergency_recovery_since = second]
         ELSE IF second - health.emergency_recovery_since >= EMERGENCY_RECOVERY_SUSTAIN_SECS
         THEN [health EXCEPT !.emergency = FALSE, !.emergency_recovery_since = Never]
         ELSE health
    /\ UNCHANGED <<second, healthFile, clockRecord, lastBad>>

\* The first test of try_produce_block
clock_suspends_production ==
    /\ ~can_produce_blocks(health.status) /\ clockRecord.missed < MaxMissed
    /\ clockRecord' = [missed |-> clockRecord.missed + 1,
                       failures |-> clockRecord.failures + (IF health.status = "Excluded" THEN 1 ELSE 0)]
    /\ UNCHANGED <<second, health, healthFile, lastBad>>

\* load_or_create after a restart; a file that cannot be read is replaced by a new state.
load_or_create(readable) ==
    /\ health' = IF readable /\ healthFile # NoFile THEN healthFile ELSE NewHealth
    /\ lastBad' = IF health' # health THEN Never ELSE lastBad
    /\ UNCHANGED <<second, healthFile, clockRecord>>

second_passes ==
    /\ second < MaxSeconds
    /\ second' = second + 1
    /\ UNCHANGED <<health, healthFile, clockRecord, lastBad>>

ClockStep ==
    \/ \E ema \in DriftLevel, saved \in BOOLEAN : record_drift(ema, saved)
    \/ \E ratio \in {"low", "between", "high"} : update_emergency_mode(ratio)
    \/ \E readable \in BOOLEAN : load_or_create(readable)
    \/ clock_suspends_production
    \/ second_passes

-----------------------------------------------------------------------------
ClockTypeOK ==
    /\ health.status \in {"Healthy", "Degraded", "Excluded", "Recovering"}
    /\ health.ema \in DriftLevel
    /\ clockRecord.failures <= clockRecord.missed

\* A clock that was excluded produces again only when the drift stayed below the limit for
\* recovery during the time required, unless its saved state was lost or older
\* (compute_new_status, handle_status_change, update_emergency_mode between samples,
\* load_or_create).
ProducesAfterRecovery ==
    can_produce_blocks(health.status) /\ lastBad # Never =>
        second - lastBad >= EXCLUDED_TO_RECOVERING_SECS
=============================================================================
