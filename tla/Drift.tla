------------------------------- MODULE Drift --------------------------------
(* The timestamps of blocks: DriftTracker and its methods in                *)
(* storage/state.rs, validate_timestamp of node/producer.rs, and the        *)
(* handlers of node/service.rs that use them.  The tracker is in the        *)
(* database: a refused block leaves it as it was only if it is refused      *)
(* before it is saved.                                                      *)
EXTENDS Integers, Sequences

CONSTANTS
    SLOT_DURATION_SECS, MIN_BLOCK_INTERVAL_SECS,
    MAX_SINGLE_BLOCK_DRIFT, MAX_CUMULATIVE_DRIFT_PER_EPOCH, RESTART_GRACE_DRIFT,
    MaxSlot, MaxEpoch, MaxHeight, MaxRestarts   \* bounds

VARIABLES
    tip,      \* [ts, slot, epoch, number]: the header of the current block
    tracker,  \* [epoch_drift, epoch, ts, slot, grace]
    path,     \* history: <<ts, slot>> of the blocks the tracker followed without a jump in its epoch
    relaunched

driftVars == <<tip, tracker, path, relaunched>>

GenesisHeader == [ts |-> 0, slot |-> 0, epoch |-> 0, number |-> 0]

DriftInit ==
    /\ tip = GenesisHeader
    /\ tracker = [epoch_drift |-> 0, epoch |-> 0, ts |-> 0, slot |-> 0, grace |-> FALSE]
    /\ path = <<<<0, 0>>>>
    /\ relaunched = 0

SatMinus(a, b) == IF a > b THEN a - b ELSE 0
Abs(n) == IF n < 0 THEN -n ELSE n

\* The time between two blocks, less what their slots say.
incremental_drift(ts, slot, last) ==
    (ts - last.ts) - SatMinus(slot, last.slot) * SLOT_DURATION_SECS

\* Steps 1 to 4 of BlockValidator::validate for a timestamp that is not in the future
ValidHeader(h) ==
    /\ h.number = tip.number + 1
    /\ h.ts - tip.ts >= MIN_BLOCK_INTERVAL_SECS
    /\ Abs(incremental_drift(h.ts, h.slot, tip)) <= SLOT_DURATION_SECS
    /\ h.epoch >= tip.epoch
    /\ h.epoch = tip.epoch => h.slot > tip.slot

Moved(h) == [tracker EXCEPT !.ts = h.ts, !.slot = h.slot]
Drifted(h) == (IF h.epoch > tracker.epoch THEN 0 ELSE tracker.epoch_drift)
              + incremental_drift(h.ts, h.slot, tracker)

LargeGap(h) == incremental_drift(h.ts, h.slot, tracker) > RESTART_GRACE_DRIFT

\* Mutant: the limit of the epoch is tested before the block's drift is added.
epoch_drift_late(h) ==
    /\ h.ts > tracker.ts
    /\ LargeGap(h) \/ /\ Abs(incremental_drift(h.ts, h.slot, tracker)) <= MAX_SINGLE_BLOCK_DRIFT
                      /\ Abs(tracker.epoch_drift) <= MAX_CUMULATIVE_DRIFT_PER_EPOCH

\* The conditions of DriftTracker::validate_and_update
drift_valid(h) ==
    /\ h.ts > tracker.ts
    /\ LargeGap(h) \/ /\ Abs(incremental_drift(h.ts, h.slot, tracker)) <= MAX_SINGLE_BLOCK_DRIFT
                      /\ Abs(Drifted(h)) <= MAX_CUMULATIVE_DRIFT_PER_EPOCH

Later(h) == IF h.epoch > tracker.epoch THEN h.epoch ELSE tracker.epoch

\* ... and its effect, which validate_block_drift saves.  A block after a large gap is
\* taken without its drift.
validate_block_drift(h) ==
    /\ drift_valid(h)
    /\ tracker' = [Moved(h) EXCEPT !.epoch = Later(h), !.grace = LargeGap(h),
                     !.epoch_drift = IF ~LargeGap(h) THEN Drifted(h)
                                     ELSE IF h.epoch > tracker.epoch THEN 0 ELSE @]
    /\ path' = IF LargeGap(h) THEN <<<<h.ts, h.slot>>>>
               ELSE IF h.epoch > tracker.epoch
                    THEN <<<<tracker.ts, tracker.slot>>, <<h.ts, h.slot>>>>
                    ELSE Append(path, <<h.ts, h.slot>>)

\* While the node is at height 0 the tracker follows without checks, and keeps the drift of
\* the epoch it comes from.
update_drift_tracker_for_sync(h) ==
    /\ tracker' = [Moved(h) EXCEPT !.epoch = h.epoch]
    /\ path' = <<<<h.ts, h.slot>>>>

\* The part of import_block that deals with time.  executes: the block's transactions and
\* state root turn out right, after the tracker was saved.
import_timed(h, executes) ==
    /\ ValidHeader(h)
    /\ IF tip.number = 0 THEN update_drift_tracker_for_sync(h) ELSE validate_block_drift(h)
    /\ tip' = IF executes THEN h ELSE tip
    /\ UNCHANGED relaunched

\* A produced block has the timestamp of its slot; the tracker is not told.
produce_timed(slot, epoch) ==
    /\ tip.number < MaxHeight
    /\ slot > tip.slot \/ epoch > tip.epoch
    /\ tip' = [ts |-> slot * SLOT_DURATION_SECS, slot |-> slot, epoch |-> epoch,
               number |-> tip.number + 1]
    /\ UNCHANGED <<tracker, path, relaunched>>

\* The node starts at height 0 with the tracker of the database.
relaunch ==
    /\ relaunched < MaxRestarts
    /\ tip # GenesisHeader
    /\ tip' = GenesisHeader
    /\ relaunched' = relaunched + 1
    /\ UNCHANGED <<tracker, path>>

DriftStep ==
    \/ relaunch
    \/ \E slot \in 1..MaxSlot, epoch \in 0..MaxEpoch :
          \/ produce_timed(slot, epoch)
          \/ \E d \in -SLOT_DURATION_SECS..SLOT_DURATION_SECS, executes \in BOOLEAN :
                import_timed([ts |-> tip.ts + SatMinus(slot, tip.slot) * SLOT_DURATION_SECS + d,
                              slot |-> slot, epoch |-> epoch, number |-> tip.number + 1], executes)

BoundDrift == tip.number <= MaxHeight /\ Len(path) <= MaxHeight /\ tracker.ts < MaxSlot * (SLOT_DURATION_SECS + 1)

-----------------------------------------------------------------------------
DriftTypeOK == tracker.epoch_drift \in Int /\ tracker.ts \in Nat /\ tip.number \in Nat

\* Between any two blocks that the tracker accepted in one epoch, with no slot lower than
\* the one before, time and slots do not come apart by more than the limit allows from
\* either side, whichever blocks were refused in between, before or after the tracker was
\* saved (DriftTracker::validate_and_update, validate_block_drift, import_block).
EpochSkewBounded ==
    \A i, j \in 1..Len(path) :
        i < j /\ (\A k \in i..(j - 1) : path[k][2] <= path[k + 1][2]) =>
            Abs((path[j][1] - path[i][1]) - (path[j][2] - path[i][2]) * SLOT_DURATION_SECS)
                <= 2 * MAX_CUMULATIVE_DRIFT_PER_EPOCH
=============================================================================
