---------------------------- MODULE ContractBase ----------------------------
(***************************************************************************)
(* What the system contracts (kratos-core/src/contracts/) have in common.  *)
(* Each is a structure whose methods the runtime calls one after another,  *)
(* with the accounts taking part and the current block as arguments; the   *)
(* block only grows between calls.                                         *)
(***************************************************************************)
EXTENDS Integers, Sequences, FiniteSetsExt, Functions, TLC

CONSTANTS
    Account,
    MaxBlock      \* bound on the block height

ASSUME ContractAssumption == MaxBlock \in Nat

VARIABLE current_block

NoBlock == -1   \* an Option<BlockNumber> that is None

Advance == current_block < MaxBlock /\ current_block' = current_block + 1

\* Balances and blocks are unsigned: saturating_sub.
SatSub(a, b) == IF a >= b THEN a - b ELSE 0

\* insert of a map
With(f, k, v) == [x \in DOMAIN f \cup {k} |-> IF x = k THEN v ELSE f[x]]

Without(f, keys) == Restrict(f, DOMAIN f \ keys)
=============================================================================
