---------------------------- MODULE MCCommitments ----------------------------
(***************************************************************************)
(* Commitments for TLC: two candidates extracted from the same promise     *)
(* (one dedupe key) whose windows open one after the other and close       *)
(* together, on a clock long enough for both to expire after the grace.    *)
(***************************************************************************)
EXTENDS Commitments

CONSTANTS r1, r2

MCKey == [r \in Rows |-> "promise"]
MCEarliest == [r \in Rows |-> IF r = r1 THEN 0 ELSE 1]
MCLatest == [r \in Rows |-> 1]
=============================================================================
