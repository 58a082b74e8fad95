---------------------------- MODULE ChangePoint ----------------------------
(***************************************************************************)
(* detect_changepoints of changepoint_detector.py, its control: from a     *)
(* segment of Baseline durations the search goes on for an alarm, an alarm *)
(* that is confirmed starts the next segment, and changes too close to the *)
(* end are dropped.  The sums are real numbers: whether one passes its     *)
(* threshold, and whether a window confirms it, are free choices here.     *)
(*                                                                         *)
(* The list of change points is the set of them: their steps only grow.    *)
(***************************************************************************)
EXTENDS Integers

CONSTANTS Baseline,      \* baseline_size
          ConfirmCount   \* confirm_count

ASSUME ChangeAssumption == Baseline \in Nat \ {0} /\ ConfirmCount \in Nat

VARIABLES n,             \* the number of durations
          search,        \* "segment", "filter", "found"
          seg_start,
          changepoints   \* records [step, direction]

changeVars == <<n, search, seg_start, changepoints>>

Directions == {"up", "down"}

\* The least part of a segment, and what must be left beyond the first one.
Least == 5

Smaller(a, b) == IF a < b THEN a ELSE b

Larger(a, b) == IF a > b THEN a ELSE b

SegEnd == Smaller(seg_start + Baseline, n)

ChangeInit(durations) ==
    /\ n \in durations
    /\ seg_start = 0 /\ changepoints = {}
    /\ search = IF n < Baseline + Least THEN "found" ELSE "segment"

\* Faulty: the alarm may be raised by the baseline itself.
AlarmsInBaseline == seg_start .. n - 1

Alarms == SegEnd .. n - 1

\* _confirm: the first of up to five times ConfirmCount windows, of twice
\* that length, that passes.
Count == Larger(ConfirmCount, 1)

Confirmed(trigger) ==
    {j \in trigger .. Smaller(trigger + 5 * Count, n) - 1 :
        Smaller(j + 2 * Count, n) - j >= Count}

\* An alarm that is not confirmed only resets its sum.
FindChange ==
    /\ search = "segment" /\ SegEnd - seg_start >= Least
    /\ \E trigger \in Alarms, direction \in Directions :
         \E j \in Confirmed(trigger) :
           /\ changepoints' = changepoints
                                \cup {[step |-> j, direction |-> direction]}
           /\ seg_start' = j
    /\ UNCHANGED <<n, search>>

NoChange ==
    /\ search = "segment"
    /\ search' = "filter"
    /\ UNCHANGED <<n, seg_start, changepoints>>

DropTail ==
    /\ search = "filter"
    /\ changepoints' = {cp \in changepoints : cp.step + Baseline <= n}
    /\ search' = "found"
    /\ UNCHANGED <<n, seg_start>>

ChangeNext == FindChange \/ NoChange \/ DropTail
-----------------------------------------------------------------------------
\* What is known of the search between two steps.
ChangeTypeOK ==
    /\ n \in Nat /\ seg_start \in Nat
    /\ search \in {"segment", "filter", "found"}
    /\ changepoints \subseteq [step : Nat, direction : Directions]

\* Whatever the durations, changes are a whole baseline apart, the first one a
\* baseline from the start, and those reported a baseline from the end: each
\* mean that a change is reported with is taken over a full baseline of its
\* own (detect_changepoints).
ChangesApart ==
    /\ \A cp \in changepoints :
         /\ cp.step >= Baseline
         /\ search = "found" => cp.step + Baseline <= n
    /\ \A cp, other \in changepoints :
         cp.step < other.step => cp.step + Baseline <= other.step
    /\ \A cp, other \in changepoints : cp.step = other.step => cp = other
=============================================================================
