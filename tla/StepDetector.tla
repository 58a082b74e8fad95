---------------------------- MODULE StepDetector ----------------------------
(***************************************************************************)
(* The step detector of step_detector.py: from the entry events of one     *)
(* traced process to the training steps, which are the repetitions of a    *)
(* pattern of communication calls.  A state machine goes back and forth    *)
(* between looking for a pattern (the least period of what lies ahead,     *)
(* found with the prefix function of Knuth, Morris and Pratt) and matching *)
(* it call by call until a call differs.                                   *)
(*                                                                         *)
(* Indices count from 0, as in the program: see At.                        *)
(***************************************************************************)
EXTENDS Integers, Sequences, FiniteSets, FiniteSetsExt, SequencesExt

CONSTANT Options        \* records [warmup, window]; 0: not given

\* A warm-up of 0 leaves the index where it is for ever.
ASSUME OptionsAssumption ==
    \A o \in Options : o.warmup \in Nat /\ o.window \in Nat

VARIABLES entries,      \* what parse_trace returns: records [ts, type]
          options,
          mode,         \* "detect", "match", or "steps" when they are known
          i,            \* the next entry
          pi,           \* the borders found so far by _detect_pattern
          pat, pat_pos, align_start, step_start_i, steps_before,
          steps

detectorVars == <<entries, options, mode, i, pi, pat, pat_pos,
                  align_start, step_start_i, steps_before, steps>>

At(s, k) == s[k + 1]

Number == Len(entries)

TypeSeq == [k \in 1 .. Number |-> entries[k].type]

Warmup == IF options.warmup # 0 THEN options.warmup
          ELSE Max({3, Min({Number \div 5, 50})})

Window == IF options.window # 0 THEN options.window
          ELSE Max({6, Min({Number \div 3, 60})})

MaxScan == Warmup + 3 * Window

NotGiven == [warmup |-> 0, window |-> 0]

DetectorInit(trace) ==
    /\ entries = trace /\ options \in Options
    /\ mode = "detect" /\ i = 0 /\ pi = << >> /\ steps = << >>
    /\ pat = << >> /\ pat_pos = 0 /\ align_start = 0 /\ step_start_i = 0
    /\ steps_before = 0

\* detect_steps is called again, now without options.
DetectAgain ==
    /\ mode' = "detect" /\ i' = 0 /\ pi' = << >> /\ steps' = << >>
    /\ pat' = << >> /\ pat_pos' = 0 /\ align_start' = 0 /\ step_start_i' = 0
    /\ steps_before' = 0
    /\ options' = NotGiven /\ UNCHANGED entries
-----------------------------------------------------------------------------
\* _detect_pattern, one entry of its loop at a time.  pi[k] is the length of
\* the longest proper border of the first k entries from i on.

Ahead == SubSeq(TypeSeq, i + 1, Min({i + MaxScan, Number}))

\* Faulty: falls back to the start, not to the next shorter border.
NextBorderNaive(s) ==
    IF pi = << >> THEN 0
    ELSE IF s[Last(pi) + 1] = s[Len(pi) + 1] THEN Last(pi) + 1
    ELSE IF s[1] = s[Len(pi) + 1] THEN 1 ELSE 0

NextBorder(s) ==
    LET Extended[j \in 0 .. Len(pi)] ==
          IF s[j + 1] = s[Len(pi) + 1] THEN j + 1
          ELSE IF j = 0 THEN 0 ELSE Extended[pi[j]]
    IN IF pi = << >> THEN 0 ELSE Extended[Last(pi)]

\* The first len entries of s, with a border of this length, are a pattern
\* repeated.
Repeats(s, len, border) ==
    LET period == len - border IN
    /\ len > Warmup
    /\ len >= 2 * period /\ period >= 2
    /\ Cardinality(ToSet(SubSeq(s, 1, period))) >= 2

ScanEntry ==
    /\ mode = "detect" /\ Len(pi) < Len(Ahead)
    /\ \E border \in {NextBorder(Ahead)} :
         IF Repeats(Ahead, Len(pi) + 1, border)
         THEN /\ mode' = "match" /\ pi' = << >>
              /\ pat' = SubSeq(Ahead, 1, Len(pi) + 1 - border)
              /\ pat_pos' = 0 /\ align_start' = i /\ step_start_i' = i
              /\ steps_before' = Len(steps)
         ELSE /\ pi' = Append(pi, border)
              /\ UNCHANGED <<mode, pat, pat_pos, align_start, step_start_i,
                             steps_before>>
    /\ UNCHANGED <<entries, options, i, steps>>

\* Faulty: what was given for the warm-up, although that may be nothing.
SkipGiven == options.warmup

\* i += warmup_limit
Skip == Warmup

NoPattern ==
    /\ mode = "detect" /\ i < Number /\ Len(pi) = Len(Ahead)
    /\ i' = i + Skip /\ pi' = << >>
    /\ UNCHANGED <<entries, options, mode, pat, pat_pos, align_start,
                   step_start_i, steps_before, steps>>
-----------------------------------------------------------------------------
\* The inner loop of detect_steps.

\* A step ends where the next entry is, or with the last one.
Step == [first |-> step_start_i, next |-> i + 1, pattern |-> pat]

\* Faulty: the next step starts one entry late.
BeginStepLate == step_start_i' = i + 2

BeginStep == step_start_i' = i + 1

MatchEntry ==
    /\ mode = "match" /\ i < Number
    /\ At(TypeSeq, i) = At(pat, pat_pos)
    /\ i' = i + 1
    /\ IF pat_pos + 1 = Len(pat)
       THEN steps' = Append(steps, Step) /\ pat_pos' = 0 /\ BeginStep
       ELSE pat_pos' = pat_pos + 1 /\ UNCHANGED <<steps, step_start_i>>
    /\ UNCHANGED <<entries, options, mode, pi, pat, align_start, steps_before>>

ResumeAt == IF Len(steps) = steps_before THEN align_start + Len(pat)
            ELSE step_start_i

Mismatch ==
    /\ mode = "match" /\ i < Number
    /\ At(TypeSeq, i) # At(pat, pat_pos)
    /\ i' = ResumeAt
    /\ mode' = "detect"
    /\ UNCHANGED <<entries, options, pi, pat, pat_pos, align_start,
                   step_start_i, steps_before, steps>>

EndOfTrace ==
    /\ mode \in {"detect", "match"} /\ i >= Number
    /\ mode' = "steps"
    /\ UNCHANGED <<entries, options, i, pi, pat, pat_pos, align_start,
                   step_start_i, steps_before, steps>>

DetectorNext ==
    ScanEntry \/ NoPattern \/ MatchEntry \/ Mismatch \/ EndOfTrace

StartNs(step) == At(entries, step.first).ts
-----------------------------------------------------------------------------
\* The definition that the prefix function is a fast way to.

IsPeriod(s, p) == \A k \in 1 .. Len(s) - p : s[k] = s[k + p]

LeastPeriod(s) == Min({p \in 1 .. Len(s) : IsPeriod(s, p)})

Repeated(s) == LeastPeriod(s) >= 2 /\ 2 * LeastPeriod(s) <= Len(s)

\* The search takes a pattern up at the first stretch longer than the warm-up
\* that is at least two of its least periods long, and takes up that period;
\* it gives up only if there is no such stretch (_detect_pattern).
DetectsPeriod ==
    [][/\ mode = "detect" /\ mode' = "detect" =>
            \A len \in Warmup + 1 .. Len(pi') : ~Repeated(SubSeq(Ahead, 1, len))
       /\ mode = "detect" /\ mode' = "match" =>
            LET s == SubSeq(Ahead, 1, Len(pi) + 1) IN
            Repeated(s) /\ pat' = SubSeq(s, 1, LeastPeriod(s))
      ]_detectorVars

\* Every step is one occurrence of its pattern, steps do not overlap, and no
\* step stands alone: a pattern is only taken up if it occurs twice, so that
\* a whole repetition stands before or behind each step once matching ends
\* (detect_steps; the branch for a pattern that never matched is not reached).
StepsAreWhole ==
    /\ \A k \in 1 .. Len(steps) :
         SubSeq(TypeSeq, steps[k].first + 1, steps[k].next) = steps[k].pattern
    /\ \A k \in 2 .. Len(steps) : steps[k - 1].next <= steps[k].first
    /\ mode # "match" => \A k \in 1 .. Len(steps) :
         \E l \in {k - 1, k + 1} \cap (1 .. Len(steps)) :
           /\ steps[l].pattern = steps[k].pattern
           /\ \/ steps[k].next = steps[l].first
              \/ steps[l].next = steps[k].first
=============================================================================
