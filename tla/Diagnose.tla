------------------------------ MODULE Diagnose ------------------------------
(***************************************************************************)
(* The diagnosis of a slow training job: step_detector.py writes the       *)
(* durations of the steps, and diagnose.py looks for changes in them, maps *)
(* the steps of a change back to lines of the raw trace of the first       *)
(* process, and blames another process whose line of the same number is    *)
(* late often enough in the lines of a change.                             *)
(*                                                                         *)
(* Each process is judged against the first; of the rest only the length   *)
(* of the shortest trace matters to it.  So one is judged here, by the     *)
(* lines of its trace that are more than m_us behind those of the first;   *)
(* the shortest trace, which no range of lines exceeds, is any process's.  *)
(***************************************************************************)
EXTENDS StepDetector, ChangePoint

CONSTANTS Files,         \* sequences of records [ts, type, enter]
          OtherTraces(_),\* sets of records [shortest, late], for a base length
          N, PThresh     \* detect_slow_in_range: n and p_thresh

ASSUME DiagnoseAssumption ==
    /\ N \in Nat \ {0} /\ PThresh \in 0 .. 100
    /\ Files \subseteq Seq([ts : Int, type : STRING, enter : BOOLEAN])
    /\ \A f \in Files : \A o \in OtherTraces(Len(f)) :
          o.shortest \in Nat /\ o.late \subseteq Nat

VARIABLES phase,         \* "csv", "changes", "detect", "judge"
          lines,         \* the raw trace of the first process
          other,         \* of the process that is judged: the lines that are
                         \* late; and the length of the shortest trace but one
          verdicts,      \* what is printed: [step, first, next, slow]
          written        \* history: the options and the steps of the CSV file

diagnoseVars == <<detectorVars, changeVars, phase, lines, other, verdicts,
                  written>>

IsEntry(line) == line.enter

Entry(line) == [ts |-> line.ts, type |-> line.type]

ParseTrace(file) ==
    LET Parsed[k \in 0 .. Len(file)] ==
          IF k = 0 THEN << >>
          ELSE IF IsEntry(file[k]) THEN Append(Parsed[k - 1], Entry(file[k]))
          ELSE Parsed[k - 1]
    IN  Parsed[Len(file)]

Init ==
    /\ lines \in Files /\ DetectorInit(ParseTrace(lines))
    /\ ChangeInit({0})
    /\ phase = "csv"
    /\ other = [shortest |-> 0, late |-> {}] /\ verdicts = << >>
    /\ written = [options |-> NotGiven, steps |-> << >>]

DetectSteps ==
    /\ phase \in {"csv", "detect"} /\ DetectorNext
    /\ UNCHANGED <<changeVars, phase, lines, other, verdicts, written>>

\* The process with the fewest steps decides how many rows are written.
WriteCsv ==
    /\ phase = "csv" /\ mode = "steps"
    /\ phase' = "changes"
    /\ n' \in 0 .. Len(steps)
    /\ written' = [options |-> options, steps |-> steps]
    /\ search' = IF n' < Baseline + Least THEN "found" ELSE "segment"
    /\ UNCHANGED <<detectorVars, seg_start, changepoints, lines, other,
                   verdicts>>

FindChanges ==
    /\ phase = "changes" /\ ChangeNext
    /\ UNCHANGED <<detectorVars, phase, lines, other, verdicts, written>>

\* The steps are looked for again, whatever options the file was written with.
DetectOnBase ==
    /\ phase = "changes" /\ search = "found"
    /\ phase' = "detect" /\ DetectAgain
    /\ UNCHANGED <<changeVars, lines, other, verdicts, written>>

\* What the other trace holds only matters if there is a change to judge.
CompareTraces ==
    /\ phase = "detect" /\ mode = "steps" /\ changepoints # {}
    /\ phase' = "judge"
    /\ other' \in OtherTraces(Len(lines))
    /\ UNCHANGED <<detectorVars, changeVars, lines, verdicts, written>>
-----------------------------------------------------------------------------
\* step_to_raw_line.  The first line that is not before the step.

Line(step) ==
    LET notBefore == {k \in 0 .. Len(lines) - 1 :
                        At(lines, k).ts >= StartNs(At(steps, step))}
    IN IF step >= Len(steps) \/ notBefore = {} THEN Len(lines) - 1
       ELSE Min(notBefore)

Remaining == {cp \in changepoints :
                \A k \in 1 .. Len(verdicts) : verdicts[k].step # cp.step}

Following(cp) == {c.step : c \in {c \in changepoints : c.step > cp.step}}

ShortestTrace == Smaller(Len(lines), other.shortest)

LineEnd(cp) ==
    Smaller(IF Following(cp) = {} THEN ShortestTrace ELSE Line(Min(Following(cp))),
            ShortestTrace)

\* detect_slow_in_range.

Late(k) == IF k \in other.late THEN 1 ELSE 0

Enough(count, of) == 100 * count >= PThresh * of

LateIn(first, next) == Cardinality(other.late \cap (first .. next - 1))

\* Faulty: the window that slides forgets to let go of its oldest line.
SlidingGrows(first, next) ==
    LET InWindow[k \in first + N .. next] ==
          IF k = first + N THEN LateIn(first, k)
          ELSE InWindow[k - 1] + Late(k - 1)
    IN \E k \in first + N .. next : Enough(InWindow[k], N)

\* InWindow[k]: late lines among the N before line k.
Sliding(first, next) ==
    LET InWindow[k \in first + N .. next] ==
          IF k = first + N THEN LateIn(first, k)
          ELSE InWindow[k - 1] + Late(k - 1) - Late(k - 1 - N)
    IN \E k \in first + N .. next : Enough(InWindow[k], N)

SlowInRange(first, next) ==
    IF next - first < N
    THEN Enough(LateIn(first, next), Larger(next - first, 1))
    ELSE Sliding(first, next)

Judge ==
    /\ phase = "judge"
    /\ \E cp \in Remaining :
         /\ \A c \in Remaining : cp.step <= c.step
         /\ \E first \in {Line(cp.step)}, next \in {LineEnd(cp)} :
              verdicts' = Append(verdicts,
                [step |-> cp.step, first |-> first, next |-> next,
                 slow |-> cp.direction = "up" /\ SlowInRange(first, next)])
    /\ UNCHANGED <<detectorVars, changeVars, phase, lines, other, written>>

Next ==
    \/ DetectSteps \/ WriteCsv \/ FindChanges \/ DetectOnBase \/ CompareTraces
    \/ Judge

Spec == Init /\ [][Next]_diagnoseVars

\* The programs run to their end.
FairSpec == Spec /\ WF_diagnoseVars(Next)
-----------------------------------------------------------------------------
\* The lines are those of one thread, or of one processor: in order.
InOrder == \A k \in 2 .. Len(lines) : lines[k - 1].ts < lines[k].ts

\* The line on which the first call of a step of the CSV file was entered.
OwnLine(step) ==
    CHOOSE k \in 0 .. Len(lines) - 1 :
       At(lines, k).ts = StartNs(At(written.steps, step))

ManyLate(first, next) == Enough(LateIn(first, next), Larger(next - first, 1))

\* A process is blamed for a slowdown exactly if it is late in some N lines
\* running, or in the whole of fewer, of the lines that are judged, and never
\* for a recovery.  If the CSV file was written without options, these lie
\* between the first call of the step of the change, which is a step of that
\* file, and the first call of the next change's step: they are not those of
\* another segment, although the steps are detected again.  In a trace out of
\* order they begin and end too early, never too late (diagnose.py).
BlameIsLocal ==
    \A k \in 1 .. Len(verdicts) :
      LET v == verdicts[k]
          last == IF k = Cardinality(changepoints) THEN Len(lines)
                  ELSE OwnLine(Min({cp.step : cp \in changepoints}
                                     \cap (v.step + 1 .. n)))
          next == Smaller(last, ShortestTrace)
          first == OwnLine(v.step)
      IN /\ v.slow <=>
              /\ [step |-> v.step, direction |-> "up"] \in changepoints
              /\ IF v.next - v.first < N THEN ManyLate(v.first, v.next)
                 ELSE \E from \in v.first .. v.next - N : ManyLate(from, from + N)
         /\ written.options = NotGiven =>
              /\ v.first <= first /\ v.next <= next
              /\ InOrder => v.first = first /\ v.next = next

\* The detector, the search and the diagnosis come to an end, and each change
\* that is found is judged (detect_steps, detect_changepoints, main).
Finishes == <>[](phase \in {"detect", "judge"} /\ mode = "steps" /\ Remaining = {})
=============================================================================
