-------------------------- MODULE DiagnoseProofs ---------------------------
(***************************************************************************)
(* Proofs about the straggler tools, for any trace, any durations, any     *)
(* baseline, confirmation, window and threshold: that changes are found    *)
(* apart, that the pattern taken up is of the least period there is, that  *)
(* the steps of a trace are repetitions of whole patterns, that the steps  *)
(* of the CSV file are found again, and that a process is blamed for late  *)
(* lines of the change's own range and for no others.                      *)
(*                                                                         *)
(* Where a definition is recursive (the prefix function, parse_trace, the  *)
(* window that slides), what it returns is shown by the least place where  *)
(* it would differ: LeastNumber.                                           *)
(***************************************************************************)
EXTENDS Diagnose, FiniteSetTheorems, SequenceTheorems, WellFoundedInduction, TLAPS

(***************************************************************************)
(* The search for change points.                                           *)
(***************************************************************************)

\* Between two steps of the search: the changes found lie at or before the
\* segment under way, which is why the next one, a baseline further on, is
\* apart from all of them.
ChangeInv ==
    /\ ChangeTypeOK
    /\ ChangesApart
    /\ \A cp \in changepoints : cp.step <= seg_start

\* The whole diagnosis: nothing is found before the durations are read.
DiagnoseInv ==
    /\ ChangeInv
    /\ phase = "csv" => changepoints = {} /\ seg_start = 0

\* The first durations are not there before the file is written.
LEMMA InitInv == Init => DiagnoseInv
  <1> SUFFICES ASSUME Init PROVE DiagnoseInv
    OBVIOUS
  <1>1. /\ n = 0 /\ seg_start = 0 /\ changepoints = {}
        /\ search \in {"segment", "found"}
    BY DEF Init, ChangeInit
  <1> QED
    BY <1>1 DEF DiagnoseInv, ChangeInv, ChangeTypeOK, ChangesApart

\* An alarm lies behind the baseline of the segment, and a confirmation not
\* before the alarm.
LEMMA ConfirmedBehindBaseline ==
  ASSUME ChangeTypeOK, NEW trigger \in Alarms, NEW j \in Confirmed(trigger)
  PROVE  j \in Nat /\ seg_start + Baseline <= j /\ j < n
  <1>1. seg_start \in Nat /\ n \in Nat /\ Baseline \in Nat
    BY ChangeAssumption DEF ChangeTypeOK
  <1>2. /\ trigger \in Int /\ SegEnd <= trigger /\ trigger <= n - 1
    BY <1>1 DEF Alarms, SegEnd, Smaller
  <1>3. seg_start + Baseline <= trigger
    BY <1>1, <1>2 DEF SegEnd, Smaller
  <1>4. Count \in Nat
    BY ChangeAssumption DEF Count, Larger
  <1>5. /\ j \in Int /\ trigger <= j /\ j <= n - 1
    BY <1>1, <1>2, <1>4 DEF Confirmed, Smaller
  <1> QED
    BY <1>1, <1>2, <1>3, <1>5

\* A new change is a baseline behind the segment, hence behind every change.
LEMMA FindChangeInv == ChangeInv /\ FindChange => ChangeInv'
  <1> SUFFICES ASSUME ChangeInv, FindChange PROVE ChangeInv'
    OBVIOUS
  <1>1. PICK trigger \in Alarms, direction \in Directions :
          \E j \in Confirmed(trigger) :
            /\ changepoints' = changepoints
                                 \cup {[step |-> j, direction |-> direction]}
            /\ seg_start' = j
    BY DEF FindChange
  <1>2. PICK j \in Confirmed(trigger) :
            /\ changepoints' = changepoints
                                 \cup {[step |-> j, direction |-> direction]}
            /\ seg_start' = j
    BY <1>1
  <1> DEFINE new == [step |-> j, direction |-> direction]
  <1>3. j \in Nat /\ seg_start + Baseline <= j /\ j < n
    BY <1>1, <1>2, ConfirmedBehindBaseline DEF ChangeInv
  <1>4. /\ seg_start \in Nat /\ n \in Nat /\ Baseline \in Nat \ {0}
        /\ search = "segment" /\ search' = "segment" /\ n' = n
        /\ changepoints \subseteq [step : Nat, direction : Directions]
    BY ChangeAssumption DEF ChangeInv, ChangeTypeOK, FindChange
  <1>5. new \in [step : Nat, direction : Directions] /\ new.step = j
    BY <1>1, <1>3
  <1>6. \A cp \in changepoints :
          cp.step \in Nat /\ cp.step <= seg_start /\ cp.step + Baseline <= j
               /\ cp.step >= Baseline
    BY <1>3, <1>4 DEF ChangeInv, ChangesApart
  <1>7. ChangeTypeOK'
    BY <1>2, <1>4, <1>5, <1>3 DEF ChangeTypeOK
  <1>8. \A cp \in changepoints' : cp.step <= seg_start'
    BY <1>2, <1>3, <1>4, <1>5, <1>6
  <1>9. ChangesApart'
    <2>1. \A cp \in changepoints' : cp.step >= Baseline
      BY <1>2, <1>3, <1>4, <1>5, <1>6
    <2>2. \A cp, o \in changepoints' :
            cp.step < o.step => cp.step + Baseline <= o.step
      <3> TAKE cp, o \in changepoints'
      <3>1. CASE cp \in changepoints /\ o \in changepoints
        BY <3>1 DEF ChangeInv, ChangesApart
      <3>2. CASE o = new
        BY <3>2, <1>2, <1>5, <1>6, <1>4, <1>3
      <3>3. CASE cp = new /\ o \in changepoints
        BY <3>3, <1>5, <1>6, <1>4, <1>3
      <3> QED
        BY <3>1, <3>2, <3>3, <1>2
    <2>3. \A cp, o \in changepoints' : cp.step = o.step => cp = o
      <3> TAKE cp, o \in changepoints'
      <3>1. CASE cp \in changepoints /\ o \in changepoints
        BY <3>1 DEF ChangeInv, ChangesApart
      <3>2. CASE o = new /\ cp \in changepoints
        BY <3>2, <1>5, <1>6, <1>4, <1>3
      <3>3. CASE cp = new /\ o \in changepoints
        BY <3>3, <1>5, <1>6, <1>4, <1>3
      <3> QED
        BY <3>1, <3>2, <3>3, <1>2
    <2> QED
      BY <2>1, <2>2, <2>3, <1>4 DEF ChangesApart
  <1> QED
    BY <1>7, <1>8, <1>9 DEF ChangeInv

\* Dropping the changes at the end leaves the others as far apart.
LEMMA ChangeNextInv == ChangeInv /\ ChangeNext => ChangeInv'
  <1> SUFFICES ASSUME ChangeInv, ChangeNext PROVE ChangeInv'
    OBVIOUS
  <1>1. CASE FindChange
    BY <1>1, FindChangeInv
  <1>2. CASE NoChange
    BY <1>2 DEF NoChange, ChangeInv, ChangeTypeOK, ChangesApart
  <1>3. CASE DropTail
    BY <1>3 DEF DropTail, ChangeInv, ChangeTypeOK, ChangesApart
  <1> QED
    BY <1>1, <1>2, <1>3 DEF ChangeNext

\* The search does not see what else the diagnosis does.
LEMMA ChangeStutter == ChangeInv /\ UNCHANGED changeVars => ChangeInv'
  BY DEF changeVars, ChangeInv, ChangeTypeOK, ChangesApart

\* One step of the diagnosis.
LEMMA NextInv == DiagnoseInv /\ [Next]_diagnoseVars => DiagnoseInv'
  <1> SUFFICES ASSUME DiagnoseInv, [Next]_diagnoseVars PROVE DiagnoseInv'
    OBVIOUS
  <1>1. CASE DetectSteps
    BY <1>1, ChangeStutter DEF DetectSteps, DiagnoseInv, changeVars
  <1>2. CASE WriteCsv
    <2>1. /\ changepoints' = {} /\ seg_start' = 0 /\ n' \in Nat
          /\ phase' = "changes" /\ search' \in {"found", "segment"}
      BY <1>2 DEF WriteCsv, DiagnoseInv
    <2> QED
      BY <2>1 DEF DiagnoseInv, ChangeInv, ChangeTypeOK, ChangesApart
  <1>3. CASE FindChanges
    BY <1>3, ChangeNextInv DEF FindChanges, DiagnoseInv
  <1>4. CASE DetectOnBase
    BY <1>4, ChangeStutter DEF DetectOnBase, DiagnoseInv
  <1>5. CASE CompareTraces
    BY <1>5, ChangeStutter DEF CompareTraces, DiagnoseInv
  <1>6. CASE Judge
    BY <1>6, ChangeStutter DEF Judge, DiagnoseInv, changeVars
  <1>7. CASE UNCHANGED diagnoseVars
    BY <1>7, ChangeStutter DEF diagnoseVars, DiagnoseInv, changeVars
  <1> QED
    BY <1>1, <1>2, <1>3, <1>4, <1>5, <1>6, <1>7 DEF Next

\* Whatever is measured, changes are a whole baseline apart, and those that
\* are reported stand a baseline from either end (detect_changepoints).
THEOREM ChangesAreApart == Spec => []ChangesApart
  <1>1. DiagnoseInv => ChangesApart
    BY DEF DiagnoseInv, ChangeInv
  <1> QED
    BY InitInv, NextInv, <1>1, PTL DEF Spec
-----------------------------------------------------------------------------
(***************************************************************************)
(* Numbers.                                                                *)
(***************************************************************************)
LEMMA LeastNumber ==
    ASSUME NEW T, T \subseteq Nat, T # {}
    PROVE  \E least \in T : \A m \in T : least <= m
<1>1. IsWellFoundedOn(OpToRel(<, Nat), Nat)
  BY NatLessThanWellFounded
<1>2. PICK least \in T : \A m \in T : ~ (<<m, least>> \in OpToRel(<, Nat))
  BY <1>1, WFMin
<1>3. \A m \in T : least <= m
  <2>1. TAKE m \in T
  <2>2. m \in Nat /\ least \in Nat
    OBVIOUS
  <2>3. m < least => <<m, least>> \in OpToRel(<, Nat)
    BY <2>2 DEF OpToRel
  <2>4. ~ (m < least)
    BY <1>2, <2>3
  <2> QED BY <2>2, <2>4
<1> QED BY <1>3

(***************************************************************************)
(* The prefix function.  A border of the first len entries of s is a       *)
(* proper prefix of them, of length b, that is also a suffix.              *)
(***************************************************************************)
Border(s, len, b) == b \in 0 .. len - 1 /\ \A m \in 1 .. b : s[m] = s[m + len - b]

\* A border of a border is one.
LEMMA BorderOfBorder ==
    ASSUME NEW STATE s, NEW len \in Nat, NEW b, Border(s, len, b), NEW c, Border(s, b, c)
    PROVE  Border(s, len, c)
<1>1. b \in 0 .. len - 1 /\ c \in 0 .. b - 1
  BY DEF Border
<1>2. ASSUME NEW m \in 1 .. c PROVE s[m] = s[m + len - c]
  <2>1. s[m] = s[m + b - c]
    BY DEF Border
  <2>2. m + b - c \in 1 .. b
    BY <1>1
  <2>3. s[m + b - c] = s[(m + b - c) + len - b]
    BY <2>2 DEF Border
  <2>4. (m + b - c) + len - b = m + len - c
    BY <1>1
  <2> QED BY <2>1, <2>3, <2>4
<1> QED BY <1>1, <1>2 DEF Border

\* A border that goes on for one more entry.
LEMMA BorderGrows ==
    ASSUME NEW STATE s, NEW len \in Nat, NEW b, Border(s, len, b), s[b + 1] = s[len + 1]
    PROVE  Border(s, len + 1, b + 1)
<1>1. b \in 0 .. len - 1
  BY DEF Border
<1>2. ASSUME NEW m \in 1 .. b + 1 PROVE s[m] = s[m + (len + 1) - (b + 1)]
  <2>1. m + (len + 1) - (b + 1) = m + len - b
    BY <1>1
  <2>2. CASE m \in 1 .. b
    BY <2>1, <2>2 DEF Border
  <2>3. CASE m = b + 1
    <3>1. m + len - b = len + 1
      BY <1>1, <2>3
    <3> QED BY <2>1, <2>3, <3>1
  <2> QED BY <1>1, <2>2, <2>3
<1> QED BY <1>1, <1>2 DEF Border

\* The function that NextBorder computes, up to an argument k.
Extends(s, k, f) ==
    f \in [0 .. k -> Nat] /\
    \A j \in 0 .. k : f[j] = IF s[j + 1] = s[Len(pi) + 1] THEN j + 1
                             ELSE IF j = 0 THEN 0 ELSE f[pi[j]]

BordersOf(s) ==
    pi \in Seq(Nat) /\ \A k \in 1 .. Len(pi) : Border(s, k, pi[k])

\* There is such a function: each value is given by one with a lesser argument.
LEMMA ExtensionExists ==
    ASSUME NEW STATE s, BordersOf(s), NEW k \in 0 .. Len(pi)
    PROVE  \E f : Extends(s, k, f)
<1> DEFINE T == {m \in 0 .. Len(pi) : ~ \E f : Extends(s, m, f)}
<1>1. Len(pi) \in Nat /\ \A j \in 1 .. Len(pi) : pi[j] \in 0 .. j - 1
  BY DEF BordersOf, Border
<1>2. SUFFICES ASSUME T # {} PROVE FALSE
  OBVIOUS
<1>3. PICK m \in T : \A l \in T : m <= l
  <2>1. T \subseteq Nat
    OBVIOUS
  <2> HIDE DEF T
  <2> QED BY <1>2, <2>1, LeastNumber
<1>4. CASE m = 0
  <2> DEFINE f == [j \in 0 .. 0 |-> IF s[j + 1] = s[Len(pi) + 1] THEN j + 1 ELSE 0]
  <2>1. Extends(s, 0, f)
    BY DEF Extends
  <2> QED BY <1>3, <1>4, <2>1
<1>5. CASE m # 0
  <2>1. m \in 1 .. Len(pi) /\ m - 1 \in 0 .. Len(pi) /\ m - 1 \notin T
    BY <1>1, <1>3, <1>5
  <2>2. PICK g : Extends(s, m - 1, g)
    BY <2>1
  <2> DEFINE v == IF s[m + 1] = s[Len(pi) + 1] THEN m + 1 ELSE g[pi[m]]
             f == [j \in 0 .. m |-> IF j = m THEN v ELSE g[j]]
  <2>3. pi[m] \in 0 .. m - 1 /\ g \in [0 .. m - 1 -> Nat]
    BY <1>1, <2>1, <2>2 DEF Extends
  <2>4. v \in Nat
    BY <2>1, <2>3
  <2>5. f[m] = IF s[m + 1] = s[Len(pi) + 1] THEN m + 1 ELSE IF m = 0 THEN 0 ELSE f[pi[m]]
    BY <1>5, <2>1, <2>3
  <2> HIDE DEF v
  <2>6. f \in [0 .. m -> Nat]
    BY <2>1, <2>3, <2>4
  <2>7. ASSUME NEW j \in 0 .. m - 1
        PROVE  f[j] = IF s[j + 1] = s[Len(pi) + 1] THEN j + 1 ELSE IF j = 0 THEN 0 ELSE f[pi[j]]
    <3>1. f[j] = g[j] /\ (j # 0 => pi[j] \in 0 .. m - 1 /\ f[pi[j]] = g[pi[j]])
      <4>1. \A x \in 0 .. m - 1 : x # m /\ x \in 0 .. m
        BY <1>1, <2>1
      <4>2. \A x \in 0 .. m - 1 : f[x] = g[x]
        BY <4>1
      <4>3. j # 0 => pi[j] \in 0 .. m - 1
        BY <1>1, <2>1
      <4> HIDE DEF f
      <4> QED BY <4>2, <4>3
    <3>2. g[j] = IF s[j + 1] = s[Len(pi) + 1] THEN j + 1 ELSE IF j = 0 THEN 0 ELSE g[pi[j]]
      BY <2>2 DEF Extends
    <3> HIDE DEF f
    <3> QED BY <3>1, <3>2
  <2> HIDE DEF f
  <2>8. \A j \in 0 .. m : j \in 0 .. m - 1 \/ j = m
    BY <2>1
  <2>9. Extends(s, m, f)
    BY <2>5, <2>6, <2>7, <2>8 DEF Extends
  <2> QED BY <1>3, <2>9
<1> QED BY <1>4, <1>5

\* It takes a border of what is scanned to one of that and the next entry.
LEMMA ExtensionBorder ==
    ASSUME NEW STATE s, BordersOf(s), pi # << >>, NEW f, Extends(s, Len(pi), f),
           NEW j, Border(s, Len(pi), j)
    PROVE  Border(s, Len(pi) + 1, f[j])
<1> DEFINE len == Len(pi)
           T == {m \in 0 .. len - 1 : Border(s, len, m) /\ ~Border(s, len + 1, f[m])}
<1>1. len \in Nat \ {0} /\ j \in 0 .. len - 1
  BY DEF BordersOf, Border
<1>2. SUFFICES ASSUME T # {} PROVE FALSE
  BY <1>1
<1>3. PICK m \in T : \A l \in T : m <= l
  <2>1. T \subseteq Nat
    OBVIOUS
  <2> HIDE DEF T
  <2> QED BY <1>2, <2>1, LeastNumber
<1>4. /\ m \in 0 .. len - 1 /\ Border(s, len, m) /\ ~Border(s, len + 1, f[m])
      /\ f[m] = IF s[m + 1] = s[len + 1] THEN m + 1 ELSE IF m = 0 THEN 0 ELSE f[pi[m]]
  BY <1>1, <1>3 DEF Extends
<1>5. CASE s[m + 1] = s[len + 1]
  BY <1>1, <1>4, <1>5, BorderGrows
<1>6. CASE s[m + 1] # s[len + 1] /\ m = 0
  <2>1. f[m] = 0
    BY <1>4, <1>6
  <2>2. Border(s, len + 1, 0)
    BY <1>1 DEF Border
  <2> QED BY <1>4, <2>1, <2>2
<1>7. CASE s[m + 1] # s[len + 1] /\ m # 0
  <2>1. f[m] = f[pi[m]] /\ m \in 1 .. len
    BY <1>1, <1>4, <1>7
  <2>2. Border(s, m, pi[m])
    BY <2>1 DEF BordersOf
  <2>3. Border(s, len, pi[m])
    BY <1>1, <1>4, <2>2, BorderOfBorder
  <2>4. pi[m] < m /\ pi[m] \in 0 .. len - 1
    BY <1>1, <1>4, <2>2, <2>3 DEF Border
  <2>5. pi[m] \notin T
    BY <1>1, <1>3, <1>4, <2>4
  <2> QED BY <1>4, <2>1, <2>3, <2>4, <2>5
<1> QED BY <1>5, <1>6, <1>7

\* What _detect_pattern stores for the next entry is given by this function.
LEMMA NextBorderExtends ==
    ASSUME NEW STATE s, BordersOf(s), pi # << >>
    PROVE  \E f : Extends(s, Len(pi), f) /\ NextBorder(s) = f[pi[Len(pi)]]
<1>0. Len(pi) \in Nat
  BY DEF BordersOf
<1> DEFINE Table(f) == f = [j \in 0 .. Len(pi) |->
               IF s[j + 1] = s[Len(pi) + 1] THEN j + 1
               ELSE IF j = 0 THEN 0 ELSE f[pi[j]]]
           e == CHOOSE f : Table(f)
<1>1. PICK g : Extends(s, Len(pi), g)
  BY <1>0, ExtensionExists
<1>2. Table(g)
  BY <1>1 DEF Extends
<1>3. Table(e)
  <2> HIDE DEF Table
  <2> QED BY <1>2
<1>4. NextBorder(s) = e[Last(pi)]
  BY DEF NextBorder
<1> HIDE DEF e
<1>5. e = [j \in 0 .. Len(pi) |-> IF s[j + 1] = s[Len(pi) + 1] THEN j + 1
                                 ELSE IF j = 0 THEN 0 ELSE e[pi[j]]]
  BY <1>3
<1>6. \A j \in 0 .. Len(pi) : e[j] = IF s[j + 1] = s[Len(pi) + 1] THEN j + 1
                                    ELSE IF j = 0 THEN 0 ELSE e[pi[j]]
  BY <1>5
<1>7. e \in [0 .. Len(pi) -> Nat]
  <2> DEFINE T == {m \in 0 .. Len(pi) : e[m] \notin Nat}
  <2>1. SUFFICES ASSUME T # {} PROVE FALSE
    BY <1>5
  <2>2. PICK m \in T : \A l \in T : m <= l
    <3>1. T \subseteq Nat
      BY <1>0
    <3> HIDE DEF T
    <3> QED BY <2>1, <3>1, LeastNumber
  <2>3. m \in 0 .. Len(pi) /\ e[m] \notin Nat
    BY <2>2
  <2>4. m # 0 /\ e[m] = e[pi[m]]
    BY <1>0, <1>6, <2>3
  <2>5. pi[m] \in 0 .. m - 1
    BY <1>0, <2>3, <2>4 DEF BordersOf, Border
  <2>6. pi[m] \notin T /\ pi[m] \in 0 .. Len(pi)
    BY <1>0, <2>2, <2>3, <2>5
  <2> QED BY <2>3, <2>4, <2>6
<1>8. Extends(s, Len(pi), e)
  BY <1>6, <1>7 DEF Extends
<1>9. Last(pi) = pi[Len(pi)]
  BY DEF Last
<1> QED BY <1>4, <1>8, <1>9

\* It is a border.
LEMMA NextBorderIsBorder ==
    ASSUME NEW STATE s, BordersOf(s)
    PROVE  Border(s, Len(pi) + 1, NextBorder(s))
<1>1. Len(pi) \in Nat
  BY DEF BordersOf
<1>2. CASE pi = << >>
  <2>1. NextBorder(s) = 0
    BY <1>2 DEF NextBorder
  <2> QED BY <1>1, <2>1 DEF Border
<1>3. CASE pi # << >>
  <2>1. PICK f : Extends(s, Len(pi), f) /\ NextBorder(s) = f[pi[Len(pi)]]
    BY <1>3, NextBorderExtends
  <2>2. Border(s, Len(pi), pi[Len(pi)])
    BY <1>1, <1>3 DEF BordersOf
  <2> QED BY <1>3, <2>1, <2>2, ExtensionBorder
<1> QED BY <1>2, <1>3
-----------------------------------------------------------------------------
(***************************************************************************)
(* What parse_trace returns: the entry events of the file.                 *)
(***************************************************************************)
Lines   == [ts : Int, type : STRING, enter : BOOLEAN]
Entries == [ts : Int, type : STRING]

\* The entries are lines of the file.
TakenFrom(file, s) == \A k \in 1 .. Len(s) : \E x \in 1 .. Len(file) : s[k] = Entry(file[x])

Parses(file, k, f) ==
    \A j \in 0 .. k : /\ f[j] \in Seq(Entries) /\ TakenFrom(file, f[j])
                      /\ f[j] = IF j = 0 THEN << >>
                                ELSE IF IsEntry(file[j]) THEN Append(f[j - 1], Entry(file[j]))
                                ELSE f[j - 1]

LEMMA OneMoreLine ==
    ASSUME NEW STATE file, file \in Seq(Lines), NEW k \in 1 .. Len(file),
           NEW s \in Seq(Entries), TakenFrom(file, s)
    PROVE  /\ Append(s, Entry(file[k])) \in Seq(Entries)
           /\ TakenFrom(file, Append(s, Entry(file[k])))
<1> DEFINE e == Entry(file[k])
           t == Append(s, e)
<1>1. e \in Entries
  <2>1. file[k] \in Lines
    OBVIOUS
  <2> QED BY <2>1 DEF Entry, Lines, Entries
<1>2. Len(s) \in Nat /\ e = Entry(file[k])
  OBVIOUS
<1> HIDE DEF e
<1>3. /\ t \in Seq(Entries) /\ Len(t) = Len(s) + 1 /\ t[Len(s) + 1] = e
      /\ \A j \in 1 .. Len(s) : t[j] = s[j]
  BY <1>1
<1> HIDE DEF t
<1>4. TakenFrom(file, t)
  <2> SUFFICES ASSUME NEW j \in 1 .. Len(t) PROVE \E x \in 1 .. Len(file) : t[j] = Entry(file[x])
    BY DEF TakenFrom
  <2>1. CASE j \in 1 .. Len(s)
    BY <1>3, <2>1 DEF TakenFrom
  <2>2. CASE j = Len(s) + 1
    BY <1>2, <1>3, <2>2
  <2> QED BY <1>2, <1>3, <2>1, <2>2
<1> QED BY <1>2, <1>3, <1>4 DEF t

LEMMA ParsedExists ==
    ASSUME NEW STATE file, file \in Seq(Lines), NEW k \in 0 .. Len(file)
    PROVE  \E f : f = [j \in 0 .. k |-> f[j]] /\ Parses(file, k, f)
<1> DEFINE T == {m \in 0 .. Len(file) : ~ \E f : f = [j \in 0 .. m |-> f[j]] /\ Parses(file, m, f)}
<1>1. SUFFICES ASSUME T # {} PROVE FALSE
  OBVIOUS
<1>2. PICK m \in T : \A l \in T : m <= l
  <2>1. T \subseteq Nat
    OBVIOUS
  <2> HIDE DEF T
  <2> QED BY <1>1, <2>1, LeastNumber
<1>3. CASE m = 0
  <2> DEFINE f == [j \in 0 .. 0 |-> << >>]
  <2>1. Parses(file, 0, f)
    BY DEF Parses, TakenFrom
  <2> QED BY <1>2, <1>3, <2>1
<1>4. CASE m # 0
  <2>1. m \in 1 .. Len(file) /\ m - 1 \in 0 .. Len(file) /\ m - 1 \notin T
    BY <1>2, <1>4
  <2>2. PICK g : Parses(file, m - 1, g)
    BY <2>1
  <2> DEFINE v == IF IsEntry(file[m]) THEN Append(g[m - 1], Entry(file[m])) ELSE g[m - 1]
             f == [j \in 0 .. m |-> IF j = m THEN v ELSE g[j]]
  <2>3. g[m - 1] \in Seq(Entries) /\ TakenFrom(file, g[m - 1])
    BY <2>1, <2>2 DEF Parses
  <2>4. v \in Seq(Entries) /\ TakenFrom(file, v)
    <3>1. /\ Append(g[m - 1], Entry(file[m])) \in Seq(Entries)
          /\ TakenFrom(file, Append(g[m - 1], Entry(file[m])))
      BY <2>1, <2>3, OneMoreLine
    <3> QED BY <2>3, <3>1
  <2>5. f[m] = v /\ f[m - 1] = g[m - 1]
    BY <2>1
  <2>6. \A j \in 0 .. m - 1 : f[j] = g[j] /\ (j # 0 => f[j - 1] = g[j - 1])
    BY <2>1
  <2>7. f = [j \in 0 .. m |-> f[j]]
    OBVIOUS
  <2>8. v = IF IsEntry(file[m]) THEN Append(f[m - 1], Entry(file[m])) ELSE f[m - 1]
    BY <2>5
  <2> HIDE DEF f, v
  <2>9. Parses(file, m, f)
    <3> SUFFICES ASSUME NEW j \in 0 .. m
                 PROVE  /\ f[j] \in Seq(Entries) /\ TakenFrom(file, f[j])
                        /\ f[j] = IF j = 0 THEN << >>
                                  ELSE IF IsEntry(file[j]) THEN Append(f[j - 1], Entry(file[j]))
                                  ELSE f[j - 1]
      BY DEF Parses
    <3>1. CASE j = m
      BY <1>4, <2>4, <2>5, <2>8, <3>1
    <3>2. CASE j \in 0 .. m - 1
      BY <2>2, <2>6, <3>2 DEF Parses
    <3> QED BY <2>1, <3>1, <3>2
  <2> QED BY <1>2, <2>7, <2>9
<1> QED BY <1>3, <1>4

LEMMA ParseTraceEntries ==
    ASSUME NEW STATE file, file \in Seq(Lines)
    PROVE  ParseTrace(file) \in Seq(Entries) /\ TakenFrom(file, ParseTrace(file))
<1> DEFINE Table(f) == f = [k \in 0 .. Len(file) |->
               IF k = 0 THEN << >>
               ELSE IF IsEntry(file[k]) THEN Append(f[k - 1], Entry(file[k]))
               ELSE f[k - 1]]
           e == CHOOSE f : Table(f)
<1>1. Len(file) \in Nat
  OBVIOUS
<1>2. PICK g : g = [j \in 0 .. Len(file) |-> g[j]] /\ Parses(file, Len(file), g)
  BY <1>1, ParsedExists
<1>3. Table(g)
  BY <1>2 DEF Parses
<1>4. Table(e)
  <2> HIDE DEF Table
  <2> QED BY <1>3
<1>5. ParseTrace(file) = e[Len(file)]
  BY DEF ParseTrace
<1> HIDE DEF e
<1>6. \A k \in 0 .. Len(file) : e[k] = IF k = 0 THEN << >>
               ELSE IF IsEntry(file[k]) THEN Append(e[k - 1], Entry(file[k]))
               ELSE e[k - 1]
  BY <1>4
<1> DEFINE Good(k) == e[k] \in Seq(Entries) /\ TakenFrom(file, e[k])
           T == {m \in 0 .. Len(file) : ~Good(m)}
<1>7. T = {}
  <2> SUFFICES ASSUME T # {} PROVE FALSE
    OBVIOUS
  <2>1. PICK m \in T : \A l \in T : m <= l
    <3>1. T \subseteq Nat
      OBVIOUS
    <3> HIDE DEF T
    <3> QED BY <3>1, LeastNumber
  <2>2. m # 0
    <3>1. 0 \in 0 .. Len(file)
      BY <1>1
    <3>2. e[0] = << >>
      BY <1>6, <3>1, Zenon
    <3>3. << >> \in Seq(Entries) /\ TakenFrom(file, << >>)
      BY DEF TakenFrom
    <3> QED BY <3>2, <3>3
  <2>3. m \in 1 .. Len(file) /\ Good(m - 1)
    BY <1>1, <2>1, <2>2
  <2>4. Good(m)
    <3>1. /\ Append(e[m - 1], Entry(file[m])) \in Seq(Entries)
          /\ TakenFrom(file, Append(e[m - 1], Entry(file[m])))
      BY <2>3, OneMoreLine
    <3>2. m \in 0 .. Len(file) /\ m # 0
      BY <1>1, <2>3
    <3>3. e[m] = Append(e[m - 1], Entry(file[m])) \/ e[m] = e[m - 1]
      BY <1>6, <3>2, Zenon
    <3> QED BY <2>3, <3>1, <3>3
  <2> QED BY <2>1, <2>4
<1> QED BY <1>1, <1>5, <1>7
-----------------------------------------------------------------------------
(***************************************************************************)
(* The step detector.  While it matches a pattern, the two occurrences     *)
(* that made it take the pattern up lie ahead of where it began; steps of  *)
(* that pattern follow each other without a gap.                           *)
(***************************************************************************)
StepRecord == [first : Nat, next : Nat, pattern : Seq(STRING)]

NextTo(k, l) ==
    /\ steps[l].pattern = steps[k].pattern
    /\ steps[k].next = steps[l].first \/ steps[l].next = steps[k].first

Paired(upto) == \A k \in 1 .. upto : \E l \in {k - 1, k + 1} \cap (1 .. upto) : NextTo(k, l)

WholeSteps ==
    /\ \A k \in 1 .. Len(steps) :
         SubSeq(TypeSeq, steps[k].first + 1, steps[k].next) = steps[k].pattern
    /\ \A k \in 1 .. Len(steps) : steps[k].first < Number
    /\ \A k \in 2 .. Len(steps) : steps[k - 1].next <= steps[k].first

EndBefore(at) == \A k \in 1 .. Len(steps) : steps[k].next <= at

BordersFound == BordersOf(Ahead) /\ Len(pi) <= Len(Ahead)

Occurs(at) == \A m \in 1 .. Len(pat) : TypeSeq[at + m] = pat[m]

\* The steps of the pattern that is matched.
Chain ==
    /\ \A k \in steps_before + 1 .. Len(steps) : steps[k].pattern = pat
    /\ \A k \in steps_before + 2 .. Len(steps) : steps[k - 1].next = steps[k].first
    /\ Len(steps) > steps_before => steps[Len(steps)].next = step_start_i

Position ==
    /\ pat # << >> /\ pat_pos \in 0 .. Len(pat) - 1
    /\ align_start \in Nat /\ align_start + 2 * Len(pat) <= Number
    /\ Occurs(align_start) /\ Occurs(align_start + Len(pat))
    /\ steps_before \in 0 .. Len(steps)
    /\ Len(steps) = steps_before => step_start_i = align_start
    /\ Len(steps) = steps_before + 1 => step_start_i = align_start + Len(pat)
    /\ i = step_start_i + pat_pos /\ i <= Number
    /\ \A m \in 1 .. pat_pos : TypeSeq[step_start_i + m] = pat[m]

DetectorTypes ==
    /\ entries \in Seq(Entries) /\ i \in Nat /\ step_start_i \in Nat /\ pat \in Seq(STRING)
    /\ options.warmup \in Nat /\ options.window \in Nat
    /\ mode \in {"detect", "match", "steps"}
    /\ steps \in Seq(StepRecord)

DetectorInv ==
    /\ DetectorTypes /\ WholeSteps
    /\ mode = "detect" => BordersFound
    /\ mode = "match" =>
         pi = << >> /\ Position /\ Chain /\ Paired(steps_before) /\ EndBefore(step_start_i)
    /\ mode # "match" => Paired(Len(steps)) /\ EndBefore(i)

LEMMA MaxOfTwo ==
    ASSUME NEW a \in Int, NEW b \in Int
    PROVE  Max({a, b}) = IF a <= b THEN b ELSE a
<1>1. \E x \in {a, b} : \A y \in {a, b} : x >= y
  OBVIOUS
<1>2. Max({a, b}) \in {a, b} /\ Max({a, b}) >= a /\ Max({a, b}) >= b
  BY <1>1 DEF Max
<1> QED BY <1>2

LEMMA MinOfTwo ==
    ASSUME NEW a \in Int, NEW b \in Int
    PROVE  Min({a, b}) = IF a <= b THEN a ELSE b
<1>1. \E x \in {a, b} : \A y \in {a, b} : x <= y
  OBVIOUS
<1>2. Min({a, b}) \in {a, b} /\ Min({a, b}) <= a /\ Min({a, b}) <= b
  BY <1>1 DEF Min
<1> QED BY <1>2

LEMMA TypeSeqIs ==
    ASSUME DetectorTypes
    PROVE  /\ Number \in Nat /\ TypeSeq \in Seq(STRING) /\ Len(TypeSeq) = Number
<1>1. Number \in Nat /\ \A k \in 1 .. Number : entries[k].type \in STRING
  <2>1. \A k \in 1 .. Number : entries[k] \in Entries
    BY DEF DetectorTypes, Number
  <2> QED BY <2>1 DEF DetectorTypes, Number, Entries
<1>2. TypeSeq \in [1 .. Number -> STRING]
  BY <1>1 DEF TypeSeq
<1>3. TypeSeq \in Seq(STRING)
  BY <1>1, <1>2, SeqDef
<1> QED BY <1>1, <1>2, <1>3

LEMMA ScanTypes ==
    ASSUME DetectorTypes
    PROVE  Warmup \in Nat /\ MaxScan \in Nat
<1>1. Number \in Nat
  BY TypeSeqIs
<1>2. Number \div 5 \in Nat /\ Number \div 3 \in Nat
  BY <1>1, SMTT(30)
<1> DEFINE a == Min({Number \div 5, 50})
           b == Min({Number \div 3, 60})
<1>3. a \in Nat /\ b \in Nat
  <2>1. /\ a = IF Number \div 5 <= 50 THEN Number \div 5 ELSE 50
        /\ b = IF Number \div 3 <= 60 THEN Number \div 3 ELSE 60
    BY <1>2, MinOfTwo
  <2> QED BY <1>2, <2>1
<1> HIDE DEF a, b
<1>4. Max({3, a}) \in Nat /\ Max({6, b}) \in Nat
  BY <1>3, MaxOfTwo
<1>5. Warmup \in Nat /\ Window \in Nat
  BY <1>4 DEF a, b, Warmup, Window, DetectorTypes
<1> QED BY <1>5 DEF MaxScan

\* What _detect_pattern sees is what lies ahead.
LEMMA AheadIs ==
    ASSUME DetectorTypes
    PROVE  /\ Ahead \in Seq(STRING) /\ Len(Ahead) \in Nat
           /\ Len(Ahead) # 0 => i + Len(Ahead) <= Number
           /\ \A m \in 1 .. Len(Ahead) : Ahead[m] = TypeSeq[i + m]
<1> DEFINE end == Min({i + MaxScan, Number})
<1>1. Number \in Nat /\ TypeSeq \in Seq(STRING) /\ Len(TypeSeq) = Number /\ i \in Nat
  BY TypeSeqIs DEF DetectorTypes
<1>2. end \in Int /\ end <= Number
  <2>1. i + MaxScan \in Int
    BY <1>1, ScanTypes
  <2>2. end = IF i + MaxScan <= Number THEN i + MaxScan ELSE Number
    BY <1>1, <2>1, MinOfTwo
  <2> QED BY <1>1, <2>1, <2>2
<1>3. Ahead = SubSeq(TypeSeq, i + 1, end)
  BY DEF Ahead
<1> HIDE DEF end
<1>4. \A k \in i + 1 .. end : TypeSeq[k] \in STRING
  BY <1>1, <1>2
<1>5. i + 1 \in Int
  BY <1>1
<1>6. /\ Ahead \in Seq(STRING)
      /\ Len(Ahead) = IF i + 1 <= end THEN end - (i + 1) + 1 ELSE 0
      /\ \A m \in 1 .. end - (i + 1) + 1 : Ahead[m] = TypeSeq[(i + 1) + m - 1]
  BY <1>2, <1>3, <1>4, <1>5, SubSeqProperties
<1>7. ASSUME NEW m \in 1 .. Len(Ahead) PROVE Ahead[m] = TypeSeq[i + m]
  <2>1. (i + 1) + m - 1 = i + m /\ m \in 1 .. end - (i + 1) + 1
    BY <1>1, <1>2, <1>6
  <2> QED BY <1>6, <2>1
<1> QED BY <1>1, <1>2, <1>6, <1>7

LEMMA SameScan ==
    ASSUME entries' = entries, options' = options, i' = i
    PROVE  Number' = Number /\ TypeSeq' = TypeSeq /\ Ahead' = Ahead
BY DEF Number, TypeSeq, Ahead, MaxScan, Warmup, Window

LEMMA SameTrace ==
    ASSUME entries' = entries
    PROVE  Number' = Number /\ TypeSeq' = TypeSeq
BY DEF Number, TypeSeq

LEMMA InitDetector == Init => DetectorInv
<1> SUFFICES ASSUME Init PROVE DetectorInv
  OBVIOUS
<1>1. /\ lines \in Seq(Lines) /\ entries = ParseTrace(lines) /\ options \in Options
      /\ mode = "detect" /\ i = 0 /\ pi = << >> /\ steps = << >> /\ pat = << >>
      /\ step_start_i = 0
  BY DiagnoseAssumption DEF Init, DetectorInit, Lines
<1>2. entries \in Seq(Entries)
  BY <1>1, ParseTraceEntries
<1>3. DetectorTypes
  BY <1>1, <1>2, OptionsAssumption DEF DetectorTypes
<1>4. Len(steps) = 0 /\ Len(pi) = 0 /\ pi \in Seq(Nat)
  BY <1>1
<1>5. WholeSteps /\ Paired(Len(steps)) /\ EndBefore(i)
  BY <1>4 DEF WholeSteps, Paired, EndBefore
<1>6. BordersFound
  BY <1>3, <1>4, AheadIs DEF BordersFound, BordersOf
<1> QED BY <1>1, <1>3, <1>5, <1>6 DEF DetectorInv

\* A new search, from entry i' on.
LEMMA SearchBegins ==
    ASSUME DetectorTypes', pi' = << >>
    PROVE  BordersFound'
<1>1. Len(pi') = 0 /\ pi' \in Seq(Nat)
  OBVIOUS
<1>2. (Len(Ahead) \in Nat)'
  BY AheadIs, PTL
<1> QED BY <1>1, <1>2 DEF BordersFound, BordersOf

LEMMA NoPatternDetector == ASSUME DetectorInv, NoPattern PROVE DetectorInv'
<1>1. /\ mode = "detect" /\ mode' = "detect" /\ i' = i + Warmup /\ pi' = << >>
      /\ entries' = entries /\ options' = options /\ steps' = steps /\ pat' = pat
      /\ step_start_i' = step_start_i
  BY DEF NoPattern, Skip
<1>2. DetectorTypes /\ WholeSteps /\ Paired(Len(steps)) /\ EndBefore(i)
  BY <1>1 DEF DetectorInv
<1>3. i \in Nat /\ i' \in Nat /\ i <= i' /\ \A k \in 1 .. Len(steps) : steps[k].next \in Nat
  <2>1. \A k \in 1 .. Len(steps) : steps[k] \in StepRecord
    BY <1>2 DEF DetectorTypes
  <2>2. i \in Nat /\ Warmup \in Nat
    <3>1. Warmup \in Nat
      BY <1>2, ScanTypes
    <3> QED BY <1>2, <3>1 DEF DetectorTypes
  <2> QED BY <1>1, <2>1, <2>2 DEF StepRecord
<1>4. DetectorTypes'
  BY <1>1, <1>2, <1>3 DEF DetectorTypes
<1>5. BordersFound'
  BY <1>1, <1>4, SearchBegins
<1>6. WholeSteps' /\ Paired(Len(steps))'
  BY <1>1, <1>2, SameTrace DEF WholeSteps, Paired, NextTo
<1>7. EndBefore(i)'
  BY <1>1, <1>2, <1>3 DEF EndBefore
<1> QED BY <1>1, <1>4, <1>5, <1>6, <1>7 DEF DetectorInv

\* One more entry is scanned, or the pattern is taken up.
ScanTo(border) ==
    IF Repeats(Ahead, Len(pi) + 1, border)
    THEN /\ mode' = "match" /\ pi' = << >>
         /\ pat' = SubSeq(Ahead, 1, Len(pi) + 1 - border)
         /\ pat_pos' = 0 /\ align_start' = i /\ step_start_i' = i
         /\ steps_before' = Len(steps)
    ELSE /\ pi' = Append(pi, border)
         /\ UNCHANGED <<mode, pat, pat_pos, align_start, step_start_i,
                        steps_before>>

LEMMA ScanEntryIs ==
    ASSUME ScanEntry
    PROVE  /\ mode = "detect" /\ Len(pi) < Len(Ahead)
           /\ entries' = entries /\ options' = options /\ i' = i /\ steps' = steps
           /\ ScanTo(NextBorder(Ahead))
<1>1. \E border \in {NextBorder(Ahead)} : ScanTo(border)
  BY DEF ScanEntry, ScanTo
<1> QED BY <1>1 DEF ScanEntry

LEMMA ScanEntryDetector == ASSUME DetectorInv, ScanEntry PROVE DetectorInv'
<1> DEFINE border == NextBorder(Ahead)
           len == Len(pi) + 1
           period == len - border
<1>1. /\ mode = "detect" /\ Len(pi) < Len(Ahead)
      /\ entries' = entries /\ options' = options /\ i' = i /\ steps' = steps
      /\ ScanTo(border)
  BY ScanEntryIs
<1>2. /\ DetectorTypes /\ WholeSteps /\ BordersOf(Ahead) /\ Len(pi) <= Len(Ahead)
      /\ Paired(Len(steps)) /\ EndBefore(i)
  BY <1>1 DEF DetectorInv, BordersFound
<1>3. Ahead' = Ahead /\ TypeSeq' = TypeSeq /\ Number' = Number
  BY <1>1, SameScan
<1>4. Border(Ahead, len, border)
  BY <1>2, NextBorderIsBorder
<1>5. /\ Len(pi) \in Nat /\ len \in Nat /\ len <= Len(Ahead) /\ Len(Ahead) \in Nat
      /\ border \in 0 .. len - 1 /\ i \in Nat /\ Number \in Nat
  BY <1>1, <1>2, <1>4, AheadIs, TypeSeqIs DEF BordersOf, Border, DetectorTypes
<1>6. WholeSteps' /\ Paired(Len(steps))' /\ EndBefore(i)' /\ Len(steps) \in Nat
  <2>1. i' = i /\ steps' = steps
    BY <1>1
  <2>2. WholeSteps'
    BY <1>2, <1>3, <2>1 DEF WholeSteps
  <2>3. Paired(Len(steps))'
    BY <1>2, <2>1 DEF Paired, NextTo
  <2>4. EndBefore(i)' /\ Len(steps) \in Nat
    BY <1>2, <2>1 DEF EndBefore, DetectorTypes
  <2> QED BY <2>2, <2>3, <2>4
<1> HIDE DEF border
<1>7. CASE ~Repeats(Ahead, len, border)
  <2>1. pi' = Append(pi, border) /\ mode' = "detect" /\ pat' = pat /\ step_start_i' = step_start_i
    BY <1>1, <1>7 DEF ScanTo
  <2>2. pi \in Seq(Nat) /\ border \in Nat
    BY <1>2, <1>5 DEF BordersOf
  <2>3. /\ pi' \in Seq(Nat) /\ Len(pi') = len /\ pi'[len] = border
        /\ \A k \in 1 .. Len(pi) : pi'[k] = pi[k]
    BY <2>1, <2>2
  <2>4. ASSUME NEW k \in 1 .. Len(pi') PROVE Border(Ahead, k, pi'[k])
    <3>1. CASE k \in 1 .. Len(pi)
      BY <1>2, <2>3, <3>1 DEF BordersOf
    <3>2. CASE k = len
      BY <1>4, <2>3, <3>2
    <3> QED BY <1>5, <2>3, <3>1, <3>2
  <2>5. BordersFound'
    <3>1. \A k \in 1 .. Len(pi') : Border(Ahead', k, pi'[k])
      BY <1>3, <2>4
    <3> QED BY <1>3, <1>5, <2>3, <3>1 DEF BordersFound, BordersOf, Border
  <2>6. DetectorTypes'
    BY <1>1, <1>2, <2>1 DEF DetectorTypes
  <2> QED BY <1>6, <2>1, <2>5, <2>6 DEF DetectorInv
<1>8. CASE Repeats(Ahead, len, border)
  <2>1. /\ mode' = "match" /\ pi' = << >> /\ pat' = SubSeq(Ahead, 1, period)
        /\ pat_pos' = 0 /\ align_start' = i /\ step_start_i' = i /\ steps_before' = Len(steps)
    <3>1. Len(pi) + 1 - border = period
      BY <1>5
    <3> HIDE DEF period
    <3> QED BY <1>1, <1>8, <3>1, SMTT(30) DEF ScanTo
  <2>2. period \in Int /\ len >= 2 * period /\ period >= 2
    BY <1>5, <1>8 DEF Repeats
  <2>3. period <= border /\ period <= len /\ border + period = len
    BY <1>5, <2>2
  <2> HIDE DEF period
  <2>4. \A k \in 1 .. period : Ahead[k] \in STRING
    BY <1>2, <1>5, <2>2, <2>3, AheadIs
  <2>5. /\ pat' \in Seq(STRING) /\ Len(pat') = period
        /\ \A m \in 1 .. period : pat'[m] = Ahead[m]
    <3>1. /\ SubSeq(Ahead, 1, period) \in Seq(STRING)
          /\ Len(SubSeq(Ahead, 1, period)) = IF 1 <= period THEN period - 1 + 1 ELSE 0
          /\ \A m \in 1 .. period - 1 + 1 : SubSeq(Ahead, 1, period)[m] = Ahead[1 + m - 1]
      BY <2>2, <2>4, SubSeqProperties
    <3>2. period - 1 + 1 = period /\ \A m \in 1 .. period : 1 + m - 1 = m
      BY <2>2
    <3> QED BY <2>1, <2>2, <3>1, <3>2
  <2>6. i + 2 * period <= Number
    <3>1. i + Len(Ahead) <= Number
      BY <1>1, <1>2, <1>5, AheadIs
    <3> QED BY <1>5, <2>2, <3>1
  <2>7. ASSUME NEW m \in 1 .. period
        PROVE  TypeSeq[i + m] = pat'[m] /\ TypeSeq[i + period + m] = pat'[m]
    <3>1. m \in 1 .. Len(Ahead) /\ m + period \in 1 .. Len(Ahead) /\ m \in 1 .. border
      BY <1>5, <2>2, <2>3
    <3>2. Ahead[m] = TypeSeq[i + m] /\ Ahead[m + period] = TypeSeq[i + (m + period)]
      BY <1>2, <3>1, AheadIs
    <3>3. Ahead[m] = Ahead[m + period]
      <4>1. Ahead[m] = Ahead[m + len - border]
        BY <1>4, <3>1 DEF Border
      <4>2. m + len - border = m + period
        BY <1>5, <2>2, <2>3
      <4> QED BY <4>1, <4>2
    <3>4. i + (m + period) = i + period + m
      BY <1>5, <2>2
    <3> QED BY <2>5, <3>2, <3>3, <3>4
  <2>8. pat' # << >> /\ 0 \in 0 .. Len(pat') - 1
    BY <2>2, <2>5
  <2>9. Position'
    <3>1. Occurs(align_start)' /\ Occurs(align_start + Len(pat))'
      BY <1>3, <2>1, <2>5, <2>7 DEF Occurs
    <3>2. /\ (pat # << >> /\ pat_pos \in 0 .. Len(pat) - 1)'
          /\ (align_start \in Nat /\ align_start + 2 * Len(pat) <= Number)'
      BY <1>3, <1>5, <2>1, <2>5, <2>6, <2>8
    <3>3. /\ (steps_before \in 0 .. Len(steps))'
          /\ (Len(steps) = steps_before => step_start_i = align_start)'
          /\ (Len(steps) # steps_before + 1)'
      BY <1>1, <1>6, <2>1
    <3>4. /\ (i = step_start_i + pat_pos /\ i <= Number)'
          /\ (\A m \in 1 .. pat_pos : TypeSeq[step_start_i + m] = pat[m])'
      BY <1>1, <1>3, <1>5, <2>1, <2>2, <2>6
    <3> QED BY <3>1, <3>2, <3>3, <3>4 DEF Position
  <2>10. Chain'
    BY <1>1, <1>6, <2>1 DEF Chain
  <2>11. Paired(steps_before)' /\ EndBefore(step_start_i)'
    BY <1>1, <1>6, <2>1 DEF Paired, NextTo, EndBefore
  <2>12. DetectorTypes'
    BY <1>1, <1>2, <1>5, <2>1, <2>5 DEF DetectorTypes
  <2> QED BY <1>6, <2>1, <2>9, <2>10, <2>11, <2>12 DEF DetectorInv
<1> QED BY <1>7, <1>8

\* The pattern occurs twice from where matching began, so no call differs,
\* and the trace does not end, before two steps are complete.
LEMMA TwoSteps ==
    ASSUME DetectorInv, mode = "match",
           i >= Number \/ At(TypeSeq, i) # At(pat, pat_pos)
    PROVE  Len(steps) >= steps_before + 2
<1>1. DetectorTypes /\ Position
  BY DEF DetectorInv
<1>2. /\ Number \in Nat /\ i \in Nat /\ step_start_i \in Nat /\ Len(pat) \in Nat
      /\ Len(steps) \in Nat /\ pat_pos \in 0 .. Len(pat) - 1 /\ align_start \in Nat
      /\ align_start + 2 * Len(pat) <= Number /\ steps_before \in 0 .. Len(steps)
      /\ i = step_start_i + pat_pos
  BY <1>1, TypeSeqIs DEF DetectorTypes, Position
<1>3. pat_pos + 1 \in 1 .. Len(pat)
  BY <1>2
<1>4. CASE Len(steps) = steps_before
  <2>1. step_start_i = align_start
    BY <1>1, <1>4 DEF Position
  <2>2. i < Number /\ i + 1 = align_start + (pat_pos + 1)
    BY <1>2, <2>1
  <2>3. TypeSeq[align_start + (pat_pos + 1)] = pat[pat_pos + 1]
    BY <1>1, <1>3 DEF Position, Occurs
  <2> QED BY <1>2, <2>2, <2>3 DEF At
<1>5. CASE Len(steps) = steps_before + 1
  <2>1. step_start_i = align_start + Len(pat)
    BY <1>1, <1>5 DEF Position
  <2>2. i < Number /\ i + 1 = (align_start + Len(pat)) + (pat_pos + 1)
    BY <1>2, <2>1
  <2>3. TypeSeq[(align_start + Len(pat)) + (pat_pos + 1)] = pat[pat_pos + 1]
    BY <1>1, <1>3 DEF Position, Occurs
  <2> QED BY <1>2, <2>2, <2>3 DEF At
<1> QED BY <1>2, <1>4, <1>5

LEMMA AllPaired ==
    ASSUME DetectorInv, mode = "match", Len(steps) >= steps_before + 2
    PROVE  Paired(Len(steps)) /\ EndBefore(step_start_i) /\ step_start_i <= i
<1>1. DetectorTypes /\ Position /\ Chain /\ Paired(steps_before) /\ EndBefore(step_start_i)
  BY DEF DetectorInv
<1>2. /\ Len(steps) \in Nat /\ steps_before \in 0 .. Len(steps) /\ step_start_i \in Nat
      /\ Len(pat) \in Nat /\ pat_pos \in 0 .. Len(pat) - 1 /\ i = step_start_i + pat_pos
  BY <1>1 DEF DetectorTypes, Position
<1>3. ASSUME NEW k \in 1 .. Len(steps)
      PROVE  \E l \in {k - 1, k + 1} \cap (1 .. Len(steps)) : NextTo(k, l)
  <2>1. CASE k \in 1 .. steps_before
    <3>1. PICK l \in {k - 1, k + 1} \cap (1 .. steps_before) : NextTo(k, l)
      BY <1>1, <2>1 DEF Paired
    <3>2. l \in {k - 1, k + 1} \cap (1 .. Len(steps))
      BY <1>2
    <3> QED BY <3>1, <3>2
  <2>2. CASE k = steps_before + 1
    <3>1. k + 1 \in 1 .. Len(steps) /\ (k + 1) - 1 = k /\ k + 1 \in steps_before + 2 .. Len(steps)
      BY <1>2, <2>2
    <3>2. steps[(k + 1) - 1].next = steps[k + 1].first
      BY <1>1, <3>1 DEF Chain
    <3>3. steps[k].pattern = pat /\ steps[k + 1].pattern = pat
      <4>1. k \in steps_before + 1 .. Len(steps) /\ k + 1 \in steps_before + 1 .. Len(steps)
        BY <1>2, <2>2, <3>1
      <4> QED BY <1>1, <4>1, SMTT(40) DEF Chain
    <3> QED BY <3>1, <3>2, <3>3 DEF NextTo
  <2>3. CASE k \in steps_before + 2 .. Len(steps)
    <3>1. k - 1 \in 1 .. Len(steps)
      BY <1>2, <2>3
    <3>2. steps[k - 1].next = steps[k].first
      BY <1>1, <2>3 DEF Chain
    <3>3. steps[k].pattern = pat /\ steps[k - 1].pattern = pat
      BY <1>1, <1>2, <2>3 DEF Chain
    <3> QED BY <3>1, <3>2, <3>3 DEF NextTo
  <2> QED BY <1>2, <2>1, <2>2, <2>3
<1> QED BY <1>1, <1>2, <1>3 DEF Paired

LEMMA MismatchDetector == ASSUME DetectorInv, Mismatch PROVE DetectorInv'
<1>1. /\ mode = "match" /\ mode' = "detect" /\ i' = ResumeAt /\ pi' = pi
      /\ entries' = entries /\ options' = options /\ steps' = steps /\ pat' = pat
      /\ step_start_i' = step_start_i
  BY DEF Mismatch
<1>2. Len(steps) >= steps_before + 2
  BY TwoSteps DEF Mismatch
<1>3. /\ DetectorTypes /\ WholeSteps /\ Paired(Len(steps)) /\ EndBefore(step_start_i)
      /\ pi = << >> /\ steps_before \in 0 .. Len(steps)
  BY <1>1, <1>2, AllPaired DEF DetectorInv, Position
<1>4. i' = step_start_i
  <2>1. Len(steps) # steps_before
    BY <1>2, <1>3
  <2> QED BY <1>1, <2>1 DEF ResumeAt
<1>5. DetectorTypes'
  BY <1>1, <1>3, <1>4 DEF DetectorTypes
<1>6. BordersFound'
  BY <1>1, <1>3, <1>5, SearchBegins
<1>7. WholeSteps' /\ Paired(Len(steps))'
  BY <1>1, <1>3, SameTrace DEF WholeSteps, Paired, NextTo
<1>8. EndBefore(i)'
  BY <1>1, <1>3, <1>4 DEF EndBefore
<1> QED BY <1>1, <1>5, <1>6, <1>7, <1>8 DEF DetectorInv

LEMMA EndOfTraceDetector == ASSUME DetectorInv, EndOfTrace PROVE DetectorInv'
<1>1. /\ mode \in {"detect", "match"} /\ i >= Number /\ mode' = "steps" /\ i' = i
      /\ entries' = entries /\ options' = options /\ steps' = steps /\ pat' = pat
      /\ step_start_i' = step_start_i
  BY DEF EndOfTrace
<1>2. DetectorTypes /\ WholeSteps /\ \A k \in 1 .. Len(steps) : steps[k].next \in Nat
  <2>1. DetectorTypes /\ WholeSteps
    BY DEF DetectorInv
  <2>2. \A k \in 1 .. Len(steps) : steps[k] \in StepRecord
    BY <2>1 DEF DetectorTypes
  <2> QED BY <2>1, <2>2 DEF StepRecord
<1>3. Paired(Len(steps)) /\ EndBefore(i)
  <2>1. CASE mode = "detect"
    BY <2>1 DEF DetectorInv
  <2>2. CASE mode = "match"
    <3>1. Len(steps) >= steps_before + 2
      BY <1>1, <2>2, TwoSteps
    <3>2. Paired(Len(steps)) /\ EndBefore(step_start_i) /\ step_start_i <= i
      BY <2>2, <3>1, AllPaired
    <3>3. i \in Nat /\ step_start_i \in Nat
      BY <1>2 DEF DetectorTypes
    <3> QED BY <1>2, <3>2, <3>3 DEF EndBefore
  <2> QED BY <1>1, <2>1, <2>2
<1>4. DetectorTypes'
  BY <1>1, <1>2 DEF DetectorTypes
<1>5. WholeSteps' /\ Paired(Len(steps))'
  BY <1>1, <1>2, <1>3, SameTrace DEF WholeSteps, Paired, NextTo
<1>6. EndBefore(i)'
  BY <1>1, <1>3 DEF EndBefore
<1> QED BY <1>1, <1>4, <1>5, <1>6 DEF DetectorInv

\* One more call of the pattern, or with it the step is complete.
LEMMA MatchEntryDetector == ASSUME DetectorInv, MatchEntry PROVE DetectorInv'
<1>1. /\ mode = "match" /\ i < Number /\ TypeSeq[i + 1] = pat[pat_pos + 1] /\ i' = i + 1
      /\ entries' = entries /\ options' = options /\ mode' = mode /\ pi' = pi /\ pat' = pat
      /\ align_start' = align_start /\ steps_before' = steps_before
  BY DEF MatchEntry, At
<1>2. /\ DetectorTypes /\ WholeSteps /\ pi = << >> /\ Position /\ Chain
      /\ Paired(steps_before) /\ EndBefore(step_start_i)
  BY <1>1 DEF DetectorInv
<1>3. Number' = Number /\ TypeSeq' = TypeSeq
  BY <1>1, SameTrace
<1>4. /\ Number \in Nat /\ i \in Nat /\ step_start_i \in Nat /\ Len(pat) \in Nat
      /\ pat \in Seq(STRING)
      /\ Len(steps) \in Nat /\ pat_pos \in 0 .. Len(pat) - 1 /\ align_start \in Nat
      /\ steps_before \in 0 .. Len(steps) /\ i = step_start_i + pat_pos
  BY <1>2, TypeSeqIs DEF DetectorTypes, Position
<1>5. \A m \in 1 .. pat_pos + 1 : TypeSeq[step_start_i + m] = pat[m]
  <2> SUFFICES ASSUME NEW m \in 1 .. pat_pos + 1 PROVE TypeSeq[step_start_i + m] = pat[m]
    OBVIOUS
  <2>1. CASE m \in 1 .. pat_pos
    BY <1>2, <2>1 DEF Position
  <2>2. CASE m = pat_pos + 1
    <3>1. step_start_i + m = i + 1
      BY <1>4, <2>2
    <3> QED BY <1>1, <2>2, <3>1
  <2> QED BY <1>4, <2>1, <2>2
<1>6. Occurs(align_start)' /\ Occurs(align_start + Len(pat))'
  BY <1>1, <1>2, <1>3 DEF Position, Occurs
<1>7. CASE pat_pos + 1 # Len(pat)
  <2>1. pat_pos' = pat_pos + 1 /\ steps' = steps /\ step_start_i' = step_start_i
    BY <1>7 DEF MatchEntry
  <2>2. pat_pos + 1 \in 0 .. Len(pat) - 1
    BY <1>4, <1>7
  <2>3. Position'
    <3>1. /\ (i = step_start_i + pat_pos /\ i <= Number)'
          /\ (\A m \in 1 .. pat_pos : TypeSeq[step_start_i + m] = pat[m])'
      <4>1. i' = step_start_i' + pat_pos' /\ i' <= Number'
        BY <1>1, <1>3, <1>4, <2>1
      <4>2. \A m \in 1 .. pat_pos' : TypeSeq'[step_start_i' + m] = pat'[m]
        BY <1>1, <1>3, <1>5, <2>1
      <4> QED BY <4>1, <4>2
    <3>2. /\ (pat # << >> /\ pat_pos \in 0 .. Len(pat) - 1)'
          /\ (align_start \in Nat /\ align_start + 2 * Len(pat) <= Number)'
      BY <1>1, <1>2, <1>3, <2>1, <2>2 DEF Position
    <3>3. /\ (steps_before \in 0 .. Len(steps))'
          /\ (Len(steps) = steps_before => step_start_i = align_start)'
          /\ (Len(steps) = steps_before + 1 => step_start_i = align_start + Len(pat))'
      BY <1>1, <1>2, <2>1 DEF Position
    <3> QED BY <1>6, <3>1, <3>2, <3>3 DEF Position
  <2>4. Chain'
    BY <1>1, <1>2, <2>1 DEF Chain
  <2>5. WholeSteps' /\ Paired(steps_before)' /\ EndBefore(step_start_i)'
    BY <1>1, <1>2, <1>3, <2>1 DEF WholeSteps, Paired, NextTo, EndBefore
  <2>6. DetectorTypes'
    BY <1>1, <1>2, <1>4, <2>1 DEF DetectorTypes
  <2> QED BY <1>1, <1>2, <2>3, <2>4, <2>5, <2>6 DEF DetectorInv
<1>8. CASE pat_pos + 1 = Len(pat)
  <2> DEFINE last == Len(steps) + 1
  <2>1. /\ steps' = Append(steps, Step) /\ pat_pos' = 0 /\ step_start_i' = i + 1
        /\ Step = [first |-> step_start_i, next |-> i + 1, pattern |-> pat]
    BY <1>8 DEF MatchEntry, BeginStep, Step
  <2>2. Step \in StepRecord
    BY <1>4, <2>1 DEF StepRecord
  <2>3. steps \in Seq(StepRecord)
    BY <1>2 DEF DetectorTypes
  <2>4. /\ steps' \in Seq(StepRecord) /\ Len(steps') = last /\ steps'[last] = Step
        /\ \A k \in 1 .. Len(steps) : steps'[k] = steps[k]
    <3> DEFINE step == Step
    <3>1. step \in StepRecord /\ steps' = Append(steps, step)
      BY <2>1, <2>2
    <3> HIDE DEF step
    <3>2. /\ steps' \in Seq(StepRecord) /\ Len(steps') = last /\ steps'[last] = step
          /\ \A k \in 1 .. Len(steps) : steps'[k] = steps[k]
      BY <2>3, <3>1
    <3> QED BY <3>2 DEF step
  <2>5. /\ steps'[last].first = step_start_i /\ steps'[last].next = i + 1
        /\ steps'[last].pattern = pat
    BY <2>1, <2>4
  <2>6. last \in Nat /\ \A k \in 1 .. last : k = last \/ k \in 1 .. Len(steps)
    BY <1>4
  <2>7. i + 1 = step_start_i + Len(pat)
    BY <1>4, <1>8
  <2> HIDE DEF last
  <2>8. SubSeq(TypeSeq, step_start_i + 1, i + 1) = pat
    <3>1. TypeSeq \in Seq(STRING) /\ Len(TypeSeq) = Number
      BY <1>2, TypeSeqIs
    <3>2. \A k \in step_start_i + 1 .. i + 1 : TypeSeq[k] \in STRING
      BY <1>1, <1>4, <3>1
    <3> DEFINE s == SubSeq(TypeSeq, step_start_i + 1, i + 1)
    <3>3. /\ s \in Seq(STRING)
          /\ Len(s) = IF step_start_i + 1 <= i + 1 THEN (i + 1) - (step_start_i + 1) + 1 ELSE 0
          /\ \A m \in 1 .. (i + 1) - (step_start_i + 1) + 1 :
                s[m] = TypeSeq[(step_start_i + 1) + m - 1]
      <4>1. step_start_i + 1 \in Int /\ i + 1 \in Int
        BY <1>4
      <4> QED BY <3>2, <4>1, SubSeqProperties
    <3> HIDE DEF s
    <3>4. Len(s) = Len(pat) /\ (i + 1) - (step_start_i + 1) + 1 = Len(pat)
      BY <1>4, <2>7, <3>3
    <3>5. ASSUME NEW m \in 1 .. Len(pat) PROVE s[m] = pat[m]
      <4>1. (step_start_i + 1) + m - 1 = step_start_i + m
        BY <1>4
      <4>2. s[m] = TypeSeq[(step_start_i + 1) + m - 1]
        BY <3>3, <3>4
      <4> QED BY <1>5, <1>8, <4>1, <4>2
    <3>6. s = pat
      BY <1>4, <3>3, <3>4, <3>5, SeqEqual
    <3> QED BY <3>6 DEF s
  <2>9. WholeSteps'
    <3>1. ASSUME NEW k \in 1 .. last
          PROVE  SubSeq(TypeSeq, steps'[k].first + 1, steps'[k].next) = steps'[k].pattern
      <4>1. CASE k = last
        BY <2>5, <2>8, <4>1
      <4>2. CASE k \in 1 .. Len(steps)
        BY <1>2, <2>4, <4>2 DEF WholeSteps
      <4> QED BY <2>6, <4>1, <4>2
    <3>2. ASSUME NEW k \in 2 .. last PROVE steps'[k - 1].next <= steps'[k].first
      <4>1. CASE k = last
        <5>1. k - 1 = Len(steps) /\ k - 1 \in 1 .. Len(steps)
          BY <1>4, <4>1 DEF last
        <5>2. steps[k - 1].next <= step_start_i
          BY <1>2, <5>1 DEF EndBefore
        <5> QED BY <2>4, <2>5, <4>1, <5>1, <5>2
      <4>2. CASE k \in 2 .. Len(steps)
        <5>1. k - 1 \in 1 .. Len(steps) /\ k \in 1 .. Len(steps)
          BY <1>4, <4>2
        <5>2. steps[k - 1].next <= steps[k].first
          BY <1>2, <4>2 DEF WholeSteps
        <5> QED BY <2>4, <5>1, <5>2
      <4> QED BY <2>6, <4>1, <4>2
    <3>3. ASSUME NEW k \in 1 .. last PROVE steps'[k].first < Number
      <4>1. CASE k = last
        BY <1>1, <1>4, <2>5, <4>1
      <4>2. CASE k \in 1 .. Len(steps)
        BY <1>2, <2>4, <4>2 DEF WholeSteps
      <4> QED BY <2>6, <4>1, <4>2
    <3> QED BY <1>3, <2>4, <3>1, <3>2, <3>3 DEF WholeSteps
  <2>10. Paired(steps_before)'
    <3> SUFFICES ASSUME NEW k \in 1 .. steps_before
                 PROVE  \E l \in {k - 1, k + 1} \cap (1 .. steps_before) : NextTo(k, l)'
      BY <1>1 DEF Paired
    <3>1. PICK l \in {k - 1, k + 1} \cap (1 .. steps_before) : NextTo(k, l)
      BY <1>2 DEF Paired
    <3>2. steps'[k] = steps[k] /\ steps'[l] = steps[l]
      BY <1>4, <2>4
    <3>3. NextTo(k, l)'
      BY <3>1, <3>2 DEF NextTo
    <3> QED BY <3>3
  <2>11. EndBefore(step_start_i)'
    <3> SUFFICES ASSUME NEW k \in 1 .. last PROVE steps'[k].next <= i + 1
      BY <2>1, <2>4 DEF EndBefore
    <3>1. CASE k = last
      BY <1>4, <2>5, <3>1
    <3>2. CASE k \in 1 .. Len(steps)
      <4>1. steps[k].next <= step_start_i /\ steps[k] \in StepRecord
        BY <1>2, <2>3, <3>2 DEF EndBefore
      <4> QED BY <1>4, <2>4, <3>2, <4>1, SMTT(40) DEF StepRecord
    <3> QED BY <2>6, <3>1, <3>2
  <2>12. Chain'
    <3>1. ASSUME NEW k \in steps_before + 1 .. last PROVE steps'[k].pattern = pat
      <4>1. CASE k = last
        BY <2>5, <4>1
      <4>2. CASE k \in 1 .. Len(steps)
        <5>1. k \in steps_before + 1 .. Len(steps)
          BY <1>4, <4>2
        <5> QED BY <1>2, <2>4, <4>2, <5>1 DEF Chain
      <4> QED BY <1>4, <2>6, <4>1, <4>2
    <3>2. ASSUME NEW k \in steps_before + 2 .. last
          PROVE  steps'[k - 1].next = steps'[k].first
      <4>1. CASE k = last
        <5>1. k - 1 = Len(steps) /\ k - 1 \in 1 .. Len(steps) /\ Len(steps) > steps_before
          BY <1>4, <4>1 DEF last
        <5>2. steps[k - 1].next = step_start_i
          BY <1>2, <5>1 DEF Chain
        <5> QED BY <2>4, <2>5, <4>1, <5>1, <5>2
      <4>2. CASE k \in 1 .. Len(steps)
        <5>1. k \in steps_before + 2 .. Len(steps) /\ k - 1 \in 1 .. Len(steps)
          BY <1>4, <4>2
        <5>2. steps[k - 1].next = steps[k].first
          BY <1>2, <5>1 DEF Chain
        <5> QED BY <2>4, <4>2, <5>1, <5>2
      <4> QED BY <1>4, <2>6, <4>1, <4>2
    <3> QED BY <1>1, <2>1, <2>4, <2>5, <3>1, <3>2 DEF Chain
  <2>13. Position'
    <3>1. /\ (i = step_start_i + pat_pos /\ i <= Number)'
          /\ (\A m \in 1 .. pat_pos : TypeSeq[step_start_i + m] = pat[m])'
      BY <1>1, <1>3, <1>4, <2>1
    <3>2. /\ (pat # << >> /\ pat_pos \in 0 .. Len(pat) - 1)'
          /\ (align_start \in Nat /\ align_start + 2 * Len(pat) <= Number)'
      BY <1>1, <1>2, <1>3, <1>4, <2>1 DEF Position
    <3>3. (steps_before \in 0 .. Len(steps) /\ Len(steps) # steps_before)'
      BY <1>1, <1>4, <2>4, SMTT(40) DEF last
    <3>4. (Len(steps) = steps_before + 1 => step_start_i = align_start + Len(pat))'
      <4>1. Len(steps') = steps_before + 1 => Len(steps) = steps_before
        BY <1>4, <2>4 DEF last
      <4> QED BY <1>1, <1>2, <2>1, <2>7, <4>1 DEF Position
    <3> QED BY <1>6, <3>1, <3>2, <3>3, <3>4 DEF Position
  <2>14. DetectorTypes'
    BY <1>1, <1>2, <1>4, <2>1, <2>4, SMTT(40) DEF DetectorTypes
  <2> QED BY <1>1, <1>2, <2>9, <2>10, <2>11, <2>12, <2>13, <2>14 DEF DetectorInv
<1> QED BY <1>7, <1>8

LEMMA DetectAgainDetector == ASSUME DetectorInv, DetectAgain PROVE DetectorInv'
<1>1. /\ mode' = "detect" /\ i' = 0 /\ pi' = << >> /\ steps' = << >> /\ pat' = << >>
      /\ step_start_i' = 0 /\ options' = NotGiven /\ entries' = entries
  BY DEF DetectAgain
<1>2. DetectorTypes'
  BY <1>1 DEF DetectorInv, DetectorTypes, NotGiven
<1>3. Len(steps') = 0
  BY <1>1
<1>4. (WholeSteps /\ Paired(Len(steps)) /\ EndBefore(i))'
  BY <1>3 DEF WholeSteps, Paired, EndBefore
<1>5. BordersFound'
  BY <1>1, <1>2, SearchBegins
<1> QED BY <1>1, <1>2, <1>4, <1>5 DEF DetectorInv

LEMMA SameDetector == ASSUME DetectorInv, UNCHANGED detectorVars PROVE DetectorInv'
<1>1. /\ entries' = entries /\ options' = options /\ mode' = mode /\ i' = i /\ pi' = pi
      /\ pat' = pat /\ pat_pos' = pat_pos /\ align_start' = align_start
      /\ step_start_i' = step_start_i /\ steps_before' = steps_before /\ steps' = steps
  BY DEF detectorVars
<1>2. Number' = Number /\ TypeSeq' = TypeSeq /\ Ahead' = Ahead
  BY <1>1, SameScan
<1>3. DetectorTypes' = DetectorTypes /\ WholeSteps' = WholeSteps
  BY <1>1, <1>2 DEF DetectorTypes, WholeSteps
<1>4. BordersFound' = BordersFound
  BY <1>1, <1>2 DEF BordersFound, BordersOf, Border
<1>5. Position' = Position /\ Chain' = Chain
  BY <1>1, <1>2 DEF Position, Occurs, Chain
<1>6. /\ Paired(steps_before)' = Paired(steps_before) /\ Paired(Len(steps))' = Paired(Len(steps))
      /\ EndBefore(step_start_i)' = EndBefore(step_start_i) /\ EndBefore(i)' = EndBefore(i)
  BY <1>1 DEF Paired, NextTo, EndBefore
<1> QED BY <1>1, <1>3, <1>4, <1>5, <1>6 DEF DetectorInv

LEMMA NextDetector == DetectorInv /\ [Next]_diagnoseVars => DetectorInv'
<1> SUFFICES ASSUME DetectorInv, [Next]_diagnoseVars PROVE DetectorInv'
  OBVIOUS
<1>1. CASE DetectSteps
  <2>1. DetectorNext
    BY <1>1 DEF DetectSteps
  <2>2. CASE ScanEntry
    BY <2>2, ScanEntryDetector
  <2>3. CASE NoPattern
    BY <2>3, NoPatternDetector
  <2>4. CASE MatchEntry
    BY <2>4, MatchEntryDetector
  <2>5. CASE Mismatch
    BY <2>5, MismatchDetector
  <2>6. CASE EndOfTrace
    BY <2>6, EndOfTraceDetector
  <2> QED BY <2>1, <2>2, <2>3, <2>4, <2>5, <2>6 DEF DetectorNext
<1>2. CASE DetectOnBase
  BY <1>2, DetectAgainDetector DEF DetectOnBase
<1>3. CASE WriteCsv \/ FindChanges \/ CompareTraces \/ Judge \/ UNCHANGED diagnoseVars
  <2>1. UNCHANGED detectorVars
    BY <1>3 DEF WriteCsv, FindChanges, CompareTraces, Judge, diagnoseVars
  <2> QED BY <2>1, SameDetector
<1> QED BY <1>1, <1>2, <1>3 DEF Next

\* Every step the detector cuts out is one occurrence of its pattern, steps
\* never overlap, and no step stands alone once matching has ended: whatever
\* the trace, the warm-up and the window, also when the detector is run again
\* on the base trace (detect_steps of step_detector.py, main of diagnose.py).
THEOREM StepsAreRepetitions == Spec => []StepsAreWhole
<1>1. DetectorInv => StepsAreWhole
  <2>1. DetectorInv => WholeSteps /\ (mode # "match" => Paired(Len(steps)))
    BY DEF DetectorInv
  <2> QED BY <2>1 DEF StepsAreWhole, WholeSteps, Paired, NextTo
<1> QED BY <1>1, InitDetector, NextDetector, PTL DEF Spec
-----------------------------------------------------------------------------
(***************************************************************************)
(* The search for a pattern takes up the least period of what is scanned:  *)
(* each border found is the longest one, and the longest border of a       *)
(* stretch is what its least period leaves of it.                          *)
(***************************************************************************)

\* A shorter border is a border of a longer one.
LEMMA BorderWithin ==
    ASSUME NEW STATE s, NEW len \in Nat, NEW b, Border(s, len, b), NEW c, Border(s, len, c), c < b
    PROVE  Border(s, b, c)
<1>1. b \in 0 .. len - 1 /\ c \in 0 .. b - 1
  BY DEF Border
<1>2. ASSUME NEW m \in 1 .. c PROVE s[m] = s[m + b - c]
  <2>1. s[m] = s[m + len - c]
    BY DEF Border
  <2>2. m + b - c \in 1 .. b
    BY <1>1
  <2>3. s[m + b - c] = s[(m + b - c) + len - b]
    BY <2>2 DEF Border
  <2>4. (m + b - c) + len - b = m + len - c
    BY <1>1
  <2> QED BY <2>1, <2>3, <2>4
<1> QED BY <1>1, <1>2 DEF Border

\* A border without its last entry.
LEMMA BorderShrinks ==
    ASSUME NEW STATE s, NEW len \in Nat, NEW c, Border(s, len + 1, c), c # 0
    PROVE  Border(s, len, c - 1) /\ s[c] = s[len + 1]
<1>1. c \in 1 .. len
  BY DEF Border
<1>2. s[c] = s[c + (len + 1) - c] /\ c + (len + 1) - c = len + 1
  BY <1>1 DEF Border
<1>3. ASSUME NEW m \in 1 .. c - 1 PROVE s[m] = s[m + len - (c - 1)]
  <2>1. m \in 1 .. c /\ m + (len + 1) - c = m + len - (c - 1)
    BY <1>1
  <2> QED BY <2>1 DEF Border
<1> QED BY <1>1, <1>2, <1>3 DEF Border

Longest(s, k, b) == \A c \in Nat : Border(s, k, c) => c <= b

LongestOf(s) == BordersOf(s) /\ \A k \in 1 .. Len(pi) : Longest(s, k, pi[k])

\* From a border that is not too short, no border of one more entry is missed.
LEMMA ExtensionLongest ==
    ASSUME NEW STATE s, LongestOf(s), pi # << >>, NEW f, Extends(s, Len(pi), f),
           NEW c \in Nat \ {0}, Border(s, Len(pi) + 1, c),
           NEW j, Border(s, Len(pi), j), c - 1 <= j
    PROVE  c <= f[j]
<1> DEFINE len == Len(pi)
           T == {m \in 0 .. len - 1 : Border(s, len, m) /\ c - 1 <= m /\ ~ (c <= f[m])}
<1>1. BordersOf(s) /\ len \in Nat \ {0} /\ j \in 0 .. len - 1
  BY DEF LongestOf, BordersOf, Border
<1>2. Border(s, len, c - 1) /\ s[c] = s[len + 1] /\ c - 1 \in Nat
  BY <1>1, BorderShrinks
<1>3. SUFFICES ASSUME T # {} PROVE FALSE
  BY <1>1
<1>4. PICK m \in T : \A l \in T : m <= l
  <2>1. T \subseteq Nat
    OBVIOUS
  <2> HIDE DEF T
  <2> QED BY <1>3, <2>1, LeastNumber
<1>5. /\ m \in 0 .. len - 1 /\ Border(s, len, m) /\ c - 1 <= m /\ ~ (c <= f[m])
      /\ f[m] = IF s[m + 1] = s[len + 1] THEN m + 1 ELSE IF m = 0 THEN 0 ELSE f[pi[m]]
  BY <1>1, <1>4 DEF Extends
<1>6. s[m + 1] # s[len + 1]
  <2>1. s[m + 1] = s[len + 1] => f[m] = m + 1
    BY <1>5
  <2> QED BY <1>2, <1>5, <2>1
<1>7. c - 1 < m
  <2>1. c # m + 1
    BY <1>2, <1>6
  <2> QED BY <1>2, <1>5, <2>1
<1>8. m \in 1 .. len /\ f[m] = f[pi[m]]
  BY <1>1, <1>2, <1>5, <1>6, <1>7
<1>9. Border(s, m, c - 1) /\ Border(s, m, pi[m]) /\ c - 1 <= pi[m]
  <2>1. Border(s, m, c - 1)
    BY <1>1, <1>2, <1>5, <1>7, BorderWithin
  <2>2. Border(s, m, pi[m]) /\ Longest(s, m, pi[m])
    BY <1>8 DEF LongestOf, BordersOf
  <2> QED BY <1>2, <2>1, <2>2 DEF Longest
<1>10. Border(s, len, pi[m]) /\ pi[m] \in 0 .. m - 1
  <2>1. pi[m] \in 0 .. m - 1
    BY <1>9 DEF Border
  <2>2. Border(s, len, pi[m])
    BY <1>1, <1>5, <1>9, BorderOfBorder
  <2> QED BY <2>1, <2>2
<1>11. pi[m] \in T
  <2>1. pi[m] \in 0 .. len - 1
    <3>1. pi[m] \in 0 .. m - 1 /\ m \in 0 .. len - 1 /\ len \in Nat
      BY <1>1, <1>5, <1>10
    <3> HIDE DEF T, len
    <3> QED BY <3>1
  <2>2. ~ (c <= f[pi[m]])
    BY <1>5, <1>8
  <2> QED BY <1>9, <1>10, <2>1, <2>2
<1>12. ~ (m <= pi[m])
  BY <1>5, <1>10
<1> HIDE DEF T
<1> QED BY <1>4, <1>11, <1>12

\* What _detect_pattern stores for the next entry is the longest border.
LEMMA NextBorderIsLongest ==
    ASSUME NEW STATE s, LongestOf(s)
    PROVE  Longest(s, Len(pi) + 1, NextBorder(s))
<1>1. BordersOf(s) /\ Len(pi) \in Nat
  BY DEF LongestOf, BordersOf
<1>2. NextBorder(s) \in 0 .. Len(pi)
  <2>1. Border(s, Len(pi) + 1, NextBorder(s))
    BY <1>1, NextBorderIsBorder
  <2> QED BY <1>1, <2>1 DEF Border
<1>3. SUFFICES ASSUME NEW c \in Nat, Border(s, Len(pi) + 1, c), c # 0 PROVE c <= NextBorder(s)
  BY <1>2 DEF Longest
<1>4. c - 1 \in 0 .. Len(pi) - 1 /\ Border(s, Len(pi), c - 1)
  BY <1>1, <1>3, BorderShrinks DEF Border
<1>5. pi # << >>
  BY <1>4
<1>6. PICK f : Extends(s, Len(pi), f) /\ NextBorder(s) = f[pi[Len(pi)]]
  BY <1>1, <1>5, NextBorderExtends
<1>7. Border(s, Len(pi), pi[Len(pi)]) /\ c - 1 <= pi[Len(pi)]
  <2>1. Len(pi) \in 1 .. Len(pi)
    BY <1>1, <1>4
  <2>2. Border(s, Len(pi), pi[Len(pi)]) /\ Longest(s, Len(pi), pi[Len(pi)])
    BY <2>1 DEF LongestOf, BordersOf
  <2> QED BY <1>4, <2>2 DEF Longest
<1> QED BY <1>3, <1>5, <1>6, <1>7, ExtensionLongest

\* A stretch of len entries, as a sequence of its own.
Stretch(s, len) == SubSeq(s, 1, len)

LEMMA StretchIs ==
    ASSUME NEW STATE s, s \in Seq(STRING), NEW len \in 1 .. Len(s)
    PROVE  /\ Stretch(s, len) \in Seq(STRING) /\ Len(Stretch(s, len)) = len
           /\ \A m \in 1 .. len : Stretch(s, len)[m] = s[m]
<1>1. Len(s) \in Nat /\ \A m \in 1 .. len : s[m] \in STRING
  OBVIOUS
<1>2. /\ SubSeq(s, 1, len) \in Seq(STRING)
      /\ Len(SubSeq(s, 1, len)) = IF 1 <= len THEN len - 1 + 1 ELSE 0
      /\ \A m \in 1 .. len - 1 + 1 : SubSeq(s, 1, len)[m] = s[1 + m - 1]
  BY <1>1, SubSeqProperties
<1>3. len - 1 + 1 = len /\ \A m \in 1 .. len : 1 + m - 1 = m
  BY <1>1
<1> QED BY <1>2, <1>3 DEF Stretch

\* The longest border leaves the least period.
LEMMA LongestLeavesLeast ==
    ASSUME NEW STATE s, s \in Seq(STRING), NEW len \in 1 .. Len(s),
           NEW b, Border(s, len, b), Longest(s, len, b)
    PROVE  LeastPeriod(Stretch(s, len)) = len - b
<1> DEFINE u == Stretch(s, len)
           P == {p \in 1 .. Len(u) : IsPeriod(u, p)}
<1>1. /\ Len(u) = len /\ \A m \in 1 .. len : u[m] = s[m]
      /\ b \in 0 .. len - 1 /\ len \in Nat
  BY StretchIs DEF Border
<1> HIDE DEF u
<1>2. len - b \in P
  <2>1. len - b \in 1 .. len /\ len - (len - b) = b
    BY <1>1
  <2>2. ASSUME NEW k \in 1 .. b PROVE u[k] = u[k + (len - b)]
    <3>1. k \in 1 .. len /\ k + (len - b) \in 1 .. len /\ k + len - b = k + (len - b)
      BY <1>1
    <3>2. s[k] = s[k + len - b]
      BY DEF Border
    <3> QED BY <1>1, <3>1, <3>2
  <2> QED BY <1>1, <2>1, <2>2 DEF IsPeriod
<1>3. ASSUME NEW p \in P PROVE len - b <= p
  <2>1. p \in 1 .. len /\ \A k \in 1 .. len - p : u[k] = u[k + p]
    BY <1>1 DEF IsPeriod
  <2>2. ASSUME NEW m \in 1 .. len - p PROVE s[m] = s[m + len - (len - p)]
    <3>1. m \in 1 .. len /\ m + p \in 1 .. len /\ m + len - (len - p) = m + p
      BY <1>1, <2>1
    <3> QED BY <1>1, <2>1, <3>1
  <2>3. Border(s, len, len - p) /\ len - p \in Nat
    BY <1>1, <2>1, <2>2 DEF Border
  <2>4. len - p <= b
    BY <2>3 DEF Longest
  <2> QED BY <1>1, <2>1, <2>4
<1>4. Min(P) = len - b
  <2>1. P \subseteq Int
    BY <1>1
  <2> HIDE DEF P
  <2>2. Min(P) \in P /\ \A y \in P : Min(P) <= y
    BY <1>2, <1>3 DEF Min
  <2>3. Min(P) <= len - b /\ len - b <= Min(P) /\ Min(P) \in Int
    BY <1>2, <1>3, <2>1, <2>2
  <2> QED BY <1>1, <2>3
<1> QED BY <1>4 DEF LeastPeriod, u

\* The entries of a stretch whose least period is at least two are not all of
\* one type, and its first period has two of them.
LEMMA TwoTypes ==
    ASSUME NEW STATE s, s \in Seq(STRING), NEW len \in 1 .. Len(s),
           NEW b, Border(s, len, b), Longest(s, len, b), len - b >= 2
    PROVE  Cardinality(ToSet(Stretch(s, len - b))) >= 2
<1> DEFINE p == len - b
           T == {k \in 1 .. len - 1 : s[k] # s[k + 1]}
<1>1. b \in 0 .. len - 1 /\ len \in Nat /\ p \in 2 .. len /\ p \in 1 .. Len(s) /\ Len(s) \in Nat
  BY DEF Border
<1>2. ~Border(s, len, len - 1)
  <2>1. len - 1 \in Nat /\ ~ (len - 1 <= b)
    BY <1>1
  <2> QED BY <2>1 DEF Longest
<1>3. T # {}
  <2>1. SUFFICES ASSUME T = {} PROVE FALSE
    OBVIOUS
  <2>2. ASSUME NEW m \in 1 .. len - 1 PROVE s[m] = s[m + len - (len - 1)]
    <3>1. m + len - (len - 1) = m + 1
      BY <1>1
    <3> QED BY <2>1, <3>1
  <2>3. Border(s, len, len - 1)
    BY <1>1, <2>2 DEF Border
  <2> QED BY <1>2, <2>3
<1>4. PICK k \in T : \A l \in T : k <= l
  <2>1. T \subseteq Nat
    OBVIOUS
  <2> HIDE DEF T
  <2> QED BY <1>3, <2>1, LeastNumber
<1>5. k \in 1 .. len - 1 /\ s[k] # s[k + 1]
  BY <1>4
<1>6. ASSUME NEW m \in 1 .. b PROVE s[m] = s[m + p]
  <2>1. s[m] = s[m + len - b] /\ m + len - b = m + p
    BY <1>1 DEF Border
  <2> QED BY <2>1
<1> HIDE DEF p
<1>7. p = len - b
  BY DEF p
<1>8. \E x \in 1 .. p, y \in 1 .. p : s[x] # s[y]
  <2>1. CASE k + 1 <= p
    <3>1. k \in 1 .. p /\ k + 1 \in 1 .. p
      BY <1>1, <1>5, <2>1
    <3> QED BY <1>5, <3>1
  <2>2. CASE k = p
    <3>1. 1 \in 1 .. b /\ 1 + p = k + 1 /\ 1 \in 1 .. p /\ k \in 1 .. p
      BY <1>1, <1>5, <1>7, <2>2
    <3>2. s[1] = s[1 + p]
      BY <1>6, <3>1
    <3> QED BY <1>5, <3>1, <3>2
  <2>3. CASE k > p
    <3> DEFINE l == k - p
    <3>1. /\ l \in 1 .. b /\ l + 1 \in 1 .. b /\ l + p = k /\ (l + 1) + p = k + 1
          /\ l \in 1 .. len - 1 /\ ~ (k <= l)
      BY <1>1, <1>5, <1>7, <2>3
    <3> HIDE DEF l
    <3>2. s[l] = s[l + p] /\ s[l + 1] = s[(l + 1) + p]
      BY <1>6, <3>1
    <3>3. s[l] # s[l + 1]
      BY <1>5, <3>1, <3>2
    <3>4. l \in T
      BY <3>1, <3>3
    <3> QED BY <1>4, <3>1, <3>4
  <2> QED BY <1>1, <1>5, <2>1, <2>2, <2>3
<1>9. PICK x \in 1 .. p, y \in 1 .. p : s[x] # s[y]
  BY <1>8
<1> DEFINE u == Stretch(s, p)
<1>10. /\ u \in Seq(STRING) /\ Len(u) = p /\ \A m \in 1 .. p : u[m] = s[m]
  BY <1>1, StretchIs
<1> HIDE DEF u
<1>11. ToSet(u) = {u[m] : m \in 1 .. p} /\ IsFiniteSet(ToSet(u))
  <2>1. ToSet(u) = {u[m] : m \in 1 .. p}
    <3>1. DOMAIN u = 1 .. Len(u) /\ Len(u) = p
      BY <1>10, LenProperties
    <3> QED BY <3>1 DEF ToSet
  <2>2. 1 \in Int /\ p \in Int
    BY <1>1
  <2>3. IsFiniteSet(1 .. p)
    BY <2>2, FS_Interval
  <2> DEFINE f == [m \in 1 .. p |-> u[m]]
  <2>4. f \in Surjection(1 .. p, ToSet(u))
    BY <2>1 DEF Surjection
  <2> HIDE DEF f
  <2>5. IsFiniteSet(ToSet(u))
    BY <2>3, <2>4, FS_Surjection
  <2> QED BY <2>1, <2>5
<1>12. u[x] \in ToSet(u) /\ u[y] \in ToSet(u) /\ u[x] # u[y]
  BY <1>9, <1>10, <1>11
<1>13. Cardinality({u[x], u[y]}) = 2 /\ IsFiniteSet({u[x], u[y]})
  <2> DEFINE A == {u[x]}
  <2>1. IsFiniteSet(A) /\ Cardinality(A) = 1
    BY FS_Singleton
  <2>2. u[y] \notin A /\ A \cup {u[y]} = {u[x], u[y]}
    BY <1>12
  <2> HIDE DEF A
  <2>3. /\ IsFiniteSet(A \cup {u[y]})
        /\ Cardinality(A \cup {u[y]}) = IF u[y] \in A THEN Cardinality(A) ELSE Cardinality(A) + 1
    BY <2>1, FS_AddElement
  <2>4. Cardinality(A \cup {u[y]}) = 2
    BY <2>1, <2>2, <2>3
  <2> QED BY <2>2, <2>3, <2>4, Zenon
<1>14. Cardinality({u[x], u[y]}) <= Cardinality(ToSet(u))
  <2>1. {u[x], u[y]} \subseteq ToSet(u)
    BY <1>12
  <2> QED BY <1>11, <2>1, FS_Subset
<1>15. Cardinality(ToSet(u)) >= 2
  <2>1. Cardinality(ToSet(u)) \in Nat
    BY <1>11, FS_CardinalityType
  <2> QED BY <1>13, <1>14, <2>1
<1> QED BY <1>7, <1>15 DEF u

\* So the test of the program is that of a pattern that is repeated.
LEMMA RepeatsIsRepeated ==
    ASSUME NEW STATE s, s \in Seq(STRING), NEW len \in 1 .. Len(s),
           NEW b, Border(s, len, b), Longest(s, len, b)
    PROVE  Repeats(s, len, b) <=> len > Warmup /\ Repeated(Stretch(s, len))
<1>1. LeastPeriod(Stretch(s, len)) = len - b /\ Len(Stretch(s, len)) = len
  BY LongestLeavesLeast, StretchIs
<1>2. len - b >= 2 => Cardinality(ToSet(SubSeq(s, 1, len - b))) >= 2
  BY TwoTypes DEF Stretch
<1>3. len >= 2 * (len - b) <=> 2 * (len - b) <= len
  BY DEF Border
<1> QED BY <1>1, <1>2, <1>3 DEF Repeats, Repeated

\* While the search goes on, its borders are the longest, and no stretch that
\* has been scanned is a pattern repeated.
NoneSoFar == \A len \in Warmup + 1 .. Len(pi) : ~Repeated(Stretch(Ahead, len))

SearchInv == DetectorInv /\ (mode = "detect" => LongestOf(Ahead) /\ NoneSoFar)

LEMMA NothingScanned == DetectorTypes /\ pi = << >> => NoneSoFar
<1> SUFFICES ASSUME DetectorTypes, pi = << >> PROVE NoneSoFar
  OBVIOUS
<1>1. Warmup \in Nat
  BY ScanTypes
<1> QED BY <1>1 DEF NoneSoFar

LEMMA InitSearch == Init => SearchInv
<1> SUFFICES ASSUME Init PROVE SearchInv
  OBVIOUS
<1>1. DetectorInv
  BY InitDetector
<1>2. pi = << >> /\ mode = "detect"
  BY DEF Init, DetectorInit
<1>3. LongestOf(Ahead)
  BY <1>1, <1>2 DEF DetectorInv, BordersFound, LongestOf
<1>4. NoneSoFar
  BY <1>1, <1>2, NothingScanned DEF DetectorInv
<1> QED BY <1>1, <1>3, <1>4 DEF SearchInv

\* What the property says of a step.
Decides ==
    /\ mode = "detect" /\ mode' = "detect" =>
         \A len \in Warmup + 1 .. Len(pi') : ~Repeated(Stretch(Ahead, len))
    /\ mode = "detect" /\ mode' = "match" =>
         /\ Repeated(Stretch(Ahead, Len(pi) + 1))
         /\ pat' = Stretch(Stretch(Ahead, Len(pi) + 1), LeastPeriod(Stretch(Ahead, Len(pi) + 1)))

LEMMA ScanEntrySearch == ASSUME SearchInv, ScanEntry PROVE SearchInv' /\ Decides
<1> DEFINE border == NextBorder(Ahead)
           len == Len(pi) + 1
<1>1. /\ mode = "detect" /\ Len(pi) < Len(Ahead)
      /\ entries' = entries /\ options' = options /\ i' = i /\ steps' = steps
      /\ ScanTo(border)
  BY ScanEntryIs
<1>2. DetectorInv /\ DetectorTypes /\ LongestOf(Ahead) /\ BordersOf(Ahead) /\ NoneSoFar
  BY <1>1 DEF SearchInv, DetectorInv, LongestOf
<1>3. Ahead' = Ahead /\ Warmup' = Warmup /\ Warmup \in Nat
  <2>1. Ahead' = Ahead /\ Number' = Number
    BY <1>1, SameScan
  <2>2. Warmup' = Warmup
    BY <1>1, <2>1 DEF Warmup
  <2> QED BY <1>2, <2>1, <2>2, ScanTypes
<1>4. Border(Ahead, len, border) /\ Longest(Ahead, len, border)
  BY <1>2, NextBorderIsBorder, NextBorderIsLongest
<1>5. /\ Ahead \in Seq(STRING) /\ pi \in Seq(Nat) /\ Len(pi) \in Nat /\ len \in 1 .. Len(Ahead)
      /\ border \in 0 .. len - 1 /\ len = Len(pi) + 1
  BY <1>1, <1>2, <1>4, AheadIs DEF BordersOf, Border
<1>6. DetectorInv'
  BY <1>2, ScanEntryDetector
<1> HIDE DEF border, len
<1>7. Repeats(Ahead, len, border) <=> len > Warmup /\ Repeated(Stretch(Ahead, len))
  BY <1>4, <1>5, RepeatsIsRepeated
<1>8. CASE ~Repeats(Ahead, len, border)
  <2>1. pi' = Append(pi, border) /\ mode' = "detect"
    BY <1>1, <1>5, <1>8 DEF ScanTo
  <2>2. /\ Len(pi') = len /\ pi'[len] = border
        /\ \A k \in 1 .. Len(pi) : pi'[k] = pi[k]
    BY <1>5, <2>1
  <2>3. ASSUME NEW k \in 1 .. Len(pi') PROVE Longest(Ahead, k, pi'[k])
    <3>1. CASE k \in 1 .. Len(pi)
      BY <1>2, <2>2, <3>1 DEF LongestOf
    <3>2. CASE k = len
      BY <1>4, <2>2, <3>2
    <3> QED BY <1>5, <2>2, <3>1, <3>2
  <2>4. LongestOf(Ahead)'
    <3>1. BordersOf(Ahead)'
      BY <1>6, <2>1 DEF DetectorInv, BordersFound
    <3>2. \A k \in 1 .. Len(pi') : Longest(Ahead', k, pi'[k])
      BY <1>3, <2>3
    <3> QED BY <3>1, <3>2 DEF LongestOf, Longest, Border
  <2>5. ASSUME NEW l \in Warmup + 1 .. Len(pi') PROVE ~Repeated(Stretch(Ahead, l))
    <3>1. CASE l \in Warmup + 1 .. Len(pi)
      BY <1>2, <3>1 DEF NoneSoFar
    <3>2. CASE l = len
      <4>1. len > Warmup
        BY <1>3, <1>5, <3>2
      <4> QED BY <1>7, <1>8, <3>2, <4>1
    <3> QED BY <1>3, <1>5, <2>2, <3>1, <3>2
  <2>6. NoneSoFar'
    <3>1. \A l \in Warmup' + 1 .. Len(pi') : ~Repeated(Stretch(Ahead', l))
      BY <1>3, <2>5
    <3> QED BY <3>1 DEF NoneSoFar, Repeated, LeastPeriod, IsPeriod, Stretch
  <2>7. Decides
    BY <2>1, <2>5 DEF Decides
  <2> QED BY <1>6, <2>4, <2>6, <2>7 DEF SearchInv
<1>9. CASE Repeats(Ahead, len, border)
  <2>1. mode' = "match" /\ pat' = SubSeq(Ahead, 1, Len(pi) + 1 - border)
    BY <1>1, <1>5, <1>9 DEF ScanTo
  <2>2. Repeated(Stretch(Ahead, len)) /\ LeastPeriod(Stretch(Ahead, len)) = len - border
    BY <1>4, <1>5, <1>7, <1>9, LongestLeavesLeast
  <2> DEFINE u == Stretch(Ahead, len)
             p == len - border
  <2>3. pat' = Stretch(Ahead, p) /\ p \in 1 .. len /\ len \in Nat
    BY <1>5, <2>1 DEF Stretch
  <2>4. /\ u \in Seq(STRING) /\ Len(u) = len
        /\ \A m \in 1 .. len : u[m] = Ahead[m]
    BY <1>5, StretchIs
  <2>5. Len(Ahead) \in Nat /\ p \in 1 .. Len(Ahead) /\ p \in 1 .. Len(u)
    BY <1>5, <2>3, <2>4
  <2> HIDE DEF u, p
  <2>6. /\ Stretch(Ahead, p) \in Seq(STRING) /\ Len(Stretch(Ahead, p)) = p
        /\ \A m \in 1 .. p : Stretch(Ahead, p)[m] = Ahead[m]
    BY <1>5, <2>5, StretchIs
  <2>7. /\ SubSeq(u, 1, p) \in Seq(STRING) /\ Len(SubSeq(u, 1, p)) = p
        /\ \A m \in 1 .. p : SubSeq(u, 1, p)[m] = Ahead[m]
    <3>1. \A m \in 1 .. p : u[m] \in STRING
      BY <2>3, <2>4
    <3>2. /\ SubSeq(u, 1, p) \in Seq(STRING)
          /\ Len(SubSeq(u, 1, p)) = IF 1 <= p THEN p - 1 + 1 ELSE 0
          /\ \A m \in 1 .. p - 1 + 1 : SubSeq(u, 1, p)[m] = u[1 + m - 1]
      BY <2>3, <3>1, SubSeqProperties
    <3>3. p - 1 + 1 = p /\ \A m \in 1 .. p : 1 + m - 1 = m /\ m \in 1 .. len
      BY <2>3
    <3> QED BY <2>3, <2>4, <3>2, <3>3
  <2>8. SubSeq(u, 1, p) = Stretch(Ahead, p)
    <3> DEFINE a == SubSeq(u, 1, p)
               b == Stretch(Ahead, p)
    <3>1. a \in Seq(STRING) /\ b \in Seq(STRING) /\ Len(a) = Len(b) /\ \A m \in 1 .. Len(a) : a[m] = b[m]
      BY <2>6, <2>7
    <3> HIDE DEF a, b
    <3> QED BY <3>1, SeqEqual DEF a, b
  <2>9. pat' = Stretch(u, p)
    BY <2>3, <2>8 DEF Stretch
  <2>10. Decides
    <3>1. mode' # "detect" /\ len = Len(pi) + 1
      BY <1>5, <2>1
    <3> QED BY <2>2, <2>9, <3>1 DEF Decides, u, p
  <2> QED BY <1>6, <2>1, <2>10 DEF SearchInv
<1> QED BY <1>8, <1>9

\* A new search begins with nothing scanned.
LEMMA SearchAnew ==
    ASSUME DetectorInv', pi' = << >>
    PROVE  SearchInv'
<1>1. NoneSoFar'
  <2>1. DetectorTypes'
    BY DEF DetectorInv
  <2>2. (pi = << >>)'
    OBVIOUS
  <2> QED BY <2>1, <2>2, NothingScanned, PTL
<1>2. (mode = "detect" => LongestOf(Ahead))'
  BY DEF DetectorInv, BordersFound, LongestOf
<1> QED BY <1>1, <1>2 DEF SearchInv

LEMMA NothingDecided ==
    ASSUME DetectorInv, pi' = << >>, mode' # "match"
    PROVE  Decides
<1>1. Warmup \in Nat
  BY ScanTypes DEF DetectorInv
<1> QED BY <1>1 DEF Decides

LEMMA SameSearch ==
    ASSUME SearchInv, UNCHANGED detectorVars
    PROVE  SearchInv'
<1>1. DetectorInv'
  BY SameDetector DEF SearchInv
<1>2. /\ entries' = entries /\ options' = options /\ mode' = mode /\ i' = i /\ pi' = pi
  BY DEF detectorVars
<1>3. Ahead' = Ahead /\ Warmup' = Warmup
  BY <1>2, SameScan DEF Warmup
<1>4. LongestOf(Ahead)' = LongestOf(Ahead) /\ NoneSoFar' = NoneSoFar
  BY <1>2, <1>3 DEF LongestOf, BordersOf, Longest, Border, NoneSoFar, Repeated, LeastPeriod,
                    IsPeriod, Stretch
<1> QED BY <1>1, <1>2, <1>4 DEF SearchInv

LEMMA DetectorSearch ==
    ASSUME SearchInv, DetectorNext
    PROVE  SearchInv' /\ Decides
<1>1. DetectorInv
  BY DEF SearchInv
<1>2. CASE ScanEntry
  BY <1>2, ScanEntrySearch
<1>3. CASE NoPattern
  <2>1. pi' = << >> /\ mode' # "match" /\ DetectorInv'
    BY <1>1, <1>3, NoPatternDetector DEF NoPattern
  <2> QED BY <1>1, <2>1, SearchAnew, NothingDecided
<1>4. CASE MatchEntry
  <2>1. mode = "match" /\ mode' = "match" /\ DetectorInv'
    BY <1>1, <1>4, MatchEntryDetector DEF MatchEntry
  <2> QED BY <2>1 DEF SearchInv, Decides
<1>5. CASE Mismatch
  <2>1. pi' = << >> /\ mode' # "match" /\ DetectorInv'
    BY <1>1, <1>5, MismatchDetector DEF Mismatch, DetectorInv
  <2> QED BY <1>1, <2>1, SearchAnew, NothingDecided
<1>6. CASE EndOfTrace
  <2>1. mode' = "steps" /\ DetectorInv'
    BY <1>1, <1>6, EndOfTraceDetector DEF EndOfTrace
  <2> QED BY <2>1 DEF SearchInv, Decides
<1> QED BY <1>2, <1>3, <1>4, <1>5, <1>6, SMT DEF DetectorNext

LEMMA NextSearch ==
    ASSUME SearchInv, [Next]_diagnoseVars
    PROVE  SearchInv' /\ (UNCHANGED detectorVars \/ Decides)
<1>1. CASE DetectSteps
  BY <1>1, DetectorSearch DEF DetectSteps
<1>2. CASE DetectOnBase
  <2>1. DetectorInv /\ DetectAgain
    BY <1>2 DEF SearchInv, DetectOnBase
  <2>2. pi' = << >> /\ mode' # "match" /\ DetectorInv'
    BY <2>1, DetectAgainDetector DEF DetectAgain
  <2> QED BY <2>1, <2>2, SearchAnew, NothingDecided
<1>3. CASE WriteCsv \/ FindChanges \/ CompareTraces \/ Judge \/ UNCHANGED diagnoseVars
  <2>1. UNCHANGED detectorVars
    BY <1>3 DEF WriteCsv, FindChanges, CompareTraces, Judge, diagnoseVars
  <2> QED BY <2>1, SameSearch
<1> QED BY <1>1, <1>2, <1>3 DEF Next

\* The prefix function finds what it stands for: the search takes up the least
\* period of the first stretch, longer than the warm-up, that is a pattern
\* repeated, and gives up only if there is none; whatever the trace, the
\* warm-up and the window (_detect_pattern of step_detector.py).
THEOREM LeastPeriodIsFound == Spec => DetectsPeriod
<1> DEFINE Decided ==
      /\ mode = "detect" /\ mode' = "detect" =>
           \A len \in Warmup + 1 .. Len(pi') : ~Repeated(SubSeq(Ahead, 1, len))
      /\ mode = "detect" /\ mode' = "match" =>
           LET s == SubSeq(Ahead, 1, Len(pi) + 1) IN
           Repeated(s) /\ pat' = SubSeq(s, 1, LeastPeriod(s))
<1>1. Decides => Decided
  BY DEF Decides, Stretch
<1>2. SearchInv /\ [Next]_diagnoseVars => SearchInv' /\ [Decided]_detectorVars
  BY <1>1, NextSearch
<1> HIDE DEF Decided
<1>3. Spec => [][Decided]_detectorVars
  BY <1>2, InitSearch, PTL DEF Spec
<1> QED BY <1>3 DEF DetectsPeriod, Decided
-----------------------------------------------------------------------------
(***************************************************************************)
(* The steps of the CSV file are found again.  The detector is sequential: *)
(* what it does next is a function of its state (Successor), so two runs   *)
(* over one trace with the same options pass the same states up to the end *)
(* of the shorter one, and the last state of a run has no successor.       *)
(***************************************************************************)
AheadOf(k) == SubSeq(TypeSeq, k + 1, Min({k + MaxScan, Number}))

BorderAfter(found, s) ==
    LET Extended[j \in 0 .. Len(found)] ==
          IF s[j + 1] = s[Len(found) + 1] THEN j + 1
          ELSE IF j = 0 THEN 0 ELSE Extended[found[j]]
    IN IF found = << >> THEN 0 ELSE Extended[Last(found)]

State(m, k, found, p, pos, start, stepStart, before, ss) ==
    [mode |-> m, i |-> k, pi |-> found, pat |-> p, pat_pos |-> pos, align_start |-> start,
     step_start_i |-> stepStart, steps_before |-> before, steps |-> ss]

DetectorState ==
    State(mode, i, pi, pat, pat_pos, align_start, step_start_i, steps_before, steps)

Beginning == State("detect", 0, << >>, << >>, 0, 0, 0, 0, << >>)

AfterScan(d, s, border) ==
    IF Repeats(s, Len(d.pi) + 1, border)
    THEN State("match", d.i, << >>, SubSeq(s, 1, Len(d.pi) + 1 - border), 0, d.i, d.i,
               Len(d.steps), d.steps)
    ELSE State(d.mode, d.i, Append(d.pi, border), d.pat, d.pat_pos, d.align_start,
               d.step_start_i, d.steps_before, d.steps)

AfterMatch(d) ==
    IF d.pat_pos + 1 = Len(d.pat)
    THEN State(d.mode, d.i + 1, d.pi, d.pat, 0, d.align_start, d.i + 1, d.steps_before,
               Append(d.steps, [first |-> d.step_start_i, next |-> d.i + 1, pattern |-> d.pat]))
    ELSE State(d.mode, d.i + 1, d.pi, d.pat, d.pat_pos + 1, d.align_start, d.step_start_i,
               d.steps_before, d.steps)

AfterMismatch(d) ==
    State("detect", IF Len(d.steps) = d.steps_before THEN d.align_start + Len(d.pat)
                    ELSE d.step_start_i,
          d.pi, d.pat, d.pat_pos, d.align_start, d.step_start_i, d.steps_before, d.steps)

InState(d, m, k) ==
    State(m, k, IF m = "detect" THEN << >> ELSE d.pi, d.pat, d.pat_pos, d.align_start,
          d.step_start_i, d.steps_before, d.steps)

Successor(d) ==
    IF d.mode = "detect" /\ Len(d.pi) < Len(AheadOf(d.i))
    THEN AfterScan(d, AheadOf(d.i), BorderAfter(d.pi, AheadOf(d.i)))
    ELSE IF d.i >= Number THEN InState(d, "steps", d.i)
    ELSE IF d.mode = "detect" THEN InState(d, "detect", d.i + Warmup)
    ELSE IF At(TypeSeq, d.i) = At(d.pat, d.pat_pos) THEN AfterMatch(d)
    ELSE AfterMismatch(d)

Run(f, k) ==
    /\ f[0] = Beginning
    /\ \A j \in 0 .. k - 1 : f[j].mode # "steps" /\ f[j + 1] = Successor(f[j])

Passed(d) == \E k \in Nat : \E f : Run(f, k) /\ f[k] = d

WrittenInv ==
    /\ Passed(DetectorState)
    /\ phase \in {"csv", "changes", "detect", "judge"}
    /\ phase = "judge" => mode = "steps"
    /\ phase # "csv" =>
         /\ n <= Len(written.steps)
         /\ written.options = NotGiven =>
              /\ options = NotGiven
              /\ \E d : Passed(d) /\ d.mode = "steps" /\ d.steps = written.steps

LEMMA EndIsReached ==
    ASSUME DetectorInv
    PROVE  i >= Number => Len(Ahead) = 0
<1>1. /\ Len(Ahead) \in Nat /\ (Len(Ahead) # 0 => i + Len(Ahead) <= Number)
  BY AheadIs DEF DetectorInv
<1>2. Number \in Nat /\ i \in Nat
  BY TypeSeqIs DEF DetectorInv, DetectorTypes
<1> QED BY <1>1, <1>2

\* The actions of the detector do what Successor says.
LEMMA NextIsSuccessor ==
    ASSUME DetectorInv, DetectorNext
    PROVE  mode # "steps" /\ DetectorState' = Successor(DetectorState)
           /\ entries' = entries /\ options' = options
<1> DEFINE d == DetectorState
<1>1. /\ d.mode = mode /\ d.i = i /\ d.pi = pi /\ d.pat = pat /\ d.pat_pos = pat_pos
      /\ d.align_start = align_start /\ d.step_start_i = step_start_i
      /\ d.steps_before = steps_before /\ d.steps = steps
  BY DEF DetectorState, State
<1>2. DetectorState' = State(mode', i', pi', pat', pat_pos', align_start', step_start_i',
                             steps_before', steps')
  BY DEF DetectorState, State
<1> HIDE DEF d
<1>3. AheadOf(i) = Ahead /\ BorderAfter(pi, Ahead) = NextBorder(Ahead)
  BY DEF AheadOf, Ahead, BorderAfter, NextBorder
<1>4. i \in Nat /\ Number \in Nat /\ Len(Ahead) \in Nat /\ (i >= Number => Len(Ahead) = 0)
      /\ (mode = "detect" => Len(pi) \in Nat)
  <2>1. DetectorTypes
    BY DEF DetectorInv
  <2>2. mode = "detect" => Len(pi) \in Nat
    BY DEF DetectorInv, BordersFound, BordersOf
  <2> QED BY <2>1, <2>2, EndIsReached, AheadIs, TypeSeqIs DEF DetectorTypes
<1>5. CASE ScanEntry
  <2>1. /\ mode = "detect" /\ Len(pi) < Len(Ahead)
        /\ entries' = entries /\ options' = options /\ i' = i /\ steps' = steps
        /\ ScanTo(NextBorder(Ahead))
    BY <1>5, ScanEntryIs
  <2>2. Successor(d) = AfterScan(d, Ahead, NextBorder(Ahead))
    BY <1>1, <1>3, <2>1 DEF Successor
  <2>3. DetectorState' = AfterScan(d, Ahead, NextBorder(Ahead))
    <3>1. CASE Repeats(Ahead, Len(pi) + 1, NextBorder(Ahead))
      <4>1. /\ mode' = "match" /\ pi' = << >>
            /\ pat' = SubSeq(Ahead, 1, Len(pi) + 1 - NextBorder(Ahead))
            /\ pat_pos' = 0 /\ align_start' = i /\ step_start_i' = i
            /\ steps_before' = Len(steps)
        BY <2>1, <3>1 DEF ScanTo
      <4> QED BY <1>1, <1>2, <2>1, <3>1, <4>1 DEF AfterScan
    <3>2. CASE ~Repeats(Ahead, Len(pi) + 1, NextBorder(Ahead))
      <4>1. /\ pi' = Append(pi, NextBorder(Ahead))
            /\ UNCHANGED <<mode, pat, pat_pos, align_start, step_start_i, steps_before>>
        BY <2>1, <3>2 DEF ScanTo
      <4> QED BY <1>1, <1>2, <2>1, <3>2, <4>1 DEF AfterScan
    <3> QED BY <3>1, <3>2
  <2> QED BY <2>1, <2>2, <2>3 DEF d
<1>6. CASE NoPattern
  <2>1. /\ mode = "detect" /\ i < Number /\ Len(pi) = Len(Ahead) /\ i' = i + Warmup
        /\ pi' = << >> /\ UNCHANGED <<entries, options, mode, pat, pat_pos, align_start,
                                      step_start_i, steps_before, steps>>
    BY <1>6 DEF NoPattern, Skip
  <2>2. Successor(d) = InState(d, "detect", d.i + Warmup)
    BY <1>1, <1>3, <1>4, <2>1 DEF Successor
  <2> QED BY <1>1, <1>2, <2>1, <2>2 DEF d, InState
<1>7. CASE MatchEntry
  <2>1. /\ mode = "match" /\ i < Number /\ At(TypeSeq, i) = At(pat, pat_pos) /\ i' = i + 1
        /\ IF pat_pos + 1 = Len(pat)
           THEN steps' = Append(steps, Step) /\ pat_pos' = 0 /\ step_start_i' = i + 1
           ELSE pat_pos' = pat_pos + 1 /\ UNCHANGED <<steps, step_start_i>>
        /\ UNCHANGED <<entries, options, mode, pi, pat, align_start, steps_before>>
    BY <1>7 DEF MatchEntry, BeginStep
  <2>2. Successor(d) = AfterMatch(d)
    BY <1>1, <1>4, <2>1 DEF Successor
  <2>3. DetectorState' = AfterMatch(d)
    <3>1. CASE pat_pos + 1 = Len(pat)
      BY <1>1, <1>2, <2>1, <3>1 DEF AfterMatch, Step
    <3>2. CASE pat_pos + 1 # Len(pat)
      BY <1>1, <1>2, <2>1, <3>2 DEF AfterMatch
    <3> QED BY <3>1, <3>2
  <2> QED BY <2>1, <2>2, <2>3 DEF d
<1>8. CASE Mismatch
  <2>1. /\ mode = "match" /\ i < Number /\ At(TypeSeq, i) # At(pat, pat_pos)
        /\ i' = ResumeAt /\ mode' = "detect"
        /\ UNCHANGED <<entries, options, pi, pat, pat_pos, align_start, step_start_i,
                       steps_before, steps>>
    BY <1>8 DEF Mismatch
  <2>2. Successor(d) = AfterMismatch(d)
    BY <1>1, <1>4, <2>1 DEF Successor
  <2> QED BY <1>1, <1>2, <2>1, <2>2 DEF d, AfterMismatch, ResumeAt
<1>9. CASE EndOfTrace
  <2>1. /\ mode \in {"detect", "match"} /\ i >= Number /\ mode' = "steps"
        /\ UNCHANGED <<entries, options, i, pi, pat, pat_pos, align_start, step_start_i,
                       steps_before, steps>>
    BY <1>9 DEF EndOfTrace
  <2>2. Successor(d) = InState(d, "steps", d.i)
    BY <1>1, <1>3, <1>4, <2>1 DEF Successor
  <2> QED BY <1>1, <1>2, <2>1, <2>2 DEF d, InState
<1> QED BY <1>5, <1>6, <1>7, <1>8, <1>9 DEF DetectorNext

\* Two runs that have come to an end have come to the same.
LEMMA RunsAgree ==
    ASSUME NEW k \in Nat, NEW l \in Nat, NEW f, NEW g, Run(f, k), Run(g, l), k <= l
    PROVE  f[k] = g[k]
<1> DEFINE T == {j \in Nat : j <= k /\ f[j] # g[j]}
<1>1. SUFFICES ASSUME T # {} PROVE FALSE
  OBVIOUS
<1>2. PICK j \in T : \A m \in T : j <= m
  <2>1. T \subseteq Nat
    OBVIOUS
  <2> HIDE DEF T
  <2> QED BY <1>1, <2>1, LeastNumber
<1>3. f[0] = g[0]
  BY DEF Run
<1>4. j - 1 \in Nat /\ j - 1 \in 0 .. k - 1 /\ j - 1 \in 0 .. l - 1 /\ j - 1 \notin T
      /\ (j - 1) + 1 = j
  BY <1>2, <1>3
<1>5. f[j - 1] = g[j - 1]
  BY <1>4
<1>6. f[(j - 1) + 1] = Successor(f[j - 1]) /\ g[(j - 1) + 1] = Successor(g[j - 1])
  BY <1>4 DEF Run
<1> QED BY <1>2, <1>4, <1>5, <1>6

LEMMA EndsAgree ==
    ASSUME NEW c, NEW d, Passed(c), Passed(d), c.mode = "steps", d.mode = "steps"
    PROVE  c = d
<1>a. PICK k \in Nat : \E f : Run(f, k) /\ f[k] = c
  BY DEF Passed
<1>1. PICK f : Run(f, k) /\ f[k] = c
  BY <1>a
<1>b. PICK l \in Nat : \E g : Run(g, l) /\ g[l] = d
  BY DEF Passed
<1>2. PICK g : Run(g, l) /\ g[l] = d
  BY <1>b
<1>3. CASE k < l
  <2>1. f[k] = g[k]
    BY <1>1, <1>2, <1>3, RunsAgree
  <2>2. g[k].mode # "steps"
    BY <1>2, <1>3 DEF Run
  <2> QED BY <1>1, <2>1, <2>2
<1>4. CASE l < k
  <2>1. g[l] = f[l]
    BY <1>1, <1>2, <1>4, RunsAgree
  <2>2. f[l].mode # "steps"
    BY <1>1, <1>4 DEF Run
  <2> QED BY <1>2, <2>1, <2>2
<1>5. CASE k = l
  BY <1>1, <1>2, <1>5, RunsAgree
<1> QED BY <1>3, <1>4, <1>5

LEMMA PassedBeginning == Passed(Beginning)
<1> DEFINE f == [j \in {0} |-> Beginning]
<1>1. Run(f, 0) /\ f[0] = Beginning
  BY DEF Run
<1> QED BY <1>1 DEF Passed

LEMMA PassedSuccessor ==
    ASSUME NEW d, Passed(d), d.mode # "steps"
    PROVE  Passed(Successor(d))
<1>a. PICK k \in Nat : \E f : Run(f, k) /\ f[k] = d
  BY DEF Passed
<1>1. PICK f : Run(f, k) /\ f[k] = d
  BY <1>a
<1> DEFINE s == Successor(d)
           g == [j \in 0 .. k + 1 |-> IF j <= k THEN f[j] ELSE s]
<1> HIDE DEF s
<1>2. /\ \A j \in 0 .. k : g[j] = f[j]
      /\ g[k + 1] = s
  OBVIOUS
<1> HIDE DEF g
<1>3. g[0] = Beginning
  BY <1>1, <1>2 DEF Run
<1>4. ASSUME NEW j \in 0 .. (k + 1) - 1 PROVE g[j].mode # "steps" /\ g[j + 1] = Successor(g[j])
  <2>1. CASE j = k
    BY <1>1, <1>2, <2>1 DEF s
  <2>2. CASE j # k
    <3>1. j \in 0 .. k - 1 /\ j \in 0 .. k /\ j + 1 \in 0 .. k
      BY <1>4, <2>2
    <3> QED BY <1>1, <1>2, <3>1 DEF Run
  <2> QED BY <2>1, <2>2
<1>5. Run(g, k + 1)
  BY <1>3, <1>4 DEF Run
<1> QED BY <1>2, <1>5 DEF Passed, s

LEMMA SameRun ==
    ASSUME entries' = entries, options' = options, NEW f, NEW k
    PROVE  Run(f, k)' <=> Run(f, k)
<1>1. Number' = Number /\ TypeSeq' = TypeSeq /\ Warmup' = Warmup /\ MaxScan' = MaxScan
  BY DEF Number, TypeSeq, Warmup, Window, MaxScan
<1>2. \A c : Successor(c)' = Successor(c)
  BY <1>1 DEF Successor, AheadOf, AfterScan, AfterMatch, AfterMismatch, InState, Repeats
<1> QED BY <1>2 DEF Run

LEMMA SamePassed ==
    ASSUME entries' = entries, options' = options, NEW d
    PROVE  Passed(d)' <=> Passed(d)
BY SameRun DEF Passed

LEMMA SameState ==
    ASSUME UNCHANGED detectorVars, NEW d
    PROVE  /\ entries' = entries /\ options' = options /\ mode' = mode /\ steps' = steps
           /\ DetectorState' = DetectorState
           /\ (Passed(DetectorState) => Passed(DetectorState)')
           /\ (Passed(d)' <=> Passed(d))
<1>1. /\ entries' = entries /\ options' = options /\ mode' = mode /\ steps' = steps
      /\ DetectorState' = DetectorState
  BY DEF detectorVars, DetectorState, State
<1>2. \A f, k : Run(f, k)' <=> Run(f, k)
  BY <1>1, SameRun
<1> QED BY <1>1, <1>2 DEF Passed

LEMMA InitWritten == Init => WrittenInv
<1> SUFFICES ASSUME Init PROVE WrittenInv
  OBVIOUS
<1>1. DetectorState = Beginning /\ phase = "csv"
  BY DEF Init, DetectorInit, DetectorState, Beginning
<1> QED BY <1>1, PassedBeginning DEF WrittenInv

LEMMA NextWritten ==
    ASSUME DetectorInv, WrittenInv, [Next]_diagnoseVars
    PROVE  WrittenInv'
<1> DEFINE Same == \A d : Passed(d)' <=> Passed(d)
           Again == \E d : Passed(d) /\ d.mode = "steps" /\ d.steps = written.steps
<1>1. CASE DetectSteps
  <2>1. /\ DetectorNext /\ phase \in {"csv", "detect"} /\ phase' = phase /\ written' = written
        /\ n' = n
    BY <1>1 DEF DetectSteps, changeVars
  <2>2. /\ mode # "steps" /\ DetectorState' = Successor(DetectorState)
        /\ entries' = entries /\ options' = options
    BY <2>1, NextIsSuccessor
  <2>3. \A d : Passed(d)' <=> Passed(d)
    BY <2>2, SamePassed
  <2>4. Passed(DetectorState)'
    <3>1. Passed(DetectorState) /\ DetectorState.mode # "steps"
      BY <2>2 DEF WrittenInv, DetectorState, State
    <3>2. \A d : Passed(d) /\ d.mode # "steps" => Passed(Successor(d))
      BY PassedSuccessor
    <3>3. Passed(Successor(DetectorState))
      BY <3>1, <3>2
    <3>4. \A f, k : Run(f, k)' <=> Run(f, k)
      BY <2>2, SameRun
    <3> QED BY <2>2, <3>3, <3>4 DEF Passed
  <2>5. Again => Again'
    BY <2>1, <2>3
  <2> QED BY <2>1, <2>2, <2>4, <2>5 DEF WrittenInv
<1>2. CASE WriteCsv
  <2>1. /\ phase = "csv" /\ mode = "steps" /\ phase' = "changes" /\ n' \in 0 .. Len(steps)
        /\ written' = [options |-> options, steps |-> steps] /\ UNCHANGED detectorVars
    BY <1>2 DEF WriteCsv
  <2>2. /\ \A d : Passed(d)' <=> Passed(d)
        /\ Passed(DetectorState)' /\ options' = options /\ Passed(DetectorState)
    BY <2>1, SameState DEF WrittenInv
  <2>3. DetectorState.mode = "steps" /\ DetectorState.steps = written'.steps
    BY <2>1 DEF DetectorState, State
  <2>4. Again'
    BY <2>2, <2>3
  <2> QED BY <2>1, <2>2, <2>4 DEF WrittenInv
<1>3. CASE DetectOnBase
  <2>1. /\ phase = "changes" /\ phase' = "detect" /\ DetectAgain /\ n' = n /\ written' = written
    BY <1>3 DEF DetectOnBase, changeVars
  <2>2. DetectorState' = Beginning /\ options' = NotGiven /\ entries' = entries
    BY <2>1 DEF DetectAgain, DetectorState, Beginning, State
  <2>3. Passed(DetectorState)'
    <3>1. Passed(Beginning)'
      BY PassedBeginning, PTL
    <3> QED BY <2>2, <3>1 DEF Passed
  <2>4. written.options = NotGiven => \A d : Passed(d)' <=> Passed(d)
    BY <2>1, <2>2, SamePassed DEF WrittenInv
  <2>5. written.options = NotGiven => Again'
    BY <2>1, <2>4 DEF WrittenInv
  <2> QED BY <2>1, <2>2, <2>3, <2>5 DEF WrittenInv
<1>4. CASE FindChanges \/ CompareTraces \/ Judge \/ UNCHANGED diagnoseVars
  <2>1. /\ UNCHANGED detectorVars /\ written' = written /\ n' = n
        /\ \/ phase' = phase
           \/ phase = "detect" /\ phase' = "judge" /\ mode = "steps"
    BY <1>4 DEF FindChanges, ChangeNext, FindChange, NoChange, DropTail, CompareTraces, Judge,
                diagnoseVars, changeVars
  <2>2. /\ \A d : Passed(d)' <=> Passed(d)
        /\ Passed(DetectorState)' /\ options' = options /\ mode' = mode
    BY <2>1, SameState DEF WrittenInv
  <2>3. Again => Again'
    BY <2>1, <2>2
  <2> QED BY <2>1, <2>2, <2>3 DEF WrittenInv
<1> QED BY <1>1, <1>2, <1>3, <1>4 DEF Next

\* What is judged is judged by the steps of the file.
LEMMA StepsOfTheFile ==
    ASSUME WrittenInv, phase = "judge", written.options = NotGiven
    PROVE  steps = written.steps /\ n <= Len(written.steps)
<1>1. PICK d : Passed(d) /\ d.mode = "steps" /\ d.steps = written.steps
  BY DEF WrittenInv
<1>2. \A c : Passed(c) /\ c.mode = "steps" => c = d
  BY <1>1, EndsAgree
<1>3. Passed(DetectorState) /\ DetectorState.mode = "steps" /\ DetectorState.steps = steps
  BY DEF WrittenInv, DetectorState, State
<1> QED BY <1>1, <1>2, <1>3 DEF WrittenInv
-----------------------------------------------------------------------------
(***************************************************************************)
(* The judgement.  Steps are mapped to lines of the raw trace, and a       *)
(* window slides over the lines of a change.                               *)
(***************************************************************************)
LinesRead == lines \in Seq(Lines) /\ TakenFrom(lines, entries)

\* In a trace in order every line is later than those before it.
LEMMA InOrderThroughout ==
    ASSUME LinesRead, InOrder, NEW j \in 1 .. Len(lines), NEW k \in 1 .. Len(lines), j < k
    PROVE  lines[j].ts < lines[k].ts
<1>1. Len(lines) \in Nat /\ \A m \in 1 .. Len(lines) : lines[m].ts \in Int
  <2>1. \A m \in 1 .. Len(lines) : lines[m] \in Lines
    BY DEF LinesRead
  <2> QED BY <2>1 DEF LinesRead, Lines
<1> DEFINE T == {m \in j + 1 .. Len(lines) : ~ (lines[j].ts < lines[m].ts)}
<1>2. SUFFICES ASSUME T # {} PROVE FALSE
  BY <1>1
<1>3. PICK m \in T : \A l \in T : m <= l
  <2>1. T \subseteq Nat
    BY <1>1
  <2> HIDE DEF T
  <2> QED BY <1>2, <2>1, LeastNumber
<1>4. lines[m - 1].ts < lines[m].ts
  BY <1>1, <1>3 DEF InOrder
<1>5. CASE m = j + 1
  BY <1>3, <1>4, <1>5
<1>6. CASE m # j + 1
  <2>1. m - 1 \in j + 1 .. Len(lines) /\ m - 1 \notin T
    BY <1>1, <1>3, <1>6
  <2>2. lines[j].ts < lines[m - 1].ts
    BY <2>1
  <2>3. m - 1 \in 1 .. Len(lines) /\ m \in 1 .. Len(lines)
    BY <1>1, <1>3, <2>1
  <2> QED BY <1>1, <1>3, <1>4, <2>2, <2>3
<1> QED BY <1>5, <1>6

\* step_to_raw_line never goes beyond the line of the step's first call, and
\* in a trace in order it finds that very line.
LEMMA LineIsOwn ==
    ASSUME DetectorInv, LinesRead, NEW step \in Nat
    PROVE  /\ Line(step) \in Int /\ Line(step) < Len(lines)
           /\ step < Len(steps) /\ steps = written.steps =>
                /\ OwnLine(step) \in Int /\ Line(step) <= OwnLine(step)
                /\ InOrder => Line(step) = OwnLine(step)
<1>1. Len(lines) \in Nat /\ \A m \in 1 .. Len(lines) : lines[m].ts \in Int
  <2>1. \A m \in 1 .. Len(lines) : lines[m] \in Lines
    BY DEF LinesRead
  <2> QED BY <2>1 DEF LinesRead, Lines
<1>2. CASE step >= Len(steps)
  <2>1. Len(steps) \in Nat
    BY DEF DetectorInv, DetectorTypes
  <2>2. Line(step) = Len(lines) - 1
    BY <1>2 DEF Line
  <2> QED BY <1>1, <1>2, <2>1, <2>2
<1>3. CASE step < Len(steps)
  <2> DEFINE time == StartNs(At(steps, step))
             P(k) == At(lines, k).ts = time
             notBefore == {k \in 0 .. Len(lines) - 1 : At(lines, k).ts >= time}
             own == CHOOSE k \in 0 .. Len(lines) - 1 : P(k)
             least == Min(notBefore)
  <2>1. \E x \in 0 .. Len(lines) - 1 : P(x)
    <3>1. step + 1 \in 1 .. Len(steps) /\ steps \in Seq(StepRecord)
      BY <1>3 DEF DetectorInv, DetectorTypes
    <3>2. steps[step + 1] \in StepRecord /\ steps[step + 1].first < Number
      BY <3>1 DEF DetectorInv, WholeSteps
    <3> DEFINE e == steps[step + 1].first + 1
    <3>3. e \in 1 .. Len(entries)
      <4>1. Number \in Nat /\ Number = Len(entries)
        BY TypeSeqIs DEF DetectorInv, Number
      <4> QED BY <3>2, <4>1 DEF StepRecord
    <3>4. time = entries[e].ts
      BY DEF StartNs, At
    <3> HIDE DEF e, time
    <3>5. PICK x \in 1 .. Len(lines) : entries[e] = Entry(lines[x])
      BY <3>3 DEF LinesRead, TakenFrom
    <3>6. x - 1 \in 0 .. Len(lines) - 1 /\ (x - 1) + 1 = x
      BY <1>1
    <3>7. lines[x].ts = time
      BY <3>4, <3>5 DEF Entry
    <3> QED BY <3>6, <3>7 DEF At
  <2>2. Line(step) = IF step >= Len(steps) \/ notBefore = {} THEN Len(lines) - 1 ELSE least
    BY DEF Line
  <2>3. steps = written.steps => OwnLine(step) = own
    BY DEF OwnLine
  <2> HIDE DEF time
  <2>4. own \in 0 .. Len(lines) - 1 /\ P(own)
    <3> HIDE DEF P
    <3> QED BY <2>1
  <2> HIDE DEF own
  <2>5. own \in notBefore /\ notBefore \subseteq Nat /\ own + 1 \in 1 .. Len(lines)
    BY <1>1, <2>4 DEF At
  <2>6. least \in notBefore /\ \A k \in notBefore : least <= k
    <3> HIDE DEF notBefore
    <3>1. \E k \in notBefore : \A l \in notBefore : k <= l
      BY <2>5, LeastNumber
    <3> QED BY <3>1 DEF Min
  <2> HIDE DEF least
  <2>7. Line(step) = least
    <3>1. ~(step >= Len(steps))
      BY <1>3 DEF DetectorInv, DetectorTypes
    <3> HIDE DEF notBefore
    <3> QED BY <2>2, <2>5, <3>1
  <2>8. /\ least \in 0 .. Len(lines) - 1 /\ lines[least + 1].ts >= time
        /\ lines[own + 1].ts = time
    BY <2>4, <2>6 DEF At
  <2>9. ASSUME InOrder PROVE least = own
    <3>0. least <= own
      BY <2>5, <2>6
    <3>1. SUFFICES ASSUME least < own PROVE FALSE
      <4>1. least \in Int /\ own \in Int
        BY <1>1, <2>4, <2>8
      <4> HIDE DEF P
      <4> QED BY <3>0, <4>1
    <3>2. lines[least + 1].ts < lines[own + 1].ts
      <4>1. least + 1 \in 1 .. Len(lines) /\ own + 1 \in 1 .. Len(lines) /\ least + 1 < own + 1
        BY <1>1, <2>4, <2>8, <3>1
      <4> QED BY <2>9, <4>1, InOrderThroughout
    <3>3. lines[least + 1].ts \in Int /\ lines[own + 1].ts \in Int
      BY <1>1, <2>4, <2>8
    <3> QED BY <2>8, <3>2, <3>3
  <2> QED BY <1>1, <2>3, <2>4, <2>5, <2>6, <2>7, <2>8, <2>9
<1> QED
  <2>1. Len(steps) \in Nat
    BY DEF DetectorInv, DetectorTypes
  <2> QED BY <1>2, <1>3, <2>1

\* The late lines of a range, when it gets one line more at either end.
LEMMA LateInIsNumber ==
    ASSUME NEW a \in Int, NEW b \in Int
    PROVE  LateIn(a, b) \in Nat /\ IsFiniteSet(other.late \cap (a .. b - 1))
<1>1. b - 1 \in Int
  OBVIOUS
<1>2. IsFiniteSet(a .. b - 1)
  BY <1>1, FS_Interval
<1>3. IsFiniteSet(other.late \cap (a .. b - 1))
  BY <1>2, FS_Subset
<1> QED BY <1>3, FS_CardinalityType DEF LateIn

LEMMA LateBehind ==
    ASSUME NEW a \in Int, NEW b \in Int, a <= b
    PROVE  LateIn(a, b + 1) = LateIn(a, b) + Late(b)
<1> DEFINE S == other.late \cap (a .. b - 1)
           T == other.late \cap (a .. (b + 1) - 1)
<1>1. IsFiniteSet(S) /\ LateIn(a, b) \in Nat
  BY LateInIsNumber
<1>2. Cardinality(S) = LateIn(a, b) /\ Cardinality(T) = LateIn(a, b + 1)
  BY DEF LateIn
<1>3. b \notin S
  OBVIOUS
<1>4. CASE b \in other.late
  <2>1. T = S \cup {b}
    BY <1>4
  <2>2. Late(b) = 1
    BY <1>4 DEF Late
  <2> HIDE DEF S, T
  <2>3. Cardinality(S \cup {b}) = Cardinality(S) + 1
    BY <1>1, <1>3, FS_AddElement
  <2> QED BY <1>2, <2>1, <2>2, <2>3
<1>5. CASE b \notin other.late
  <2>1. T = S
    BY <1>5
  <2>2. Late(b) = 0
    BY <1>5 DEF Late
  <2> HIDE DEF S, T
  <2> QED BY <1>1, <1>2, <2>1, <2>2
<1> QED BY <1>4, <1>5

LEMMA LateBefore ==
    ASSUME NEW a \in Int, NEW b \in Int, a < b
    PROVE  LateIn(a, b) = LateIn(a + 1, b) + Late(a)
<1> DEFINE S == other.late \cap (a + 1 .. b - 1)
           T == other.late \cap (a .. b - 1)
<1>1. IsFiniteSet(S) /\ LateIn(a + 1, b) \in Nat
  <2>1. a + 1 \in Int
    OBVIOUS
  <2> QED BY <2>1, LateInIsNumber
<1>2. Cardinality(S) = LateIn(a + 1, b) /\ Cardinality(T) = LateIn(a, b)
  BY DEF LateIn
<1>3. a \notin S
  OBVIOUS
<1>4. CASE a \in other.late
  <2>1. T = S \cup {a}
    BY <1>4
  <2>2. Late(a) = 1
    BY <1>4 DEF Late
  <2> HIDE DEF S, T
  <2>3. Cardinality(S \cup {a}) = Cardinality(S) + 1
    BY <1>1, <1>3, FS_AddElement
  <2> QED BY <1>2, <2>1, <2>2, <2>3
<1>5. CASE a \notin other.late
  <2>1. T = S
    BY <1>5
  <2>2. Late(a) = 0
    BY <1>5 DEF Late
  <2> HIDE DEF S, T
  <2> QED BY <1>1, <1>2, <2>1, <2>2
<1> QED BY <1>4, <1>5

\* What the window is told by its last position, it would be told by counting.
LEMMA SlidingCounts ==
    ASSUME NEW first \in Int, NEW next \in Int
    PROVE  Sliding(first, next) <=>
              \E from \in first .. next - N : Enough(LateIn(from, from + N), N)
<1>1. N \in Nat \ {0}
  BY DiagnoseAssumption
<1> DEFINE Table(f) == f = [k \in first + N .. next |->
                              IF k = first + N THEN LateIn(first, k)
                              ELSE f[k - 1] + Late(k - 1) - Late(k - 1 - N)]
           e == CHOOSE f : Table(f)
           g == [k \in first + N .. next |-> LateIn(k - N, k)]
<1>2. ASSUME NEW k \in first + N .. next, k # first + N
      PROVE  /\ LateIn(k - N, k) = LateIn((k - 1) - N, k - 1) + Late(k - 1) - Late(k - 1 - N)
             /\ k - 1 \in first + N .. next
  <2> DEFINE a == (k - 1) - N
             b == k - 1
  <2>1. a \in Int /\ b \in Int /\ a < b /\ a <= b /\ b + 1 \in Int /\ a < b + 1
    BY <1>1
  <2>2. LateIn(a, b + 1) = LateIn(a, b) + Late(b)
    BY <2>1, LateBehind
  <2>3. LateIn(a, b + 1) = LateIn(a + 1, b + 1) + Late(a)
    BY <2>1, LateBefore
  <2>4. LateIn(a, b) \in Nat /\ LateIn(a + 1, b + 1) \in Nat /\ Late(a) \in Nat /\ Late(b) \in Nat
    <3>1. a + 1 \in Int
      BY <2>1
    <3> HIDE DEF a, b
    <3> QED BY <2>1, <3>1, LateInIsNumber DEF Late
  <2>5. a + 1 = k - N /\ b + 1 = k /\ a = k - 1 - N
    BY <1>1
  <2>6. LateIn(a + 1, b + 1) = LateIn(a, b) + Late(b) - Late(a)
    <3> HIDE DEF a, b
    <3> QED BY <2>2, <2>3, <2>4
  <2>7. LateIn(k - N, k) = LateIn(a, b) + Late(b) - Late(k - 1 - N)
    <3> HIDE DEF a, b
    <3> QED BY <2>5, <2>6
  <2> QED BY <1>1, <1>2, <2>7
<1>3. Table(g)
  <2>1. ASSUME NEW k \in first + N .. next
        PROVE  g[k] = IF k = first + N THEN LateIn(first, k)
                      ELSE g[k - 1] + Late(k - 1) - Late(k - 1 - N)
    <3>1. CASE k = first + N
      <4>1. k - N = first
        BY <1>1, <3>1
      <4> QED BY <3>1, <4>1
    <3>2. CASE k # first + N
      BY <1>2, <3>2
    <3> QED BY <3>1, <3>2
  <2> QED BY <2>1
<1>4. Table(e)
  <2> HIDE DEF Table
  <2> QED BY <1>3
<1>5. Sliding(first, next) <=> \E k \in first + N .. next : Enough(e[k], N)
  BY DEF Sliding
<1> HIDE DEF e
<1>6. \A k \in first + N .. next : e[k] = IF k = first + N THEN LateIn(first, k)
                              ELSE e[k - 1] + Late(k - 1) - Late(k - 1 - N)
  BY <1>4
<1> HIDE DEF Table
<1>7. \A k \in first + N .. next : e[k] = LateIn(k - N, k)
  <2> DEFINE T == {d \in Nat : first + N + d <= next
                     /\ e[first + N + d] # LateIn((first + N + d) - N, first + N + d)}
  <2>1. T = {}
    <3>1. SUFFICES ASSUME T # {} PROVE FALSE
      OBVIOUS
    <3>2. PICK d \in T : \A l \in T : d <= l
      <4>1. T \subseteq Nat
        OBVIOUS
      <4> HIDE DEF T
      <4> QED BY <3>1, <4>1, LeastNumber
    <3> DEFINE k == first + N + d
    <3>3. k \in first + N .. next /\ e[k] # LateIn(k - N, k)
      BY <1>1, <3>2
    <3>4. k # first + N
      <4>1. SUFFICES ASSUME k = first + N PROVE FALSE
        OBVIOUS
      <4>2. k - N = first
        BY <1>1, <4>1
      <4> HIDE DEF k
      <4> QED BY <1>6, <3>3, <4>1, <4>2
    <3>5. d # 0 /\ d - 1 \in Nat /\ d - 1 \notin T
      BY <1>1, <3>2, <3>4
    <3>6. first + N + (d - 1) = k - 1 /\ k - 1 <= next
      BY <1>1, <3>2
    <3> HIDE DEF k
    <3>7. e[k - 1] = LateIn((k - 1) - N, k - 1)
      BY <3>5, <3>6
    <3>8. e[k] = e[k - 1] + Late(k - 1) - Late(k - 1 - N)
      BY <1>6, <3>3, <3>4
    <3>9. LateIn(k - N, k) = LateIn((k - 1) - N, k - 1) + Late(k - 1) - Late(k - 1 - N)
      BY <1>2, <3>3, <3>4
    <3> QED BY <3>3, <3>7, <3>8, <3>9
  <2>2. ASSUME NEW k \in first + N .. next PROVE e[k] = LateIn(k - N, k)
    <3>1. k - (first + N) \in Nat /\ first + N + (k - (first + N)) = k
      BY <1>1
    <3> DEFINE d == k - (first + N)
    <3>2. d \in Nat /\ first + N + d = k /\ d \notin T
      BY <2>1, <3>1
    <3> HIDE DEF d
    <3> QED BY <3>2
  <2> QED BY <2>2
<1>8. ASSUME NEW k \in first + N .. next, Enough(e[k], N)
      PROVE  \E from \in first .. next - N : Enough(LateIn(from, from + N), N)
  <2>1. k - N \in first .. next - N /\ (k - N) + N = k
    BY <1>1
  <2> QED BY <1>7, <1>8, <2>1
<1>9. ASSUME NEW from \in first .. next - N, Enough(LateIn(from, from + N), N)
      PROVE  \E k \in first + N .. next : Enough(e[k], N)
  <2>1. from + N \in first + N .. next /\ (from + N) - N = from
    BY <1>1
  <2> QED BY <1>7, <1>9, <2>1
<1> QED BY <1>5, <1>8, <1>9

\* detect_slow_in_range is what it should be.
LEMMA SlowCounts ==
    ASSUME NEW first \in Int, NEW next \in Int
    PROVE  SlowInRange(first, next) <=>
              IF next - first < N THEN ManyLate(first, next)
              ELSE \E from \in first .. next - N : ManyLate(from, from + N)
<1>1. N \in Nat \ {0}
  BY DiagnoseAssumption
<1>2. CASE next - first < N
  BY <1>2 DEF SlowInRange, ManyLate
<1>3. CASE ~(next - first < N)
  <2>1. \A from \in first .. next - N : ManyLate(from, from + N) <=> Enough(LateIn(from, from + N), N)
    <3> SUFFICES ASSUME NEW from \in first .. next - N
                 PROVE ManyLate(from, from + N) <=> Enough(LateIn(from, from + N), N)
      OBVIOUS
    <3>1. Larger((from + N) - from, 1) = N
      BY <1>1 DEF Larger
    <3> QED BY <3>1 DEF ManyLate
  <2>2. SlowInRange(first, next) <=> Sliding(first, next)
    BY <1>3 DEF SlowInRange
  <2> QED BY <1>3, <2>1, <2>2, SlidingCounts
<1> QED BY <1>2, <1>3
-----------------------------------------------------------------------------
(***************************************************************************)
(* The verdicts.  Changes are judged in their order, each with the lines   *)
(* from its own step to the step of the next change.                       *)
(*                                                                         *)
(* The functions of the state, so that what they say of a verdict can be   *)
(* carried to the next state: LineOf, LineEndOf and SlowOf are Line,       *)
(* LineEnd and SlowInRange of the values given.                            *)
(***************************************************************************)
LineOf(ls, es, ss, step) ==
    LET notBefore == {k \in 0 .. Len(ls) - 1 : At(ls, k).ts >= At(es, At(ss, step).first).ts}
    IN IF step >= Len(ss) \/ notBefore = {} THEN Len(ls) - 1 ELSE Min(notBefore)

LineEndOf(ls, es, ss, o, cps, cp) ==
    LET following == {c.step : c \in {c \in cps : c.step > cp.step}}
        shortest == Smaller(Len(ls), o.shortest)
    IN Smaller(IF following = {} THEN shortest ELSE LineOf(ls, es, ss, Min(following)), shortest)

SlowOf(late, first, next) ==
    LET lateIn(a, b) == Cardinality(late \cap (a .. b - 1))
    IN IF next - first < N
       THEN Enough(lateIn(first, next), Larger(next - first, 1))
       ELSE \E from \in first .. next - N : Enough(lateIn(from, from + N), Larger((from + N) - from, 1))

Verdict == [step : Nat, first : Int, next : Int, slow : BOOLEAN]

Judged(v, cp) ==
    /\ v.step = cp.step
    /\ v.first = LineOf(lines, entries, steps, cp.step)
    /\ v.next = LineEndOf(lines, entries, steps, other, changepoints, cp)
    /\ v.slow <=> cp.direction = "up" /\ SlowOf(other.late, v.first, v.next)

Upto(step) == {c \in changepoints : c.step <= step}

Done == {c \in changepoints : \E k \in 1 .. Len(verdicts) : verdicts[k].step = c.step}

InTurn ==
    /\ Cardinality(Done) = Len(verdicts)
    /\ \A c \in Remaining : \A k \in 1 .. Len(verdicts) : verdicts[k].step < c.step
    /\ \A k \in 1 .. Len(verdicts) :
          /\ Cardinality(Upto(verdicts[k].step)) = k
          /\ \E cp \in changepoints : Judged(verdicts[k], cp)

JudgeInv ==
    /\ lines \in Files /\ LinesRead
    /\ other.shortest \in Nat /\ other.late \subseteq Nat
    /\ verdicts \in Seq(Verdict) /\ IsFiniteSet(changepoints)
    /\ phase \in {"csv", "changes", "detect", "judge"}
    /\ phase \in {"detect", "judge"} => search = "found"
    /\ phase # "judge" => verdicts = << >>
    /\ InTurn

BlameInv == DiagnoseInv /\ DetectorInv /\ JudgeInv /\ WrittenInv

LEMMA LineIs ==
    ASSUME NEW step PROVE Line(step) = LineOf(lines, entries, steps, step)
BY DEF Line, LineOf, StartNs

LEMMA LineEndIs ==
    ASSUME NEW cp
    PROVE  LineEnd(cp) = LineEndOf(lines, entries, steps, other, changepoints, cp)
BY LineIs DEF LineEnd, LineEndOf, Following, ShortestTrace

LEMMA SlowIs ==
    ASSUME NEW first \in Int, NEW next \in Int
    PROVE  SlowInRange(first, next) <=> SlowOf(other.late, first, next)
BY SlowCounts DEF SlowOf, ManyLate, LateIn

LEMMA InitJudge == Init => JudgeInv
<1> SUFFICES ASSUME Init PROVE JudgeInv
  OBVIOUS
<1>1. /\ lines \in Files /\ lines \in Seq(Lines) /\ entries = ParseTrace(lines)
      /\ changepoints = {} /\ phase = "csv" /\ other = [shortest |-> 0, late |-> {}]
      /\ verdicts = << >>
  BY DiagnoseAssumption DEF Init, DetectorInit, ChangeInit, Lines
<1>2. LinesRead
  BY <1>1, ParseTraceEntries DEF LinesRead
<1>3. Len(verdicts) = 0 /\ verdicts \in Seq(Verdict)
  BY <1>1
<1>4. IsFiniteSet(changepoints) /\ Cardinality(Done) = 0
  <2>1. Done = {}
    BY <1>1 DEF Done
  <2> QED BY <1>1, <2>1, FS_EmptySet
<1>5. InTurn
  BY <1>3, <1>4 DEF InTurn
<1> QED BY <1>1, <1>2, <1>3, <1>4, <1>5 DEF JudgeInv

\* Before there are verdicts.
LEMMA NoVerdict ==
    ASSUME verdicts = << >>
    PROVE  InTurn
<1>1. Len(verdicts) = 0
  OBVIOUS
<1>2. Cardinality(Done) = 0
  <2>1. Done = {}
    BY <1>1 DEF Done
  <2> QED BY <2>1, FS_EmptySet
<1> QED BY <1>1, <1>2 DEF InTurn

LEMMA SameVerdicts ==
    ASSUME InTurn, UNCHANGED <<lines, entries, steps, other, changepoints, verdicts>>
    PROVE  InTurn'
<1>1. Done' = Done /\ Remaining' = Remaining
  BY DEF Done, Remaining
<1>2. \A k \in 1 .. Len(verdicts) : Upto(verdicts[k].step)' = Upto(verdicts[k].step)
  BY DEF Upto
<1>3. \A k \in 1 .. Len(verdicts), cp \in changepoints :
         Judged(verdicts[k], cp) => Judged(verdicts[k], cp)'
  BY DEF Judged
<1> QED BY <1>1, <1>2, <1>3 DEF InTurn

LEMMA LeastFollowing ==
    ASSUME ChangeInv, NEW cp \in changepoints, Following(cp) # {}
    PROVE  /\ Min(Following(cp)) \in Following(cp) /\ Min(Following(cp)) \in Nat
           /\ \A step \in Following(cp) : Min(Following(cp)) <= step
<1>1. Following(cp) \subseteq Nat
  <2>1. \A c \in changepoints : c.step \in Nat
    BY DEF ChangeInv, ChangeTypeOK
  <2> QED BY <2>1 DEF Following
<1>2. \E k \in Following(cp) : \A l \in Following(cp) : k <= l
  BY <1>1, LeastNumber
<1>3. Min(Following(cp)) \in Following(cp) /\ \A l \in Following(cp) : Min(Following(cp)) <= l
  BY <1>2 DEF Min
<1> QED BY <1>1, <1>3

LEMMA LinesOfChange ==
    ASSUME BlameInv, NEW cp \in changepoints
    PROVE  cp.step \in Nat /\ Line(cp.step) \in Int /\ LineEnd(cp) \in Int
<1>1. ChangeInv /\ DetectorInv /\ LinesRead /\ other.shortest \in Nat
  BY DEF BlameInv, DiagnoseInv, JudgeInv
<1>2. cp.step \in Nat
  BY <1>1 DEF ChangeInv, ChangeTypeOK
<1>3. ShortestTrace \in Int
  <2>1. Len(lines) \in Nat
    BY <1>1 DEF LinesRead
  <2> QED BY <1>1, <2>1 DEF ShortestTrace, Smaller
<1>4. Following(cp) # {} => Line(Min(Following(cp))) \in Int
  BY <1>1, LeastFollowing, LineIsOwn
<1>5. LineEnd(cp) \in Int
  BY <1>3, <1>4 DEF LineEnd, Smaller
<1> QED BY <1>1, <1>2, <1>5, LineIsOwn

\* The next change in turn is judged.
LEMMA JudgeInTurn ==
    ASSUME BlameInv, Judge
    PROVE  InTurn' /\ verdicts' \in Seq(Verdict)
<1>1. /\ lines' = lines /\ entries' = entries /\ steps' = steps /\ other' = other
      /\ changepoints' = changepoints
  BY DEF Judge, detectorVars, changeVars
<1>2. PICK cp \in Remaining :
         /\ \A c \in Remaining : cp.step <= c.step
         /\ \E first \in {Line(cp.step)}, next \in {LineEnd(cp)} :
              verdicts' = Append(verdicts,
                [step |-> cp.step, first |-> first, next |-> next,
                 slow |-> cp.direction = "up" /\ SlowInRange(first, next)])
  BY DEF Judge
<1> DEFINE first == Line(cp.step)
           next == LineEnd(cp)
           slow == cp.direction = "up" /\ SlowInRange(first, next)
           v == [step |-> cp.step, first |-> first, next |-> next, slow |-> slow]
           m == Len(verdicts)
<1>3. verdicts' = Append(verdicts, v)
  BY <1>2
<1>4. cp \in changepoints /\ cp.step \in Nat /\ first \in Int /\ next \in Int
  BY <1>2, LinesOfChange DEF Remaining
<1>5. v \in Verdict /\ v.step = cp.step
  <2>1. slow \in BOOLEAN
    OBVIOUS
  <2> HIDE DEF first, next, slow
  <2> QED BY <1>4, <2>1 DEF Verdict
<1>6. Judged(v, cp)
  <2>1. /\ first = LineOf(lines, entries, steps, cp.step)
        /\ next = LineEndOf(lines, entries, steps, other, changepoints, cp)
    BY LineIs, LineEndIs
  <2>2. slow <=> cp.direction = "up" /\ SlowOf(other.late, first, next)
    <3>1. SlowInRange(first, next) <=> SlowOf(other.late, first, next)
      BY <1>4, SlowIs
    <3> QED BY <3>1
  <2> HIDE DEF first, next, slow
  <2>3. v.first = first /\ v.next = next /\ (v.slow <=> slow)
    OBVIOUS
  <2> QED BY <1>5, <2>1, <2>2, <2>3 DEF Judged
<1> HIDE DEF first, next, slow, v
<1>7. /\ verdicts' \in Seq(Verdict) /\ Len(verdicts') = m + 1 /\ verdicts'[m + 1] = v
      /\ \A k \in 1 .. m : verdicts'[k] = verdicts[k]
      /\ m \in Nat /\ \A k \in 1 .. m : verdicts[k].step \in Nat
  <2>1. verdicts \in Seq(Verdict)
    BY DEF BlameInv, JudgeInv
  <2>2. m \in Nat /\ \A k \in 1 .. m : verdicts[k] \in Verdict
    BY <2>1
  <2>3. \A k \in 1 .. m : verdicts[k].step \in Nat
    BY <2>2 DEF Verdict
  <2> HIDE DEF m
  <2> QED BY <1>3, <1>5, <2>1, <2>2, <2>3, SMTT(30) DEF m
<1> HIDE DEF m
<1>8. /\ IsFiniteSet(changepoints) /\ Cardinality(Done) = m
      /\ \A c \in Remaining : \A k \in 1 .. m : verdicts[k].step < c.step
      /\ \A k \in 1 .. m : /\ Cardinality(Upto(verdicts[k].step)) = k
                           /\ \E c \in changepoints : Judged(verdicts[k], c)
      /\ \A c \in changepoints : c.step \in Nat
      /\ \A c, d \in changepoints : c.step = d.step => c = d
  BY DEF BlameInv, JudgeInv, InTurn, DiagnoseInv, ChangeInv, ChangeTypeOK, ChangesApart, m
<1>9. cp \notin Done
  BY <1>2 DEF Remaining, Done, m
<1>10. \A c \in changepoints : c \in Remaining <=> c \notin Done
  BY DEF Remaining, Done
<1>11. Upto(cp.step) = Done \cup {cp}
  <2>1. ASSUME NEW c \in Done PROVE c \in changepoints /\ c.step <= cp.step
    <3>1. PICK k \in 1 .. m : verdicts[k].step = c.step
      BY <2>1 DEF Done, m
    <3>2. c \in changepoints /\ c.step < cp.step
      BY <1>2, <1>8, <2>1, <3>1 DEF Done
    <3> QED BY <1>4, <1>8, <3>2
  <2>2. ASSUME NEW c \in changepoints, c.step <= cp.step, c \notin Done PROVE c = cp
    <3>1. cp.step <= c.step
      BY <1>2, <1>10, <2>2
    <3>2. c.step = cp.step
      BY <1>4, <1>8, <2>2, <3>1
    <3> QED BY <1>4, <1>8, <3>2
  <2>3. ASSUME NEW c PROVE c \in Upto(cp.step) <=> c \in Done \cup {cp}
    <3>1. c \in Done => c \in Upto(cp.step)
      BY <2>1 DEF Upto
    <3>2. c \in Upto(cp.step) => c \in Done \/ c = cp
      BY <2>2 DEF Upto
    <3>3. cp \in Upto(cp.step)
      BY <1>4 DEF Upto
    <3> QED BY <3>1, <3>2, <3>3
  <2> QED BY <2>3
<1>12. Cardinality(Done \cup {cp}) = m + 1
  <2>1. IsFiniteSet(Done)
    <3>1. Done \subseteq changepoints
      BY DEF Done
    <3> QED BY <1>8, <3>1, FS_Subset
  <2> QED BY <1>8, <1>9, <2>1, FS_AddElement
<1>13. \A k \in 1 .. m + 1 : k \in 1 .. m \/ k = m + 1
  BY <1>7
<1>14. Done' = Done \cup {cp}
  <2>1. ASSUME NEW c \in Done PROVE c \in Done'
    <3>1. PICK k \in 1 .. m : verdicts[k].step = c.step
      BY <2>1 DEF Done, m
    <3>2. k \in 1 .. m + 1 /\ verdicts'[k].step = c.step
      BY <1>7, <3>1
    <3>3. c \in changepoints
      BY <2>1 DEF Done
    <3> QED BY <1>1, <1>7, <3>2, <3>3 DEF Done
  <2>2. cp \in Done'
    <3>1. m + 1 \in 1 .. m + 1 /\ verdicts'[m + 1].step = cp.step
      BY <1>5, <1>7
    <3> QED BY <1>1, <1>4, <1>7, <3>1 DEF Done
  <2>3. ASSUME NEW c \in Done' PROVE c \in Done \cup {cp}
    <3>1. PICK k \in 1 .. m + 1 : verdicts'[k].step = c.step
      BY <1>7, <2>3 DEF Done
    <3>2. c \in changepoints
      BY <1>1, <2>3 DEF Done
    <3>3. CASE k \in 1 .. m
      BY <1>7, <3>1, <3>2, <3>3 DEF Done, m
    <3>4. CASE k = m + 1
      BY <1>4, <1>5, <1>7, <1>8, <3>1, <3>2, <3>4
    <3> QED BY <1>13, <3>3, <3>4
  <2> QED BY <2>1, <2>2, <2>3
<1>15. Cardinality(Done') = Len(verdicts')
  BY <1>7, <1>12, <1>14
<1>16. ASSUME NEW c \in Remaining', NEW k \in 1 .. m + 1 PROVE verdicts'[k].step < c.step
  <2>1. c \in changepoints /\ \A l \in 1 .. m + 1 : verdicts'[l].step # c.step
    BY <1>1, <1>7, <1>16 DEF Remaining
  <2>2. c \in Remaining
    <3>1. \A l \in 1 .. m : verdicts[l].step # c.step
      BY <1>7, <2>1
    <3> QED BY <2>1, <3>1 DEF Remaining, m
  <2>3. CASE k \in 1 .. m
    BY <1>7, <1>8, <2>2, <2>3
  <2>4. CASE k = m + 1
    <3>1. cp.step <= c.step /\ cp.step # c.step
      BY <1>2, <1>5, <1>7, <2>1, <2>2
    <3> QED BY <1>4, <1>5, <1>7, <1>8, <2>1, <2>4, <3>1
  <2> QED BY <1>13, <2>3, <2>4
<1>17. ASSUME NEW k \in 1 .. m + 1
       PROVE  /\ Cardinality(Upto(verdicts[k].step)') = k
              /\ \E c \in changepoints' : Judged(verdicts[k], c)'
  <2>1. Upto(verdicts[k].step)' = {c \in changepoints : c.step <= verdicts'[k].step}
    BY <1>1 DEF Upto
  <2>2. \A c : Judged(verdicts[k], c)' <=> Judged(verdicts'[k], c)
    BY <1>1 DEF Judged
  <2>3. CASE k \in 1 .. m
    <3>1. verdicts'[k] = verdicts[k]
      BY <1>7, <2>3
    <3>2. Upto(verdicts[k].step)' = Upto(verdicts[k].step)
      BY <2>1, <3>1 DEF Upto
    <3>3. \E c \in changepoints : Judged(verdicts'[k], c)
      BY <1>8, <2>3, <3>1
    <3> QED BY <1>1, <1>8, <2>2, <2>3, <3>2, <3>3
  <2>4. CASE k = m + 1
    <3>1. Upto(verdicts[k].step)' = Upto(cp.step)
      BY <1>5, <1>7, <2>1, <2>4 DEF Upto
    <3> QED BY <1>1, <1>4, <1>6, <1>7, <1>11, <1>12, <2>2, <2>4, <3>1
  <2> QED BY <1>13, <2>3, <2>4
<1> QED BY <1>7, <1>15, <1>16, <1>17 DEF InTurn

LEMMA NextJudge ==
    ASSUME BlameInv, [Next]_diagnoseVars
    PROVE  JudgeInv'
<1>1. /\ lines' = lines /\ entries' = entries
  <2>1. CASE DetectSteps
    BY <2>1 DEF DetectSteps, DetectorNext, ScanEntry, NoPattern, MatchEntry, Mismatch, EndOfTrace
  <2>2. CASE DetectOnBase
    BY <2>2 DEF DetectOnBase, DetectAgain
  <2>3. CASE WriteCsv \/ FindChanges \/ CompareTraces \/ Judge \/ UNCHANGED diagnoseVars
    BY <2>3 DEF WriteCsv, FindChanges, CompareTraces, Judge, diagnoseVars, detectorVars
  <2> QED BY <2>1, <2>2, <2>3 DEF Next
<1>2. JudgeInv /\ DiagnoseInv
  BY DEF BlameInv
<1>3. lines' \in Files /\ LinesRead'
  BY <1>1, <1>2 DEF JudgeInv, LinesRead, TakenFrom
<1>4. other'.shortest \in Nat /\ other'.late \subseteq Nat
  <2>1. CASE CompareTraces
    BY <1>2, <2>1, DiagnoseAssumption DEF CompareTraces, JudgeInv
  <2>2. CASE ~CompareTraces
    <3>1. other' = other
      BY <2>2 DEF Next, DetectSteps, WriteCsv, FindChanges, DetectOnBase, Judge, diagnoseVars
    <3> QED BY <1>2, <3>1 DEF JudgeInv
  <2> QED BY <2>1, <2>2
<1>5. IsFiniteSet(changepoints')
  <2>1. CASE FindChanges
    <3>1. ChangeNext
      BY <2>1 DEF FindChanges
    <3>2. CASE FindChange
      <4>1. PICK cp : changepoints' = changepoints \cup {cp}
        BY <3>2 DEF FindChange
      <4> QED BY <1>2, <4>1, FS_AddElement DEF JudgeInv
    <3>3. CASE NoChange
      BY <1>2, <3>3 DEF NoChange, JudgeInv
    <3>4. CASE DropTail
      <4>1. changepoints' \subseteq changepoints
        BY <3>4 DEF DropTail
      <4> QED BY <1>2, <4>1, FS_Subset DEF JudgeInv
    <3> QED BY <3>1, <3>2, <3>3, <3>4 DEF ChangeNext
  <2>2. CASE ~FindChanges
    <3>1. changepoints' = changepoints
      BY <2>2 DEF Next, DetectSteps, WriteCsv, DetectOnBase, CompareTraces, Judge, diagnoseVars,
                  changeVars
    <3> QED BY <1>2, <3>1 DEF JudgeInv
  <2> QED BY <2>1, <2>2
<1>6. CASE Judge
  <2>1. phase = "judge" /\ phase' = "judge" /\ search' = search
    BY <1>6 DEF Judge, changeVars
  <2>2. InTurn' /\ verdicts' \in Seq(Verdict)
    BY <1>6, JudgeInTurn
  <2> QED BY <1>2, <1>3, <1>4, <1>5, <2>1, <2>2 DEF JudgeInv
<1>7. CASE UNCHANGED diagnoseVars
  <2>1. InTurn'
    BY <1>2, <1>7, SameVerdicts DEF JudgeInv, diagnoseVars, detectorVars, changeVars
  <2>2. phase' = phase /\ search' = search /\ verdicts' = verdicts
    BY <1>7 DEF diagnoseVars, changeVars
  <2> QED BY <1>2, <1>3, <1>4, <1>5, <2>1, <2>2 DEF JudgeInv
<1>8. CASE DetectSteps \/ WriteCsv \/ FindChanges \/ DetectOnBase \/ CompareTraces
  <2>1. phase # "judge" /\ verdicts' = verdicts
    BY <1>8 DEF DetectSteps, WriteCsv, FindChanges, DetectOnBase, CompareTraces
  <2>2. verdicts' = << >> /\ verdicts' \in Seq(Verdict)
    BY <1>2, <2>1 DEF JudgeInv
  <2>3. InTurn'
    <3>1. (verdicts = << >>)'
      BY <2>2
    <3> QED BY <3>1, NoVerdict, PTL
  <2>4. /\ phase' \in {"csv", "changes", "detect", "judge"}
        /\ phase' \in {"detect", "judge"} => search' = "found"
    <3>1. CASE DetectSteps
      BY <1>2, <3>1 DEF DetectSteps, JudgeInv, changeVars
    <3>2. CASE WriteCsv
      BY <3>2 DEF WriteCsv
    <3>3. CASE FindChanges
      BY <3>3 DEF FindChanges
    <3>4. CASE DetectOnBase
      BY <3>4 DEF DetectOnBase, changeVars
    <3>5. CASE CompareTraces
      BY <1>2, <3>5 DEF CompareTraces, JudgeInv, changeVars
    <3> QED BY <1>8, <3>1, <3>2, <3>3, <3>4, <3>5
  <2> QED BY <1>3, <1>4, <1>5, <2>2, <2>3, <2>4 DEF JudgeInv
<1> QED BY <1>6, <1>7, <1>8 DEF Next

\* The change a verdict is about is the last one exactly if as many have been
\* judged as there are.
LEMMA LastInTurn ==
    ASSUME BlameInv, NEW k \in 1 .. Len(verdicts), NEW cp \in changepoints,
           verdicts[k].step = cp.step
    PROVE  k = Cardinality(changepoints) <=> Following(cp) = {}
<1>1. /\ IsFiniteSet(changepoints) /\ Cardinality(Upto(cp.step)) = k
      /\ \A c \in changepoints : c.step \in Nat
  BY DEF BlameInv, JudgeInv, InTurn, DiagnoseInv, ChangeInv, ChangeTypeOK
<1>2. Upto(cp.step) \subseteq changepoints
  BY DEF Upto
<1>3. Following(cp) = {} <=> Upto(cp.step) = changepoints
  <2>1. ASSUME Following(cp) = {} PROVE Upto(cp.step) = changepoints
    <3>1. ASSUME NEW c \in changepoints PROVE c \in Upto(cp.step)
      <4>1. ~ (c.step > cp.step)
        BY <2>1 DEF Following
      <4> QED BY <1>1, <4>1 DEF Upto
    <3> QED BY <1>2, <3>1
  <2>2. Upto(cp.step) = changepoints => Following(cp) = {}
    BY <1>1 DEF Following, Upto
  <2> QED BY <2>1, <2>2
<1>4. Cardinality(Upto(cp.step)) = Cardinality(changepoints) => Upto(cp.step) = changepoints
  BY <1>1, <1>2, FS_Subset
<1> QED BY <1>1, <1>3, <1>4

\* Whom the diagnosis blames.
LEMMA Blames == BlameInv => BlameIsLocal
<1> SUFFICES ASSUME BlameInv, NEW k \in 1 .. Len(verdicts)
             PROVE  LET v == verdicts[k]
                        last == IF k = Cardinality(changepoints) THEN Len(lines)
                                ELSE OwnLine(Min({cp.step : cp \in changepoints}
                                                   \cap (v.step + 1 .. n)))
                        next == Smaller(last, ShortestTrace)
                        first == OwnLine(v.step)
                    IN /\ v.slow <=>
                            /\ [step |-> v.step, direction |-> "up"] \in changepoints
                            /\ IF v.next - v.first < N THEN ManyLate(v.first, v.next)
                               ELSE \E from \in v.first .. v.next - N :
                                       ManyLate(from, from + N)
                       /\ written.options = NotGiven =>
                            /\ v.first <= first /\ v.next <= next
                            /\ InOrder => v.first = first /\ v.next = next
  BY DEF BlameIsLocal
<1> DEFINE v == verdicts[k]
           later == {cp.step : cp \in changepoints} \cap (v.step + 1 .. n)
           last == IF k = Cardinality(changepoints) THEN Len(lines) ELSE OwnLine(Min(later))
           next == Smaller(last, ShortestTrace)
           first == OwnLine(v.step)
<1>1. /\ DetectorInv /\ LinesRead /\ ChangeInv /\ Len(lines) \in Nat /\ other.shortest \in Nat
      /\ WrittenInv
      /\ phase = "judge" /\ search = "found" /\ v \in Verdict
  <2>1. verdicts # << >>
    OBVIOUS
  <2> QED BY <2>1 DEF BlameInv, JudgeInv, DiagnoseInv, LinesRead
<1>2. PICK cp \in changepoints : Judged(v, cp)
  BY DEF BlameInv, JudgeInv, InTurn
<1>3. cp.step \in Nat /\ n \in Nat /\ \A c \in changepoints : c.step \in Nat /\ c.step <= n
  <2>1. \A c \in changepoints : c.step \in Nat /\ c.step + Baseline <= n
    BY <1>1 DEF ChangeInv, ChangeTypeOK, ChangesApart
  <2> QED BY <1>1, <2>1, ChangeAssumption DEF ChangeInv, ChangeTypeOK
<1>4. /\ v.step = cp.step /\ v.first = Line(cp.step) /\ v.next = LineEnd(cp)
      /\ v.slow <=> cp.direction = "up" /\ SlowInRange(v.first, v.next)
  <2>1. v.step = cp.step /\ v.first = Line(cp.step) /\ v.next = LineEnd(cp)
    BY <1>2, LineIs, LineEndIs DEF Judged
  <2>2. v.first \in Int /\ v.next \in Int
    BY <1>1 DEF Verdict
  <2>3. SlowInRange(v.first, v.next) <=> SlowOf(other.late, v.first, v.next)
    BY <2>2, SlowIs
  <2> HIDE DEF v
  <2> QED BY <1>2, <2>1, <2>3 DEF Judged
<1>5. ASSUME written.options = NotGiven
      PROVE  steps = written.steps /\ \A c \in changepoints : c.step < Len(steps)
  <2>1. steps = written.steps /\ n <= Len(written.steps)
    BY <1>1, <1>5, StepsOfTheFile
  <2>2. Len(steps) \in Nat
    BY <1>1 DEF DetectorInv, DetectorTypes
  <2>3. \A c \in changepoints : c.step + Baseline <= n
    BY <1>1 DEF ChangeInv, ChangesApart
  <2> QED BY <1>3, <2>1, <2>2, <2>3, ChangeAssumption
<1>6. later = Following(cp)
  <2>1. ASSUME NEW s \in later PROVE s \in Following(cp)
    BY <1>3, <1>4 DEF Following
  <2>2. ASSUME NEW s \in Following(cp) PROVE s \in later
    BY <1>3, <1>4 DEF Following
  <2> QED BY <2>1, <2>2
<1>7. k = Cardinality(changepoints) <=> Following(cp) = {}
  <2>1. verdicts[k].step = cp.step
    BY <1>4
  <2> QED BY <2>1, LastInTurn
<1>8. ASSUME written.options = NotGiven
      PROVE  v.first <= first /\ (InOrder => v.first = first)
  <2>1. steps = written.steps /\ cp.step < Len(steps)
    BY <1>5, <1>8
  <2> HIDE DEF v
  <2> QED BY <1>1, <1>3, <1>4, <2>1, LineIsOwn DEF first
<1>9. ASSUME written.options = NotGiven
      PROVE  v.next <= next /\ (InOrder => v.next = next)
  <2>1. CASE Following(cp) = {}
    <3>1. last = Len(lines)
      BY <1>7, <2>1
    <3>2. LineEnd(cp) = Smaller(ShortestTrace, ShortestTrace)
      BY <2>1 DEF LineEnd
    <3> HIDE DEF last, v
    <3> QED BY <1>1, <1>4, <3>1, <3>2 DEF ShortestTrace, Smaller
  <2>2. CASE Following(cp) # {}
    <3> DEFINE s == Min(Following(cp))
    <3>1. last = OwnLine(s)
      BY <1>6, <1>7, <2>2
    <3>2. LineEnd(cp) = Smaller(Line(s), ShortestTrace)
      BY <2>2 DEF LineEnd
    <3>3. s \in Nat /\ s \in Following(cp)
      BY <1>1, <2>2, LeastFollowing
    <3>4. steps = written.steps /\ s < Len(steps)
      <4>1. \E c \in changepoints : s = c.step
        BY <3>3 DEF Following
      <4> HIDE DEF s
      <4> QED BY <1>5, <1>9, <4>1
    <3> HIDE DEF s, last, v
    <3>5. /\ Line(s) \in Int /\ OwnLine(s) \in Int /\ Line(s) <= OwnLine(s)
          /\ InOrder => Line(s) = OwnLine(s)
      BY <1>1, <3>3, <3>4, LineIsOwn
    <3> QED BY <1>1, <1>4, <3>1, <3>2, <3>5 DEF ShortestTrace, Smaller
  <2> QED BY <2>1, <2>2
<1> DEFINE late == IF v.next - v.first < N THEN ManyLate(v.first, v.next)
                   ELSE \E from \in v.first .. v.next - N : ManyLate(from, from + N)
<1>10. cp.direction = "up" <=> [step |-> v.step, direction |-> "up"] \in changepoints
  <2>1. cp \in [step : Nat, direction : Directions]
    BY <1>1 DEF ChangeInv, ChangeTypeOK
  <2>2. cp.direction = "up" => cp = [step |-> v.step, direction |-> "up"]
    BY <1>4, <2>1
  <2>3. ASSUME [step |-> v.step, direction |-> "up"] \in changepoints PROVE cp.direction = "up"
    <3> DEFINE up == [step |-> v.step, direction |-> "up"]
    <3>1. up.step = cp.step /\ up.direction = "up"
      BY <1>4
    <3> HIDE DEF up
    <3>2. up = cp
      BY <1>1, <2>3, <3>1 DEF up, ChangeInv, ChangesApart
    <3> QED BY <3>1, <3>2
  <2> QED BY <2>2, <2>3
<1>11. SlowInRange(v.first, v.next) <=> late
  <2>1. v.first \in Int /\ v.next \in Int
    BY <1>1 DEF Verdict
  <2> HIDE DEF v
  <2> QED BY <2>1, SlowCounts
<1>12. v.slow <=> [step |-> v.step, direction |-> "up"] \in changepoints /\ late
  <2> HIDE DEF v, late
  <2> QED BY <1>4, <1>10, <1>11
<1> QED BY <1>8, <1>9, <1>12

\* A process is blamed for a change exactly if it is late in enough of the
\* lines that are judged, never for a recovery; and if the CSV file was written
\* without options, these are the lines from the change to the next one, by the
\* steps of that file, although diagnose.py detects the steps again: whatever
\* the traces, the window and the threshold (step_to_raw_line,
\* detect_slow_in_range, main of diagnose.py).
THEOREM BlameIsItsOwn == Spec => []BlameIsLocal
<1>1. Init => BlameInv
  BY InitInv, InitDetector, InitJudge, InitWritten DEF BlameInv
<1>2. BlameInv /\ [Next]_diagnoseVars => BlameInv'
  <2> SUFFICES ASSUME BlameInv, [Next]_diagnoseVars PROVE BlameInv'
    OBVIOUS
  <2>1. DiagnoseInv /\ DetectorInv /\ WrittenInv
    BY DEF BlameInv
  <2> QED BY <2>1, NextInv, NextDetector, NextJudge, NextWritten DEF BlameInv
<1> QED BY <1>1, <1>2, Blames, PTL DEF Spec
=============================================================================
