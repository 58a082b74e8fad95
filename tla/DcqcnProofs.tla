---------------------------- MODULE DcqcnProofs ----------------------------
(***************************************************************************)
(* Proofs about Dcqcn.tla for any rates, gains and intervals: the bounds   *)
(* of the rate, and that each timer runs once and none decreases the rate  *)
(* at the moment of an alpha update.                                       *)
(***************************************************************************)
EXTENDS Dcqcn, TLAPS, FiniteSetTheorems, SequenceTheorems

MlxType ==
    [rate : Nat, target : Nat, alpha : 0 .. Scale, alphaCnp : BOOLEAN,
     decreaseCnp : BOOLEAN, firstCnp : BOOLEAN, stage : Nat]

\* Before the first notification the rate is the line rate and no timer runs.
RateInv ==
    /\ clamp \in BOOLEAN
    /\ mlx \in MlxType
    /\ RateBounds
    /\ mlx.firstCnp => mlx.rate = LineRate /\ mlx.target = LineRate
    /\ mlx.firstCnp => events = << >>
-----------------------------------------------------------------------------
\* Arithmetic.

LEMMA MaxOfTwo ==
    ASSUME NEW a \in Int, NEW b \in Int
    PROVE  /\ Max({a, b}) \in {a, b}
           /\ Max({a, b}) >= a /\ Max({a, b}) >= b
<1>1. \E x \in {a, b} : \A y \in {a, b} : x >= y
  OBVIOUS
<1> QED BY <1>1 DEF Max

LEMMA MinOfTwo ==
    ASSUME NEW a \in Int, NEW b \in Int
    PROVE  /\ Min({a, b}) \in {a, b}
           /\ Min({a, b}) <= a /\ Min({a, b}) <= b
<1>1. \E x \in {a, b} : \A y \in {a, b} : x <= y
  OBVIOUS
<1> QED BY <1>1 DEF Min

LEMMA Quotient ==
    ASSUME NEW a \in Nat, NEW b \in Nat \ {0}
    PROVE  /\ a \div b \in Nat
           /\ b * (a \div b) <= a
           /\ a < b * (a \div b) + b
<1>1. a \div b \in Int
  OBVIOUS
<1>2. a = b * (a \div b) + (a % b) /\ a % b \in 0 .. b - 1
  BY SMTT(60)
<1>3. b * (a \div b) <= a /\ a < b * (a \div b) + b
  BY <1>1, <1>2, SMTT(60)
<1>4. a \div b >= 0
  BY <1>1, <1>3, SMTT(60)
<1> QED BY <1>1, <1>3, <1>4

\* What is at most c times the divisor has a quotient of at most c.
LEMMA QuotientAtMost ==
    ASSUME NEW a \in Nat, NEW b \in Nat \ {0}, NEW c \in Nat, a <= b * c
    PROVE  a \div b <= c
<1> DEFINE q == a \div b
<1>1. q \in Nat /\ b * q <= a
  BY Quotient
<1>2. SUFFICES ASSUME q >= c + 1 PROVE FALSE
  BY <1>1
<1>3. b * q <= b * c
  BY <1>1
<1> HIDE DEF q
<1>4. b * q >= b * (c + 1)
  BY <1>1, <1>2, SMTT(60)
<1> QED BY <1>1, <1>3, <1>4, SMTT(60)

LEMMA QuotientAtLeast ==
    ASSUME NEW a \in Nat, NEW b \in Nat \ {0}, NEW c \in Nat, c * b <= a
    PROVE  a \div b >= c
<1> DEFINE q == a \div b
<1>1. q \in Nat /\ a < b * q + b
  BY Quotient
<1>2. SUFFICES ASSUME q + 1 <= c PROVE FALSE
  BY <1>1
<1>3. c * b < b * q + b
  BY <1>1
<1> HIDE DEF q
<1>4. (q + 1) * b <= c * b
  BY <1>1, <1>2, SMTT(60)
<1> QED BY <1>1, <1>3, <1>4, SMTT(60)
-----------------------------------------------------------------------------
(***************************************************************************)
(* The rate.                                                               *)
(***************************************************************************)

LEMMA InitRate == Init => RateInv
<1> SUFFICES ASSUME Init PROVE RateInv
  OBVIOUS
<1>1. /\ LineRate \in Nat /\ MinRate \in Nat /\ Scale \in Nat \ {0}
      /\ Clamps \subseteq BOOLEAN
  BY DcqcnAssumption
<1>2. MinRate <= LineRate
  <2>1. FirstCnp \in Nat \ {0} /\ MinRate * FirstCnp <= LineRate
    BY DcqcnAssumption
  <2>2. MinRate <= MinRate * FirstCnp
    BY <1>1, <2>1, SMTT(60)
  <2> QED BY <1>1, <2>1, <2>2
<1> QED BY <1>1, <1>2 DEF Init, RateInv, MlxType, RateBounds

\* The fraction kept on the first notification is no less than the least rate.
LEMMA CnpRate ==
    ASSUME RateInv, NEW es
    PROVE  CnpReceived(mlx, es)[1] \in MlxType
           /\ LET r == CnpReceived(mlx, es)[1] IN
              MinRate <= r.rate /\ r.rate <= r.target /\ r.target <= LineRate
              /\ r.firstCnp = FALSE
<1>1. mlx \in MlxType /\ RateBounds
  BY DEF RateInv
<1>2. /\ LineRate \in Nat /\ MinRate \in Nat /\ Scale \in Nat \ {0}
      /\ FirstCnp \in Nat \ {0} /\ MinRate * FirstCnp <= LineRate
  BY DcqcnAssumption
<1>3. CASE mlx.firstCnp
  <2>1. mlx.rate = LineRate
    BY <1>3 DEF RateInv
  <2>2. LineRate \div FirstCnp \in Nat /\ MinRate <= LineRate \div FirstCnp
    BY <1>2, Quotient, QuotientAtLeast
  <2>3. LineRate \div FirstCnp <= LineRate
    <3>1. LineRate <= FirstCnp * LineRate
      BY <1>2, SMTT(60)
    <3>2. LineRate \in Nat /\ FirstCnp \in Nat \ {0}
      BY <1>2
    <3> QED BY <3>1, <3>2, QuotientAtMost, Zenon
  <2> DEFINE kept == LineRate \div FirstCnp
  <2>4. CnpReceived(mlx, es)[1]
          = [mlx EXCEPT !.alpha = Scale, !.alphaCnp = FALSE, !.decreaseCnp = TRUE,
                        !.rate = kept, !.target = kept, !.firstCnp = FALSE]
    BY <1>3, <2>1, Zenon DEF CnpReceived
  <2> HIDE DEF kept
  <2>5. kept \in Nat /\ MinRate <= kept /\ kept <= LineRate
    BY <2>2, <2>3 DEF kept
  <2> DEFINE r == CnpReceived(mlx, es)[1]
  <2>6. r.rate = kept /\ r.target = kept /\ r.firstCnp = FALSE
    BY <1>1, <2>4 DEF MlxType
  <2> DEFINE r1 == [mlx EXCEPT !.alpha = Scale, !.alphaCnp = FALSE]
             r2 == [r1 EXCEPT !.decreaseCnp = TRUE, !.rate = kept]
             r3 == [r2 EXCEPT !.target = kept, !.firstCnp = FALSE]
  <2>7. r \in MlxType
    <3>1. r1 \in MlxType
      <4>1. Scale \in 0 .. Scale
        BY <1>2
      <4> QED BY <1>1, <4>1 DEF MlxType
    <3> HIDE DEF r1
    <3>2. r2 \in MlxType
      BY <2>5, <3>1 DEF MlxType
    <3> HIDE DEF r2
    <3>3. r3 \in MlxType
      BY <2>5, <3>2 DEF MlxType
    <3> QED BY <2>4, <3>3, Zenon DEF r1, r2
  <2> QED BY <1>2, <2>5, <2>6, <2>7
<1>4. CASE ~mlx.firstCnp
  BY <1>1, <1>4 DEF CnpReceived, MlxType, RateBounds
<1> QED BY <1>3, <1>4

\* alpha stays at or below one: what is let go of makes room for the gain.
LEMMA AlphaRate ==
    ASSUME RateInv, NEW es
    PROVE  UpdateAlpha(mlx, es)[1] \in MlxType
           /\ LET r == UpdateAlpha(mlx, es)[1] IN
              r.rate = mlx.rate /\ r.target = mlx.target /\ r.firstCnp = mlx.firstCnp
<1>1. mlx \in MlxType
  BY DEF RateInv
<1>2. Scale \in Nat \ {0} /\ Gain \in Nat \ {0}
  BY DcqcnAssumption
<1> DEFINE a  == mlx.alpha
           q1 == (a * (Gain - 1)) \div Gain
           q2 == Scale \div Gain
<1>3. a \in 0 .. Scale
  BY <1>1 DEF MlxType
<1>4. a * (Gain - 1) \in Nat /\ a * (Gain - 1) <= Scale * (Gain - 1)
  <2> HIDE DEF a
  <2> QED BY <1>2, <1>3, SMTT(60)
<1>5. q1 \in Nat /\ Gain * q1 <= a * (Gain - 1)
  BY <1>2, <1>4, Quotient
<1>6. q2 \in Nat /\ Gain * q2 <= Scale
  BY <1>2, Quotient
<1>7. q1 + q2 <= Scale
  <2> HIDE DEF a, q1, q2
  <2>1. Gain * (q1 + q2) <= Scale * Gain
    BY <1>2, <1>3, <1>4, <1>5, <1>6, SMTT(60)
  <2>2. SUFFICES ASSUME q1 + q2 >= Scale + 1 PROVE FALSE
    BY <1>2, <1>5, <1>6
  <2>3. Gain * (q1 + q2) >= Gain * (Scale + 1)
    BY <1>2, <1>5, <1>6, <2>2, SMTT(60)
  <2> QED BY <1>2, <1>5, <1>6, <2>1, <2>3, SMTT(60)
<1>8. q1 + (IF mlx.alphaCnp THEN q2 ELSE 0) \in 0 .. Scale
  BY <1>2, <1>5, <1>6, <1>7
<1> QED BY <1>1, <1>8 DEF UpdateAlpha, MlxType

\* A decrease stays between the least rate and the rate, and the target never
\* falls below the rate before.
LEMMA DecreaseRate ==
    ASSUME RateInv, NEW es
    PROVE  CheckRateDecrease(mlx, es)[1] \in MlxType
           /\ LET r == CheckRateDecrease(mlx, es)[1] IN
              MinRate <= r.rate /\ r.rate <= r.target /\ r.target <= LineRate
              /\ r.firstCnp = mlx.firstCnp
<1>1. mlx \in MlxType /\ RateBounds
  BY DEF RateInv
<1>2. MinRate \in Nat /\ LineRate \in Nat /\ Scale \in Nat \ {0}
  BY DcqcnAssumption
<1>3. mlx.rate \in Nat /\ mlx.target \in Nat /\ mlx.alpha \in 0 .. Scale
  BY <1>1 DEF MlxType
<1> DEFINE x == mlx.rate * (2 * Scale - mlx.alpha)
<1>4. x \in Nat /\ x <= (2 * Scale) * mlx.rate
  BY <1>2, <1>3, SMTT(60)
<1>5. Decreased(mlx) \in Nat /\ Decreased(mlx) <= mlx.rate
  <2>1. 2 * Scale \in Nat \ {0}
    BY <1>2
  <2>2. x \div (2 * Scale) \in Nat
    BY <1>4, <2>1, Quotient
  <2>3. x \div (2 * Scale) <= mlx.rate
    <3> HIDE DEF x
    <3> QED BY <1>3, <1>4, <2>1, QuotientAtMost
  <2> QED BY <2>2, <2>3 DEF Decreased
<1>6. /\ DecreasedRate(mlx) \in Nat
      /\ MinRate <= DecreasedRate(mlx) /\ DecreasedRate(mlx) <= mlx.rate
  <2> DEFINE d == Decreased(mlx)
  <2>1. MinRate \in Int /\ d \in Int
    BY <1>2, <1>5
  <2>2. /\ DecreasedRate(mlx) \in {MinRate, d}
        /\ DecreasedRate(mlx) >= MinRate /\ DecreasedRate(mlx) >= d
    BY <2>1, MaxOfTwo DEF DecreasedRate
  <2>3. MinRate <= mlx.rate
    BY <1>1 DEF RateBounds
  <2> QED BY <1>2, <1>3, <1>5, <2>2, <2>3
<1>7. CASE mlx.decreaseCnp
  <2> DEFINE target == IF Clamped(mlx) THEN mlx.rate ELSE mlx.target
  <2>1. target \in Nat /\ mlx.rate <= target /\ target <= LineRate
    <3>1. /\ mlx.rate <= mlx.rate /\ mlx.rate <= mlx.target
          /\ mlx.rate <= LineRate /\ mlx.target <= LineRate
      BY <1>1, <1>2, <1>3 DEF RateBounds
    <3>2. target = mlx.rate \/ target = mlx.target
      BY Zenon
    <3> QED BY <1>3, <3>1, <3>2, Zenon
  <2> HIDE DEF target
  <2>2. CheckRateDecrease(mlx, es)[1]
          = [mlx EXCEPT !.target = target, !.rate = DecreasedRate(mlx),
                        !.stage = 0, !.decreaseCnp = FALSE]
    BY <1>7, Zenon DEF CheckRateDecrease, target
  <2> DEFINE r == CheckRateDecrease(mlx, es)[1]
  <2>3. /\ r.rate = DecreasedRate(mlx) /\ r.target = target
        /\ r.firstCnp = mlx.firstCnp
    BY <1>1, <2>2 DEF MlxType
  <2> DEFINE r1 == [mlx EXCEPT !.target = target, !.rate = DecreasedRate(mlx)]
             r2 == [r1 EXCEPT !.stage = 0, !.decreaseCnp = FALSE]
  <2>4. r \in MlxType
    <3>1. r1 \in MlxType
      BY <1>1, <1>6, <2>1 DEF MlxType
    <3> HIDE DEF r1
    <3>2. r2 \in MlxType
      BY <3>1 DEF MlxType
    <3> QED BY <2>2, <3>2, Zenon DEF r1
  <2> QED BY <1>2, <1>3, <1>6, <2>1, <2>3, <2>4
<1>8. CASE ~mlx.decreaseCnp
  BY <1>1, <1>8 DEF CheckRateDecrease, RateBounds
<1> QED BY <1>7, <1>8

\* An increase moves the target up to at most the line rate, and the rate half
\* of the way to it.
LEMMA IncreaseRate ==
    ASSUME RateInv, NEW es
    PROVE  RateIncEventTimer(mlx, es)[1] \in MlxType
           /\ LET r == RateIncEventTimer(mlx, es)[1] IN
              MinRate <= r.rate /\ r.rate <= r.target /\ r.target <= LineRate
              /\ r.firstCnp = mlx.firstCnp
<1>1. mlx \in MlxType /\ RateBounds
  BY DEF RateInv
<1>2. /\ MinRate \in Nat /\ LineRate \in Nat /\ AI \in Nat /\ HAI \in Nat
      /\ Threshold \in Nat /\ MinRate % 2 = 0
  BY DcqcnAssumption
<1>3. mlx.rate \in Nat /\ mlx.target \in Nat /\ mlx.stage \in Nat
  BY <1>1 DEF MlxType
<1> DEFINE target == IncreasedTarget(mlx)
<1>4. target \in Nat /\ mlx.target <= target /\ target <= LineRate
  <2>1. mlx.target <= LineRate
    BY <1>1 DEF RateBounds
  <2>2. CASE mlx.stage < Threshold
    BY <1>2, <1>3, <2>1, <2>2 DEF IncreasedTarget
  <2>3. CASE mlx.stage = Threshold
    <3> DEFINE more == mlx.target + AI
    <3>1. target = Min({more, LineRate})
      BY <1>2, <1>3, <2>3 DEF IncreasedTarget
    <3>2. more \in Int /\ mlx.target <= more /\ LineRate \in Int
      BY <1>2, <1>3
    <3> HIDE DEF more, target
    <3>3. target \in {more, LineRate} /\ target <= LineRate
      BY <3>1, <3>2, MinOfTwo, Zenon
    <3> QED BY <1>2, <1>3, <2>1, <3>2, <3>3
  <2>4. CASE mlx.stage > Threshold
    <3> DEFINE more == mlx.target + HAI
    <3>1. target = Min({more, LineRate})
      BY <1>2, <1>3, <2>4 DEF IncreasedTarget
    <3>2. more \in Int /\ mlx.target <= more /\ LineRate \in Int
      BY <1>2, <1>3
    <3> HIDE DEF more, target
    <3>3. target \in {more, LineRate} /\ target <= LineRate
      BY <3>1, <3>2, MinOfTwo, Zenon
    <3> QED BY <1>2, <1>3, <2>1, <3>2, <3>3
  <2> QED BY <1>2, <1>3, <2>2, <2>3, <2>4
<1>5. /\ Halfway(mlx.rate, target) \in Nat
      /\ MinRate <= Halfway(mlx.rate, target) /\ Halfway(mlx.rate, target) <= target
  <2>1. MinRate <= mlx.rate /\ mlx.rate <= mlx.target
    BY <1>1 DEF RateBounds
  <2> HIDE DEF target
  <2> QED BY <1>2, <1>3, <1>4, <2>1 DEF Halfway
<1>6. NextStage(mlx.stage) \in Nat
  <2> DEFINE next == mlx.stage + 1
             last == Threshold + 1
  <2>1. next \in Nat /\ last \in Nat /\ next \in Int /\ last \in Int
    BY <1>2, <1>3
  <2>2. NextStage(mlx.stage) = Min({next, last})
    BY DEF NextStage
  <2> HIDE DEF next, last
  <2>3. NextStage(mlx.stage) \in {next, last}
    BY <2>1, <2>2, MinOfTwo, Zenon
  <2> QED BY <2>1, <2>3
<1> HIDE DEF target
<1>7. RateIncEventTimer(mlx, es)[1]
        = [mlx EXCEPT !.target = target, !.rate = Halfway(mlx.rate, target),
                      !.stage = NextStage(mlx.stage)]
  BY <1>1 DEF RateIncEventTimer, target, MlxType
<1> QED BY <1>1, <1>4, <1>5, <1>6, <1>7 DEF MlxType

\* Without events nothing is cancelled.
LEMMA CancelledNone == events = << >> => Cancelled = << >>
<1> SUFFICES ASSUME events = << >> PROVE Cancelled = << >>
  OBVIOUS
<1>1. \A t : Pending(<< >>, t) = {}
  BY DEF Pending
<1>2. \A t : Cancel(<< >>, t) = << >>
  BY <1>1 DEF Cancel
<1> QED BY <1>2 DEF Cancelled

LEMMA StepRate == RateInv /\ [Next]_vars => RateInv'
<1> SUFFICES ASSUME RateInv, [Next]_vars PROVE RateInv'
  OBVIOUS
<1>1. CASE Cnp
  <2>1. mlx' = CnpReceived(mlx, events)[1] /\ clamp' = clamp
    BY <1>1 DEF Cnp, Step
  <2> QED BY <2>1, CnpRate DEF RateInv, RateBounds, MlxType
<1>2. CASE LastAck
  <2>1. CASE mlx' = mlx /\ events' = Cancelled
    BY <1>2, <2>1, CancelledNone DEF LastAck, RateInv, RateBounds
  <2>2. CASE Step(CnpReceived(mlx, Cancelled))
    <3>1. mlx' = CnpReceived(mlx, Cancelled)[1] /\ clamp' = clamp
      BY <1>2, <2>2 DEF LastAck, Step
    <3> QED BY <3>1, CnpRate DEF RateInv, RateBounds, MlxType
  <2> QED BY <1>2, <2>1, <2>2 DEF LastAck
<1>3. CASE Tick
  BY <1>3 DEF Tick, RateInv, RateBounds
<1>4. ASSUME NEW i \in 1 .. Len(events), Expire(i)
      PROVE  RateInv'
  <2> DEFINE rest == RemoveAt(events, i)
  <2>1. ~mlx.firstCnp
    BY <1>4 DEF RateInv
  <2>2. clamp' = clamp
    BY <1>4 DEF Expire
  <2>3. CASE Step(UpdateAlpha(mlx, rest))
    <3>1. mlx' = UpdateAlpha(mlx, rest)[1]
      BY <2>3 DEF Step
    <3> QED BY <2>1, <2>2, <3>1, AlphaRate DEF RateInv, RateBounds, MlxType
  <2>4. CASE Step(CheckRateDecrease(mlx, rest))
    <3>1. mlx' = CheckRateDecrease(mlx, rest)[1]
      BY <2>4 DEF Step
    <3> QED BY <2>1, <2>2, <3>1, DecreaseRate DEF RateInv, RateBounds, MlxType
  <2>5. CASE Step(RateIncEventTimer(mlx, rest))
    <3>1. mlx' = RateIncEventTimer(mlx, rest)[1]
      BY <2>5 DEF Step
    <3> QED BY <2>1, <2>2, <3>1, IncreaseRate DEF RateInv, RateBounds, MlxType
  <2> QED BY <1>4, <2>3, <2>4, <2>5 DEF Expire
<1>5. CASE UNCHANGED vars
  BY <1>5 DEF vars, RateInv, RateBounds
<1> QED BY <1>1, <1>2, <1>3, <1>4, <1>5 DEF Next, Run

\* Whatever the order of notifications, decreases, increases and restarts, the
\* rate stays between the least rate and its target and the target at or below
\* the line rate, for any parameters (the handlers of rdma-hw.cc:630-751).
THEOREM RateIsBounded == Spec => []RateBounds
<1>1. Init => RateInv
  BY InitRate
<1>2. RateInv /\ [Next]_vars => RateInv'
  BY StepRate
<1>3. RateInv => RateBounds
  BY DEF RateInv
<1> QED BY <1>1, <1>2, <1>3, PTL DEF Spec
-----------------------------------------------------------------------------
(***************************************************************************)
(* The timers.  Two chains of one timer cannot arise: an event is only     *)
(* scheduled when the one before has gone or is cancelled.                 *)
(***************************************************************************)
Ev == [timer : Timers, left : Nat]

Evs(es) == {es[i] : i \in 1 .. Len(es)}

Has(es, t) == \E e \in Evs(es) : e.timer = t

\* No two events are for the same timer.
Once(es) ==
    \A i, j \in 1 .. Len(es) : es[i].timer = es[j].timer => i = j

\* Whole units apart, and the offset.
Spaced(es, u) ==
    \A d, a \in Evs(es) :
       d.timer = "decrease" /\ a.timer = "alpha" =>
         \E k \in Int : d.left - a.left = k * u + 1

EventsInv(u) ==
    /\ events \in Seq(Ev)
    /\ Once(events)
    /\ Spaced(events, u)
    /\ \A t \in {"alpha", "decrease"} :
          Has(events, t) <=> ~mlx.firstCnp /\ (complete => late)
    /\ Has(events, "rp") => Has(events, "decrease")
    /\ complete \in BOOLEAN /\ late \in BOOLEAN
    /\ late => complete

LEMMA EvLeft ==
    ASSUME NEW es \in Seq(Ev), NEW e \in Evs(es)
    PROVE  e \in Ev /\ e.left \in Nat
<1>1. PICK i \in 1 .. Len(es) : e = es[i]
  BY DEF Evs
<1>2. e \in Ev
  BY <1>1
<1> QED BY <1>2 DEF Ev

LEMMA Appended ==
    ASSUME NEW es \in Seq(Ev), NEW e \in Ev, Once(es), ~Has(es, e.timer)
    PROVE  /\ Append(es, e) \in Seq(Ev)
           /\ Once(Append(es, e))
           /\ Evs(Append(es, e)) = Evs(es) \cup {e}
<1> DEFINE s == Append(es, e)
           n == Len(es)
<1>1. /\ s \in Seq(Ev) /\ Len(s) = n + 1 /\ n \in Nat
      /\ \A i \in 1 .. n : s[i] = es[i]
      /\ s[n + 1] = e
  BY AppendProperties
<1>2. \A i \in 1 .. n : es[i].timer # e.timer
  BY DEF Has, Evs
<1> HIDE DEF s, n
<1>3. Once(s)
  <2> SUFFICES ASSUME NEW i \in 1 .. Len(s), NEW j \in 1 .. Len(s),
                      s[i].timer = s[j].timer
               PROVE  i = j
    BY DEF Once
  <2>1. CASE i \in 1 .. n /\ j \in 1 .. n
    BY <1>1, <2>1 DEF Once, n
  <2>2. CASE i = n + 1 \/ j = n + 1
    BY <1>1, <1>2, <2>2
  <2> QED BY <1>1, <2>1, <2>2
<1>4. Evs(s) = Evs(es) \cup {e}
  <2>1. ASSUME NEW x \in Evs(s) PROVE x \in Evs(es) \cup {e}
    <3>1. PICK i \in 1 .. n + 1 : x = s[i]
      BY <1>1, <2>1 DEF Evs
    <3> QED BY <1>1, <3>1 DEF Evs, n
  <2>2. ASSUME NEW x \in Evs(es) PROVE x \in Evs(s)
    <3>1. PICK i \in 1 .. n : x = es[i]
      BY <2>2 DEF Evs, n
    <3>2. i \in 1 .. Len(s) /\ x = s[i]
      BY <1>1, <3>1
    <3> QED BY <3>2 DEF Evs
  <2>3. e \in Evs(s)
    <3>1. n + 1 \in 1 .. Len(s) /\ s[n + 1] = e
      BY <1>1
    <3> QED BY <3>1 DEF Evs
  <2> QED BY <2>1, <2>2, <2>3
<1> QED BY <1>1, <1>3, <1>4 DEF s

LEMMA Removed ==
    ASSUME NEW es \in Seq(Ev), NEW i \in 1 .. Len(es), Once(es)
    PROVE  /\ RemoveAt(es, i) \in Seq(Ev)
           /\ Once(RemoveAt(es, i))
           /\ Evs(RemoveAt(es, i)) = {e \in Evs(es) : e.timer # es[i].timer}
<1> DEFINE front == SubSeq(es, 1, i - 1)
           back  == SubSeq(es, i + 1, Len(es))
           s     == front \o back
           n     == Len(es)
<1>1. n \in Nat /\ \A k \in 1 .. n : es[k] \in Ev
  OBVIOUS
<1>2. /\ front \in Seq(Ev) /\ Len(front) = i - 1
      /\ \A k \in 1 .. i - 1 : front[k] = es[k]
  BY <1>1, SubSeqProperties
<1>3. /\ back \in Seq(Ev) /\ Len(back) = n - i
      /\ \A k \in 1 .. n - i : back[k] = es[i + k]
  BY <1>1, SubSeqProperties
<1> HIDE DEF front, back
<1>4. /\ s \in Seq(Ev) /\ Len(s) = n - 1
      /\ \A k \in 1 .. n - 1 : s[k] = IF k <= i - 1 THEN front[k]
                                                   ELSE back[k - (i - 1)]
  <2>1. /\ s \in Seq(Ev) /\ Len(s) = Len(front) + Len(back)
        /\ \A k \in 1 .. Len(front) + Len(back) :
             s[k] = IF k <= Len(front) THEN front[k] ELSE back[k - Len(front)]
    BY <1>2, <1>3, ConcatProperties
  <2>2. Len(front) + Len(back) = n - 1
    BY <1>1, <1>2, <1>3
  <2> HIDE DEF s
  <2> QED BY <1>2, <2>1, <2>2
<1> HIDE DEF s
<1>5. \A k \in 1 .. n - 1 : s[k] = IF k < i THEN es[k] ELSE es[k + 1]
  <2> SUFFICES ASSUME NEW k \in 1 .. n - 1
               PROVE  s[k] = IF k < i THEN es[k] ELSE es[k + 1]
    OBVIOUS
  <2>1. CASE k < i
    BY <1>1, <1>2, <1>4, <2>1
  <2>2. CASE k >= i
    <3>1. s[k] = back[k - (i - 1)]
      BY <1>1, <1>4, <2>2
    <3>2. k - (i - 1) \in 1 .. n - i /\ i + (k - (i - 1)) = k + 1
      BY <1>1, <2>2
    <3> QED BY <1>3, <2>2, <3>1, <3>2
  <2> QED BY <1>1, <2>1, <2>2
<1>6. Once(s)
  <2> SUFFICES ASSUME NEW j \in 1 .. n - 1, NEW k \in 1 .. n - 1,
                      s[j].timer = s[k].timer
               PROVE  j = k
    BY <1>4 DEF Once
  <2> DEFINE At(x) == IF x < i THEN x ELSE x + 1
  <2>1. /\ At(j) \in 1 .. n /\ At(k) \in 1 .. n
        /\ s[j] = es[At(j)] /\ s[k] = es[At(k)]
    BY <1>1, <1>5
  <2>2. At(j) = At(k)
    <3> HIDE DEF At
    <3> QED BY <2>1 DEF Once, n
  <2> QED BY <1>1, <2>2
<1>7. Evs(s) = {e \in Evs(es) : e.timer # es[i].timer}
  <2>1. ASSUME NEW e \in Evs(s) PROVE e \in Evs(es) /\ e.timer # es[i].timer
    <3>1. PICK k \in 1 .. n - 1 : e = s[k]
      BY <1>4, <2>1 DEF Evs
    <3>2. PICK j \in 1 .. n : j # i /\ e = es[j]
      BY <1>1, <1>5, <3>1
    <3> QED BY <3>2 DEF Evs, Once, n
  <2>2. ASSUME NEW e \in Evs(es), e.timer # es[i].timer PROVE e \in Evs(s)
    <3>1. PICK j \in 1 .. n : e = es[j] /\ j # i
      BY <2>2 DEF Evs, n
    <3>2. CASE j < i
      <4>1. j \in 1 .. n - 1 /\ e = s[j]
        BY <1>1, <1>5, <3>1, <3>2
      <4> QED BY <1>4, <4>1 DEF Evs
    <3>3. CASE j > i
      <4>1. j - 1 \in 1 .. n - 1 /\ (j - 1) + 1 = j /\ ~(j - 1 < i)
        BY <1>1, <3>1, <3>3
      <4>2. e = s[j - 1]
        BY <1>5, <3>1, <4>1
      <4> QED BY <1>4, <4>1, <4>2 DEF Evs
    <3> QED BY <1>1, <3>1, <3>2, <3>3
  <2> QED BY <2>1, <2>2
<1> QED BY <1>4, <1>6, <1>7 DEF s, front, back, RemoveAt

\* The event that the code keeps is the only one of its timer.
LEMMA CancelledEvs ==
    ASSUME NEW es \in Seq(Ev), NEW t, Once(es)
    PROVE  /\ Cancel(es, t) \in Seq(Ev)
           /\ Once(Cancel(es, t))
           /\ Evs(Cancel(es, t)) = {e \in Evs(es) : e.timer # t}
<1>1. CASE Pending(es, t) = {}
  <2>1. Cancel(es, t) = es
    BY <1>1 DEF Cancel
  <2>2. \A e \in Evs(es) : e.timer # t
    BY <1>1 DEF Evs, Pending
  <2> QED BY <2>1, <2>2
<1>2. CASE Pending(es, t) # {}
  <2>1. PICK i \in 1 .. Len(es) : es[i].timer = t
    BY <1>2 DEF Pending
  <2>2. Pending(es, t) = {i, i}
    BY <2>1 DEF Pending, Once
  <2>3. i \in Int
    OBVIOUS
  <2>4. Max(Pending(es, t)) = i
    BY <2>2, <2>3, MaxOfTwo
  <2>5. Cancel(es, t) = RemoveAt(es, i)
    BY <1>2, <2>4 DEF Cancel
  <2> QED BY <2>1, <2>5, Removed
<1> QED BY <1>1, <1>2

\* No timer, no event.
LEMMA NoTimer ==
    ASSUME NEW es \in Seq(Ev), \A t \in Timers : ~Has(es, t)
    PROVE  Evs(es) = {}
<1> SUFFICES ASSUME NEW e \in Evs(es) PROVE FALSE
  OBVIOUS
<1>1. e \in Ev
  BY DEF Evs
<1>2. e.timer \in Timers
  BY <1>1 DEF Ev
<1> QED BY <1>2 DEF Has

\* What events are left out of, and what is put in.
LEMMA Rescheduled ==
    ASSUME NEW es \in Seq(Ev), NEW t \in Timers, NEW delay \in Nat, Once(es),
           ~Has(es, t)
    PROVE  /\ Schedule(es, t, delay) \in Seq(Ev)
           /\ Once(Schedule(es, t, delay))
           /\ Evs(Schedule(es, t, delay))
                = Evs(es) \cup {[timer |-> t, left |-> delay]}
<1> DEFINE e == [timer |-> t, left |-> delay]
<1>1. e \in Ev /\ e.timer = t
  BY DEF Ev
<1> HIDE DEF e
<1>2. ~Has(es, e.timer)
  BY <1>1
<1>3. Schedule(es, t, delay) = Append(es, e)
  BY DEF Schedule, e
<1> QED BY <1>1, <1>2, <1>3, Appended DEF e

InUnits(u) ==
    /\ u \in Nat /\ u > 1
    /\ \E a \in Nat : AlphaInterval = a * u
    /\ \E d \in Nat : DecreaseInterval = d * u

Intervals ==
    AlphaInterval \in Nat /\ DecreaseInterval \in Nat /\ RpTimer \in Nat

LEMMA IntervalsNat == Intervals
  BY DcqcnAssumption DEF Intervals

\* A first notification starts two timers, the second the offset later.
LEMMA FirstCnpEvents ==
    ASSUME NEW u, InUnits(u), NEW es \in Seq(Ev), Once(es), mlx.firstCnp,
           Evs(es) = {}
    PROVE  LET new == CnpReceived(mlx, es)[2] IN
           /\ new \in Seq(Ev) /\ Once(new) /\ Spaced(new, u)
           /\ Has(new, "alpha") /\ Has(new, "decrease")
<1> DEFINE al  == [timer |-> "alpha", left |-> AlphaInterval]
           after == DecreaseInterval + DecreaseOffset
           de  == [timer |-> "decrease", left |-> after]
           one == Schedule(es, "alpha", AlphaInterval)
           two == Schedule(one, "decrease", after)
<1>1. ~Has(es, "alpha") /\ ~Has(es, "decrease")
  BY DEF Has
<1>2. "alpha" \in Timers /\ "decrease" \in Timers
  BY DEF Timers
<1>3. one \in Seq(Ev) /\ Once(one) /\ Evs(one) = {al}
  <2>1. AlphaInterval \in Nat
    BY IntervalsNat DEF Intervals
  <2>2. one \in Seq(Ev) /\ Once(one) /\ Evs(one) = Evs(es) \cup {al}
    BY <1>1, <1>2, <2>1, Rescheduled, Zenon
  <2> QED BY <2>2
<1>4. ~Has(one, "decrease")
  BY <1>3 DEF Has
<1>5. after \in Nat
  BY IntervalsNat DEF Intervals, DecreaseOffset
<1> HIDE DEF one, after
<1>6. two \in Seq(Ev) /\ Once(two) /\ Evs(two) = {al, de}
  <2>1. two \in Seq(Ev) /\ Once(two) /\ Evs(two) = Evs(one) \cup {de}
    <3>1. one \in Seq(Ev) /\ Once(one)
      BY <1>3
    <3> QED BY <1>2, <3>1, <1>4, <1>5, Rescheduled, Zenon
  <2> QED BY <1>3, <2>1
<1>7. two = CnpReceived(mlx, es)[2]
  BY DEF CnpReceived, one, after
<1> HIDE DEF two
<1>8. Spaced(two, u)
  <2>1. \E k \in Int : de.left - al.left = k * u + 1
    <3>1. PICK a \in Nat : AlphaInterval = a * u
      BY DEF InUnits
    <3>2. PICK d \in Nat : DecreaseInterval = d * u
      BY DEF InUnits
    <3>3. d - a \in Int /\ d * u + 1 - a * u = (d - a) * u + 1
      BY SMTT(60) DEF InUnits
    <3> QED BY <3>1, <3>2, <3>3 DEF DecreaseOffset, after
  <2>2. \A e \in Evs(two) : /\ e.timer = "decrease" => e = de
                            /\ e.timer = "alpha" => e = al
    BY <1>6
  <2> HIDE DEF al, de
  <2> QED BY <2>1, <2>2 DEF Spaced
<1>9. Has(two, "alpha") /\ Has(two, "decrease")
  BY <1>6 DEF Has
<1> QED BY <1>6, <1>7, <1>8, <1>9

\* The events es with that of one timer put off by a delay.
Anew(new, es, t, delay) ==
    /\ new \in Seq(Ev) /\ Once(new)
    /\ Evs(new) = {e \in Evs(es) : e.timer # t}
                     \cup {[timer |-> t, left |-> delay]}
    /\ \A other : Has(new, other) <=> Has(es, other)

\* A timer that goes off and is scheduled anew.
LEMMA Restarted ==
    ASSUME NEW es \in Seq(Ev), Once(es), NEW i \in 1 .. Len(es),
           NEW t, es[i].timer = t, NEW delay \in Nat
    PROVE  Anew(Schedule(RemoveAt(es, i), t, delay), es, t, delay)
<1> DEFINE e    == [timer |-> t, left |-> delay]
           rest == RemoveAt(es, i)
           new  == Schedule(rest, t, delay)
<1>1. es[i] \in Evs(es) /\ t \in Timers
  <2>1. es[i] \in Evs(es)
    BY DEF Evs
  <2>2. es[i] \in Ev
    BY <2>1, EvLeft
  <2> QED BY <2>1, <2>2 DEF Ev
<1>2. /\ rest \in Seq(Ev) /\ Once(rest)
      /\ Evs(rest) = {x \in Evs(es) : x.timer # es[i].timer}
  BY Removed
<1>3. Evs(rest) = {x \in Evs(es) : x.timer # t}
  BY <1>2
<1>4. ~Has(rest, t)
  BY <1>3 DEF Has
<1> HIDE DEF rest
<1>5. new \in Seq(Ev) /\ Once(new) /\ Evs(new) = Evs(rest) \cup {e}
  <2>1. rest \in Seq(Ev) /\ Once(rest) /\ t \in Timers
    BY <1>1, <1>2
  <2> QED BY <2>1, <1>4, Rescheduled, Zenon
<1>6. e.timer = t
  OBVIOUS
<1> HIDE DEF new, e
<1>7. ASSUME NEW other PROVE Has(new, other) <=> Has(es, other)
  <2>1. CASE other = t
    BY <1>1, <1>5, <1>6, <2>1 DEF Has
  <2>2. CASE other # t
    BY <1>3, <1>5, <1>6, <2>2 DEF Has
  <2> QED BY <2>1, <2>2
<1>8. Evs(new) = {x \in Evs(es) : x.timer # t} \cup {e}
  BY <1>3, <1>5
<1>9. Anew(new, es, t, delay)
  BY <1>5, <1>7, <1>8 DEF Anew, e
<1> QED BY <1>9 DEF new, rest

\* Two distances in units, one of them with the offset.
LEMMA UnitsBetween ==
    ASSUME NEW u \in Nat, NEW k \in Int, NEW n \in Int
    PROVE  /\ (k * u + 1) - n * u = (k - n) * u + 1
           /\ n * u + (k * u + 1) = (k + n) * u + 1
<1>1. (k - n) * u = k * u - n * u /\ (k + n) * u = k * u + n * u
  BY SMTT(60)
<1> QED BY <1>1, SMTT(60)

\* The alpha timer stays in step with the decrease timer: it goes off when the
\* other has some units and the offset to go, and is a whole number of units
\* long.
LEMMA AlphaEvents ==
    ASSUME NEW u, InUnits(u), EventsInv(u), NEW i \in 1 .. Len(events),
           events[i].left = 0, events[i].timer = "alpha"
    PROVE  LET new == UpdateAlpha(mlx, RemoveAt(events, i))[2] IN
           /\ new \in Seq(Ev) /\ Once(new) /\ Spaced(new, u)
           /\ \A other : Has(new, other) <=> Has(events, other)
<1> DEFINE al  == [timer |-> "alpha", left |-> AlphaInterval]
           new == Schedule(RemoveAt(events, i), "alpha", AlphaInterval)
<1>1. AlphaInterval \in Nat
  BY IntervalsNat DEF Intervals
<1>2. events \in Seq(Ev) /\ Once(events)
  BY DEF EventsInv
<1>3. /\ new \in Seq(Ev) /\ Once(new)
      /\ Evs(new) = {e \in Evs(events) : e.timer # "alpha"} \cup {al}
      /\ \A other : Has(new, other) <=> Has(events, other)
  <2>1. AlphaInterval \in Nat
    BY <1>1
  <2>2. events \in Seq(Ev)
    BY <1>2
  <2>3. Once(events)
    BY <1>2
  <2>4. Anew(new, events, "alpha", AlphaInterval)
    BY <2>1, <2>2, <2>3, Restarted, Zenon
  <2> QED BY <2>4 DEF Anew
<1>4. new = UpdateAlpha(mlx, RemoveAt(events, i))[2]
  BY DEF UpdateAlpha
<1> HIDE DEF new
<1>5. Spaced(new, u)
  <2> SUFFICES ASSUME NEW d \in Evs(new), NEW a \in Evs(new),
                      d.timer = "decrease", a.timer = "alpha"
               PROVE  \E k \in Int : d.left - a.left = k * u + 1
    BY DEF Spaced
  <2>1. a.left = AlphaInterval /\ d \in Evs(events)
    BY <1>3
  <2>2. events[i] \in Evs(events)
    BY DEF Evs
  <2>3. PICK k \in Int : d.left - 0 = k * u + 1
    BY <2>1, <2>2 DEF EventsInv, Spaced
  <2>4. d.left \in Nat
    BY <1>2, <2>1, EvLeft
  <2>5. PICK n \in Nat : AlphaInterval = n * u
    BY DEF InUnits
  <2>6. k - n \in Int /\ (k * u + 1) - n * u = (k - n) * u + 1
    BY UnitsBetween DEF InUnits
  <2>7. d.left - a.left = (k * u + 1) - n * u
    BY <2>1, <2>3, <2>4, <2>5
  <2> QED BY <2>6, <2>7
<1> QED BY <1>3, <1>4, <1>5

LEMMA IncreaseEvents ==
    ASSUME NEW u, EventsInv(u), NEW i \in 1 .. Len(events),
           events[i].timer = "rp"
    PROVE  LET new == RateIncEventTimer(mlx, RemoveAt(events, i))[2] IN
           /\ new \in Seq(Ev) /\ Once(new) /\ Spaced(new, u)
           /\ \A other : Has(new, other) <=> Has(events, other)
<1> DEFINE rp  == [timer |-> "rp", left |-> RpTimer]
           new == Schedule(RemoveAt(events, i), "rp", RpTimer)
<1>1. RpTimer \in Nat
  BY IntervalsNat DEF Intervals
<1>2. events \in Seq(Ev) /\ Once(events)
  BY DEF EventsInv
<1>3. /\ new \in Seq(Ev) /\ Once(new)
      /\ Evs(new) = {e \in Evs(events) : e.timer # "rp"} \cup {rp}
      /\ \A other : Has(new, other) <=> Has(events, other)
  <2>1. RpTimer \in Nat
    BY <1>1
  <2>2. events \in Seq(Ev)
    BY <1>2
  <2>3. Once(events)
    BY <1>2
  <2>4. Anew(new, events, "rp", RpTimer)
    BY <2>1, <2>2, <2>3, Restarted, Zenon
  <2> QED BY <2>4 DEF Anew
<1>4. new = RateIncEventTimer(mlx, RemoveAt(events, i))[2]
  BY DEF RateIncEventTimer
<1> HIDE DEF new
<1>5. Spaced(new, u)
  BY <1>3 DEF EventsInv, Spaced
<1> QED BY <1>3, <1>4, <1>5

\* A decrease restarts itself, and replaces the increase timer.
LEMMA DecreaseEvents ==
    ASSUME NEW u, InUnits(u), EventsInv(u), NEW i \in 1 .. Len(events),
           events[i].left = 0, events[i].timer = "decrease"
    PROVE  LET new == CheckRateDecrease(mlx, RemoveAt(events, i))[2] IN
           /\ new \in Seq(Ev) /\ Once(new) /\ Spaced(new, u)
           /\ \A other \in {"alpha", "decrease"} :
                 Has(new, other) <=> Has(events, other)
<1> DEFINE de    == [timer |-> "decrease", left |-> DecreaseInterval]
           rp    == [timer |-> "rp", left |-> RpTimer]
           again == Schedule(RemoveAt(events, i), "decrease", DecreaseInterval)
           stop  == Cancel(again, "rp")
           new   == Schedule(stop, "rp", RpTimer)
<1>1. DecreaseInterval \in Nat /\ RpTimer \in Nat /\ "rp" \in Timers
  BY IntervalsNat DEF Intervals, Timers
<1>2. events \in Seq(Ev) /\ Once(events)
  BY DEF EventsInv
<1>3. /\ again \in Seq(Ev) /\ Once(again)
      /\ Evs(again) = {e \in Evs(events) : e.timer # "decrease"} \cup {de}
      /\ \A other : Has(again, other) <=> Has(events, other)
  <2>1. DecreaseInterval \in Nat
    BY <1>1
  <2>2. events \in Seq(Ev)
    BY <1>2
  <2>3. Once(events)
    BY <1>2
  <2>4. Anew(again, events, "decrease", DecreaseInterval)
    BY <2>1, <2>2, <2>3, Restarted, Zenon
  <2> QED BY <2>4 DEF Anew
<1> HIDE DEF again
<1>4. Spaced(again, u)
  <2> SUFFICES ASSUME NEW d \in Evs(again), NEW a \in Evs(again),
                      d.timer = "decrease", a.timer = "alpha"
               PROVE  \E k \in Int : d.left - a.left = k * u + 1
    BY DEF Spaced
  <2>1. d.left = DecreaseInterval /\ a \in Evs(events)
    BY <1>3
  <2>2. events[i] \in Evs(events)
    BY DEF Evs
  <2>3. PICK k \in Int : 0 - a.left = k * u + 1
    BY <2>1, <2>2 DEF EventsInv, Spaced
  <2>4. a.left \in Nat
    BY <1>2, <2>1, EvLeft
  <2>5. PICK n \in Nat : DecreaseInterval = n * u
    BY DEF InUnits
  <2>6. k + n \in Int /\ n * u + (k * u + 1) = (k + n) * u + 1
    BY UnitsBetween DEF InUnits
  <2>7. d.left - a.left = n * u + (k * u + 1)
    BY <2>1, <2>3, <2>4, <2>5
  <2> QED BY <2>6, <2>7
<1>5. stop \in Seq(Ev) /\ Once(stop)
  BY <1>3, CancelledEvs
<1>6. Evs(stop) = {e \in Evs(again) : e.timer # "rp"}
  BY <1>3, CancelledEvs
<1>7. ~Has(stop, "rp")
  BY <1>6 DEF Has
<1> HIDE DEF stop
<1>8. new \in Seq(Ev) /\ Once(new) /\ Evs(new) = Evs(stop) \cup {rp}
  BY <1>1, <1>5, <1>7, Rescheduled, Zenon
<1> HIDE DEF new
<1>9. Spaced(new, u)
  BY <1>4, <1>6, <1>8 DEF Spaced
<1>10. \A other \in {"alpha", "decrease"} : Has(new, other) <=> Has(again, other)
  BY <1>6, <1>8 DEF Has
<1>11. CheckRateDecrease(mlx, RemoveAt(events, i))[2]
         = IF mlx.decreaseCnp THEN new ELSE again
  BY DEF CheckRateDecrease, again, stop, new
<1>12. CASE mlx.decreaseCnp
  BY <1>3, <1>8, <1>9, <1>10, <1>11, <1>12
<1>13. CASE ~mlx.decreaseCnp
  BY <1>3, <1>4, <1>11, <1>13
<1> QED BY <1>12, <1>13

\* A tick brings all events nearer alike.
LEMMA TickEvents ==
    ASSUME NEW es \in Seq(Ev), NEW u, Once(es), Spaced(es, u),
           \A i \in 1 .. Len(es) : es[i].left > 0
    PROVE  LET new == [i \in 1 .. Len(es) |-> [es[i] EXCEPT !.left = @ - 1]] IN
           /\ new \in Seq(Ev) /\ Once(new) /\ Spaced(new, u)
           /\ \A t : Has(new, t) <=> Has(es, t)
<1> DEFINE n   == Len(es)
           new == [i \in 1 .. n |-> [es[i] EXCEPT !.left = @ - 1]]
<1>1. n \in Nat
  OBVIOUS
<1>2. ASSUME NEW i \in 1 .. n
      PROVE  /\ new[i] \in Ev /\ new[i].timer = es[i].timer
             /\ new[i].left = es[i].left - 1 /\ es[i].left \in Nat
  <2>1. es[i] \in Ev
    OBVIOUS
  <2>2. es[i].left > 0
    OBVIOUS
  <2> QED BY <2>1, <2>2 DEF Ev
<1>3. DOMAIN new = 1 .. n
  OBVIOUS
<1> HIDE DEF new
<1>4. new \in Seq(Ev) /\ Len(new) = n
  <2>1. new = [i \in 1 .. n |-> new[i]]
    BY DEF new
  <2>2. new \in [1 .. n -> Ev]
    BY <1>2, <2>1
  <2> QED BY <1>1, <2>2
<1>5. Once(new)
  BY <1>2, <1>4 DEF Once
<1>6. Spaced(new, u)
  <2> SUFFICES ASSUME NEW d \in Evs(new), NEW a \in Evs(new),
                      d.timer = "decrease", a.timer = "alpha"
               PROVE  \E k \in Int : d.left - a.left = k * u + 1
    BY DEF Spaced
  <2>1. PICK i \in 1 .. n : d = new[i]
    BY <1>4 DEF Evs
  <2>2. PICK j \in 1 .. n : a = new[j]
    BY <1>4 DEF Evs
  <2>3. d.left - a.left = es[i].left - es[j].left
    BY <1>2, <2>1, <2>2
  <2>4. es[i].timer = "decrease" /\ es[j].timer = "alpha"
    BY <1>2, <2>1, <2>2
  <2>5. es[i] \in Evs(es) /\ es[j] \in Evs(es)
    BY DEF Evs
  <2> QED BY <2>3, <2>4, <2>5 DEF Spaced
<1>7. ASSUME NEW t PROVE Has(new, t) <=> Has(es, t)
  <2>1. Has(new, t) <=> \E i \in 1 .. n : new[i].timer = t
    BY <1>4 DEF Has, Evs
  <2>2. Has(es, t) <=> \E i \in 1 .. n : es[i].timer = t
    BY DEF Has, Evs
  <2> QED BY <1>2, <2>1, <2>2
<1> QED BY <1>4, <1>5, <1>6, <1>7 DEF new, n

\* The three cancellations of QpComplete leave no event.
LEMMA CancelledEvents ==
    ASSUME events \in Seq(Ev), Once(events)
    PROVE  Cancelled \in Seq(Ev) /\ Once(Cancelled) /\ Evs(Cancelled) = {}
<1> DEFINE a == Cancel(events, "alpha")
           d == Cancel(a, "decrease")
           r == Cancel(d, "rp")
<1>1. /\ a \in Seq(Ev) /\ Once(a)
      /\ Evs(a) = {e \in Evs(events) : e.timer # "alpha"}
  BY CancelledEvs
<1> HIDE DEF a
<1>2. /\ d \in Seq(Ev) /\ Once(d)
      /\ Evs(d) = {e \in Evs(a) : e.timer # "decrease"}
  BY <1>1, CancelledEvs
<1> HIDE DEF d
<1>3. /\ r \in Seq(Ev) /\ Once(r)
      /\ Evs(r) = {e \in Evs(d) : e.timer # "rp"}
  BY <1>2, CancelledEvs
<1> HIDE DEF r
<1>4. \A t \in Timers : ~Has(r, t)
  BY <1>1, <1>2, <1>3 DEF Has, Timers
<1>5. Evs(r) = {}
  BY <1>3, <1>4, NoTimer
<1> QED BY <1>3, <1>5 DEF Cancelled, a, d, r
-----------------------------------------------------------------------------
LEMMA InitEvents ==
    ASSUME NEW u PROVE Init => EventsInv(u)
<1> SUFFICES ASSUME Init PROVE EventsInv(u)
  OBVIOUS
<1>1. Evs(events) = {}
  BY DEF Init, Evs
<1>2. \A t : ~Has(events, t)
  BY <1>1 DEF Has
<1>3. events \in Seq(Ev) /\ Len(events) = 0
  BY DEF Init
<1>4. Once(events)
  BY <1>3 DEF Once
<1>5. Spaced(events, u)
  BY <1>1 DEF Spaced
<1> QED BY <1>2, <1>3, <1>4, <1>5 DEF Init, EventsInv

\* Every handler leaves whether the queue pair has had its first notification.
LEMMA SameFirst ==
    ASSUME NEW es, mlx \in MlxType
    PROVE  /\ UpdateAlpha(mlx, es)[1].firstCnp = mlx.firstCnp
           /\ CheckRateDecrease(mlx, es)[1].firstCnp = mlx.firstCnp
           /\ RateIncEventTimer(mlx, es)[1].firstCnp = mlx.firstCnp
<1>1. UpdateAlpha(mlx, es)[1].firstCnp = mlx.firstCnp
  BY DEF UpdateAlpha, MlxType
<1>2. CASE mlx.decreaseCnp
  <2>1. CheckRateDecrease(mlx, es)[1].firstCnp = mlx.firstCnp
    BY <1>2 DEF CheckRateDecrease, MlxType
  <2> QED BY <1>1, <2>1 DEF RateIncEventTimer, MlxType
<1>3. CASE ~mlx.decreaseCnp
  <2>1. CheckRateDecrease(mlx, es)[1] = mlx
    BY <1>3 DEF CheckRateDecrease
  <2> QED BY <1>1, <2>1 DEF RateIncEventTimer, MlxType
<1> QED BY <1>2, <1>3

\* What the handler of a notification leaves of the events.
LEMMA CnpEvents ==
    ASSUME NEW u, InUnits(u), NEW es \in Seq(Ev), Once(es), Spaced(es, u),
           mlx \in MlxType, mlx.firstCnp => Evs(es) = {}
    PROVE  LET new == CnpReceived(mlx, es)[2] IN
           /\ new \in Seq(Ev) /\ Once(new) /\ Spaced(new, u)
           /\ mlx.firstCnp => Has(new, "alpha") /\ Has(new, "decrease")
           /\ ~mlx.firstCnp => new = es
           /\ CnpReceived(mlx, es)[1].firstCnp = FALSE
<1>1. CASE mlx.firstCnp
  <2> DEFINE new == CnpReceived(mlx, es)[2]
  <2>1. /\ new \in Seq(Ev) /\ Once(new) /\ Spaced(new, u)
        /\ Has(new, "alpha") /\ Has(new, "decrease")
    BY <1>1, FirstCnpEvents
  <2>2. CnpReceived(mlx, es)[1].firstCnp = FALSE
    BY <1>1 DEF CnpReceived, MlxType
  <2> QED BY <1>1, <2>1, <2>2
<1>2. CASE ~mlx.firstCnp
  <2>1. CnpReceived(mlx, es)[2] = es
    BY <1>2 DEF CnpReceived
  <2>2. CnpReceived(mlx, es)[1].firstCnp = FALSE
    BY <1>2 DEF CnpReceived, MlxType
  <2> QED BY <1>2, <2>1, <2>2
<1> QED BY <1>1, <1>2

LEMMA StepEvents ==
    ASSUME NEW u, InUnits(u), RateInv, EventsInv(u), [Next]_vars
    PROVE  EventsInv(u)'
<1> USE DEF EventsInv
<1>1. events \in Seq(Ev) /\ Once(events) /\ Spaced(events, u) /\ mlx \in MlxType
  BY DEF RateInv
<1>2. mlx.firstCnp => Evs(events) = {}
  BY DEF RateInv, Evs
<1>3. CASE Cnp
  <2>1. /\ ~complete /\ complete' = complete /\ late' = late
        /\ mlx' = CnpReceived(mlx, events)[1]
        /\ events' = CnpReceived(mlx, events)[2]
    BY <1>3 DEF Cnp, Step
  <2>2. /\ events' \in Seq(Ev) /\ Once(events') /\ Spaced(events', u)
        /\ mlx.firstCnp => Has(events', "alpha") /\ Has(events', "decrease")
        /\ ~mlx.firstCnp => events' = events
        /\ mlx'.firstCnp = FALSE
    BY <1>1, <1>2, <2>1, CnpEvents
  <2> QED BY <2>1, <2>2
<1>4. CASE LastAck
  <2>1. /\ Cancelled \in Seq(Ev) /\ Once(Cancelled) /\ Evs(Cancelled) = {}
    BY <1>1, CancelledEvents
  <2>2. Spaced(Cancelled, u) /\ \A t : ~Has(Cancelled, t)
    BY <2>1 DEF Spaced, Has
  <2>3. ~complete /\ ~late /\ complete' = TRUE
    BY <1>4 DEF LastAck
  <2>4. CASE mlx' = mlx /\ events' = Cancelled /\ UNCHANGED <<cnps, late>>
    BY <2>1, <2>2, <2>3, <2>4
  <2>5. CASE late' = mlx.firstCnp /\ Step(CnpReceived(mlx, Cancelled))
    <3>1. /\ mlx' = CnpReceived(mlx, Cancelled)[1]
          /\ events' = CnpReceived(mlx, Cancelled)[2]
      BY <2>5 DEF Step
    <3>2. /\ events' \in Seq(Ev) /\ Once(events') /\ Spaced(events', u)
          /\ mlx.firstCnp => Has(events', "alpha") /\ Has(events', "decrease")
          /\ ~mlx.firstCnp => events' = Cancelled
          /\ mlx'.firstCnp = FALSE
      BY <1>1, <2>1, <2>2, <3>1, CnpEvents
    <3>3. mlx.firstCnp \in BOOLEAN
      BY <1>1 DEF MlxType
    <3> QED BY <2>2, <2>3, <2>5, <3>2, <3>3
  <2> QED BY <1>4, <2>4, <2>5 DEF LastAck
<1>5. CASE Tick
  <2>1. /\ events' \in Seq(Ev) /\ Once(events') /\ Spaced(events', u)
        /\ \A t : Has(events', t) <=> Has(events, t)
    <3>1. \A i \in 1 .. Len(events) : events[i].left > 0
      BY <1>5 DEF Tick
    <3>2. events' = [i \in 1 .. Len(events) |-> [events[i] EXCEPT !.left = @ - 1]]
      BY <1>5 DEF Tick
    <3> QED BY <1>1, <3>1, <3>2, TickEvents
  <2>2. mlx' = mlx /\ complete' = complete /\ late' = late
    BY <1>5 DEF Tick
  <2> QED BY <2>1, <2>2
<1>6. ASSUME NEW i \in 1 .. Len(events), Expire(i)
      PROVE  EventsInv(u)'
  <2> DEFINE rest == RemoveAt(events, i)
  <2>1. complete' = complete /\ late' = late /\ events[i].left = 0
    BY <1>6 DEF Expire
  <2>2. CASE events[i].timer = "alpha" /\ Step(UpdateAlpha(mlx, rest))
    <3>1. /\ mlx' = UpdateAlpha(mlx, rest)[1]
          /\ events' = UpdateAlpha(mlx, rest)[2]
      BY <2>2 DEF Step
    <3>2. /\ events' \in Seq(Ev) /\ Once(events') /\ Spaced(events', u)
          /\ \A other : Has(events', other) <=> Has(events, other)
      BY <2>1, <2>2, <3>1, AlphaEvents
    <3>3. mlx'.firstCnp = mlx.firstCnp
      BY <1>1, <3>1, SameFirst
    <3> QED BY <2>1, <3>2, <3>3
  <2>3. CASE events[i].timer = "decrease" /\ Step(CheckRateDecrease(mlx, rest))
    <3>1. /\ mlx' = CheckRateDecrease(mlx, rest)[1]
          /\ events' = CheckRateDecrease(mlx, rest)[2]
      BY <2>3 DEF Step
    <3>2. /\ events' \in Seq(Ev) /\ Once(events') /\ Spaced(events', u)
          /\ \A other \in {"alpha", "decrease"} :
                Has(events', other) <=> Has(events, other)
      BY <2>1, <2>3, <3>1, DecreaseEvents
    <3>3. mlx'.firstCnp = mlx.firstCnp
      BY <1>1, <3>1, SameFirst
    <3>4. Has(events, "decrease")
      BY <2>3 DEF Has, Evs
    <3> QED BY <2>1, <3>2, <3>3, <3>4
  <2>4. CASE events[i].timer = "rp" /\ Step(RateIncEventTimer(mlx, rest))
    <3>1. /\ mlx' = RateIncEventTimer(mlx, rest)[1]
          /\ events' = RateIncEventTimer(mlx, rest)[2]
      BY <2>4 DEF Step
    <3>2. /\ events' \in Seq(Ev) /\ Once(events') /\ Spaced(events', u)
          /\ \A other : Has(events', other) <=> Has(events, other)
      BY <2>4, <3>1, IncreaseEvents
    <3>3. mlx'.firstCnp = mlx.firstCnp
      BY <1>1, <3>1, SameFirst
    <3> QED BY <2>1, <3>2, <3>3
  <2> QED BY <1>6, <2>2, <2>3, <2>4 DEF Expire
<1>7. CASE UNCHANGED vars
  BY <1>7 DEF vars
<1> QED BY <1>3, <1>4, <1>5, <1>6, <1>7 DEF Next, Run

\* At most one event of a timer, and the two timers never due together: their
\* distance in units is not a whole number.
LEMMA EventsOneChain ==
    ASSUME NEW u, InUnits(u), RateInv, EventsInv(u) PROVE OneChain
<1>1. events \in Seq(Ev) /\ Once(events) /\ Spaced(events, u)
  BY DEF EventsInv
<1>2. ASSUME NEW t PROVE Cardinality(Pending(events, t)) <= 1
  <2>1. CASE Pending(events, t) = {}
    BY <2>1, FS_EmptySet
  <2>2. CASE Pending(events, t) # {}
    <3>1. PICK i \in 1 .. Len(events) : events[i].timer = t
      BY <2>2 DEF Pending
    <3>2. Pending(events, t) = {i}
      BY <1>1, <3>1 DEF Pending, Once
    <3>3. Cardinality({i}) = 1
      BY FS_Singleton, Zenon
    <3> QED BY <3>2, <3>3
  <2> QED BY <2>1, <2>2
<1>3. \A t : Pending(events, t) # {} <=> Has(events, t)
  BY DEF Pending, Has, Evs
<1>4. DecreaseAfterAlpha
  <2> SUFFICES ASSUME NEW i \in Pending(events, "decrease"),
                      NEW j \in Pending(events, "alpha"),
                      events[i].left = 0, events[j].left = 0
               PROVE  FALSE
    BY DEF DecreaseAfterAlpha
  <2>1. /\ events[i] \in Evs(events) /\ events[i].timer = "decrease"
        /\ events[j] \in Evs(events) /\ events[j].timer = "alpha"
    BY DEF Pending, Evs
  <2>2. PICK k \in Int : events[i].left - events[j].left = k * u + 1
    BY <1>1, <2>1 DEF Spaced
  <2>3. u \in Nat /\ u > 1 /\ k * u = 0 - 1
    BY <2>2 DEF InUnits
  <2>4. k >= 0 => k * u >= 0
    BY <2>3, SMTT(60)
  <2>5. k < 0 => k * u <= 0 - u
    BY <2>3, SMTT(60)
  <2> QED BY <2>3, <2>4, <2>5
<1> QED BY <1>2, <1>3, <1>4 DEF OneChain, EventsInv

\* For intervals that are whole multiples of a unit longer than the offset of
\* ScheduleDecreaseRateMlx (microseconds against a nanosecond), each timer runs
\* once, from the first notification until QpComplete, and no decrease is due
\* with an alpha update, through any restarts (rdma-hw.cc:639-751).
THEOREM TimersRunOnce ==
    ASSUME NEW u, InUnits(u) PROVE Spec => []OneChain
<1>1. Init => RateInv /\ EventsInv(u)
  BY InitRate, InitEvents
<1>2. RateInv /\ EventsInv(u) /\ [Next]_vars => (RateInv /\ EventsInv(u))'
  BY StepRate, StepEvents
<1>3. RateInv /\ EventsInv(u) => OneChain
  BY EventsOneChain
<1> QED BY <1>1, <1>2, <1>3, PTL DEF Spec
=============================================================================
