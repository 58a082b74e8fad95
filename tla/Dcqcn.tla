------------------------------- MODULE Dcqcn -------------------------------
(***************************************************************************)
(* DCQCN at the sender (the "Mellanox" mode of rdma-hw.cc, the mode the    *)
(* simulation is shipped with): the rate of one queue pair, from its first *)
(* congestion notification to its completion and after.  Three timers run  *)
(* against the notifications that ACKs carry: one updates alpha, one       *)
(* decreases the rate if a notification has come, one increases it again;  *)
(* each schedules itself anew, and the second restarts the third.          *)
(*                                                                         *)
(* Times are relative to now, in units of the offset of ScheduleDecrease-  *)
(* RateMlx (a nanosecond).  Rates are integers and are halved as the code  *)
(* does; alpha is a multiple of 1/Scale, rounded down.                     *)
(***************************************************************************)
EXTENDS Integers, Sequences, FiniteSets, FiniteSetsExt, SequencesExt

CONSTANTS LineRate, MinRate,
          AI, HAI,               \* RateAI and RateHAI
          FirstCnp,              \* 1/FirstCnp of the rate is kept on first CNP
          Scale, Gain,           \* alpha is in 0 .. Scale, EwmaGain is 1/Gain
          AlphaInterval, DecreaseInterval, RpTimer,
          Threshold,             \* FastRecoveryTimes
          Clamps,                \* the values of ClampTargetRate
          MaxCnps                \* bound: congestion notifications

ASSUME DcqcnAssumption ==
    /\ {LineRate, MinRate, AI, HAI, FirstCnp, Scale, Gain} \subseteq Nat \ {0}
    /\ {AlphaInterval, DecreaseInterval, RpTimer} \subseteq Nat \ {0}
    /\ {Threshold, MaxCnps} \subseteq Nat /\ Clamps \subseteq BOOLEAN
    /\ MinRate * FirstCnp <= LineRate /\ LineRate % 2 = 0 /\ MinRate % 2 = 0

VARIABLES clamp,       \* ClampTargetRate
          mlx,         \* the rate and the mlx record of the queue pair
          events,      \* pending timers, in the order they were scheduled
          complete,    \* QpComplete has been called
          cnps,        \* bound: notifications received
          late         \* history: the first of them came with the last ACK

vars == <<clamp, mlx, events, complete, cnps, late>>

Timers == {"alpha", "decrease", "rp"}

Init ==
    /\ clamp \in Clamps
    /\ mlx = [rate |-> LineRate, target |-> LineRate, alpha |-> Scale,
              alphaCnp |-> FALSE, decreaseCnp |-> FALSE, firstCnp |-> TRUE,
              stage |-> 0]
    /\ events = << >>
    /\ complete = FALSE /\ cnps = 0 /\ late = FALSE
-----------------------------------------------------------------------------
\* The simulator's events.  The code keeps the event scheduled last.

Schedule(es, timer, delay) == Append(es, [timer |-> timer, left |-> delay])

Pending(es, timer) == {i \in 1 .. Len(es) : es[i].timer = timer}

\* Faulty: a second chain of events is started beside the first.
CancelNot(es, timer) == es

Cancel(es, timer) ==
    IF Pending(es, timer) = {} THEN es ELSE RemoveAt(es, Max(Pending(es, timer)))
-----------------------------------------------------------------------------
\* The handlers: from the queue pair r and the events es to a pair of both.

DecreaseOffset == 1

\* cnp_received_mlx.
CnpReceived(r, es) ==
    IF r.firstCnp
    THEN <<[r EXCEPT !.alpha = Scale, !.alphaCnp = FALSE, !.decreaseCnp = TRUE,
                     !.rate = @ \div FirstCnp, !.target = r.rate \div FirstCnp,
                     !.firstCnp = FALSE],
           Schedule(Schedule(es, "alpha", AlphaInterval),
                    "decrease", DecreaseInterval + DecreaseOffset)>>
    ELSE <<[r EXCEPT !.alphaCnp = TRUE, !.decreaseCnp = TRUE], es>>

UpdateAlpha(r, es) ==
    <<[r EXCEPT !.alpha = (@ * (Gain - 1)) \div Gain
                          + (IF r.alphaCnp THEN Scale \div Gain ELSE 0),
                !.alphaCnp = FALSE],
      Schedule(es, "alpha", AlphaInterval)>>

Decreased(r) == (r.rate * (2 * Scale - r.alpha)) \div (2 * Scale)

\* Faulty: no lower bound.
DecreasedRateAny(r) == Decreased(r)

DecreasedRate(r) == Max({MinRate, Decreased(r)})

\* "Clamp": whether the target follows the rate down, on each decrease or only
\* on one that comes after an increase.
Clamped(r) == clamp \/ r.stage # 0

CheckRateDecrease(r, es) ==
    LET again == Schedule(es, "decrease", DecreaseInterval) IN
    IF ~r.decreaseCnp THEN <<r, again>>
    ELSE <<[r EXCEPT !.target = IF Clamped(r) THEN r.rate ELSE @,
                     !.rate = DecreasedRate(r),
                     !.stage = 0, !.decreaseCnp = FALSE],
           Schedule(Cancel(again, "rp"), "rp", RpTimer)>>

Halfway(rate, target) == (rate \div 2) + (target \div 2)

\* FastRecoveryMlx, ActiveIncreaseMlx and HyperIncreaseMlx.
IncreasedTarget(r) ==
    CASE r.stage < Threshold -> r.target
      [] r.stage = Threshold -> Min({r.target + AI, LineRate})
      [] r.stage > Threshold -> Min({r.target + HAI, LineRate})

\* Faulty: the stage is never left.
NextStageNever(stage) == stage

\* The code counts on; stages past the threshold are all alike.
NextStage(stage) == Min({stage + 1, Threshold + 1})

RateIncEventTimer(r, es) ==
    <<[r EXCEPT !.target = IncreasedTarget(r),
                !.rate = Halfway(@, IncreasedTarget(r)),
                !.stage = NextStage(@)],
      Schedule(es, "rp", RpTimer)>>
-----------------------------------------------------------------------------
Step(handled) == mlx' = handled[1] /\ events' = handled[2]

\* ReceiveAck with the CNP flag, before the last ACK.
Cnp ==
    /\ ~complete /\ cnps < MaxCnps
    /\ cnps' = cnps + 1
    /\ Step(CnpReceived(mlx, events))
    /\ UNCHANGED <<clamp, complete, late>>

\* QpComplete.
Cancelled == Cancel(Cancel(Cancel(events, "alpha"), "decrease"), "rp")

\* ReceiveAck for the last packet: QpComplete cancels the timers, and then the
\* CNP flag of the same ACK is looked at.
LastAck ==
    /\ ~complete
    /\ complete' = TRUE
    /\ \/ /\ mlx' = mlx /\ events' = Cancelled
          /\ UNCHANGED <<cnps, late>>
       \/ /\ cnps < MaxCnps
          /\ cnps' = cnps + 1
          /\ late' = mlx.firstCnp
          /\ Step(CnpReceived(mlx, Cancelled))
    /\ UNCHANGED clamp

Expire(i) ==
    LET rest == RemoveAt(events, i) IN
    /\ events[i].left = 0
    /\ \/ events[i].timer = "alpha" /\ Step(UpdateAlpha(mlx, rest))
       \/ events[i].timer = "decrease" /\ Step(CheckRateDecrease(mlx, rest))
       \/ events[i].timer = "rp" /\ Step(RateIncEventTimer(mlx, rest))
    /\ UNCHANGED <<clamp, complete, cnps, late>>

Tick ==
    /\ events # << >>
    /\ \A i \in 1 .. Len(events) : events[i].left > 0
    /\ events' = [i \in 1 .. Len(events) |-> [events[i] EXCEPT !.left = @ - 1]]
    /\ UNCHANGED <<clamp, mlx, complete, cnps, late>>

Run == Tick \/ \E i \in 1 .. Len(events) : Expire(i)

Next == Run \/ Cnp \/ LastAck

Spec == Init /\ [][Next]_vars

\* The simulator executes every event; that an ACK carries a CNP, or is the
\* last, is up to the network.
FairSpec == Spec /\ WF_vars(Run)
-----------------------------------------------------------------------------
\* The rate is between the least rate and its target, the target below the
\* line rate, through any sequence of decreases, restarts and increases.
RateBounds ==
    /\ MinRate <= mlx.rate /\ mlx.rate <= mlx.target /\ mlx.target <= LineRate
    /\ mlx.alpha \in 0 .. Scale

\* "make sure rate decrease is after alpha update" (rdma-hw.cc:660): no decrease
\* is due at the moment of an alpha update, although both timers restart.
DecreaseAfterAlpha ==
    \A i \in Pending(events, "decrease"), j \in Pending(events, "alpha") :
       ~(events[i].left = 0 /\ events[j].left = 0)

\* Each timer runs once: the first two from the first notification on, the
\* third from the first decrease on; none before, and none after the queue pair
\* is complete.  Only a first notification on the last ACK starts them, for a
\* queue pair that is gone, and they then run until the simulation ends.
OneChain ==
    /\ \A t \in Timers : Cardinality(Pending(events, t)) <= 1
    /\ \A t \in {"alpha", "decrease"} :
          Pending(events, t) # {} <=> ~mlx.firstCnp /\ (complete => late)
    /\ Pending(events, "rp") # {} => Pending(events, "decrease") # {}
    /\ DecreaseAfterAlpha

\* Once notifications stop, the rate comes back to the line rate (but for what
\* halving an odd rate loses), unless the message is complete before.
Recovers == []<>(complete \/ mlx.firstCnp \/ mlx.rate >= LineRate - 1)
=============================================================================
