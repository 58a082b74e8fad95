------------------------------ MODULE HybridCC ------------------------------
(***************************************************************************)
(* HybridCC of src/applications/model/hybrid-cc.cc: DP * PP ranks train a  *)
(* pipeline of PP stages.  The DP ranks of a stage form a group, which     *)
(* runs its collectives on an RdmaCC ring; rank i of a stage sends point   *)
(* to point to rank i of the next stage (forward) or of the one before     *)
(* (backward), and the leading rank of a group counts those sends.         *)
(*                                                                         *)
(* Time.  Handlers run in the simulator's event loop.  What a handler      *)
(* schedules with zero delay runs in the same instant, in the order it was *)
(* scheduled: the queue events.  Compute timers and queue pairs end        *)
(* strictly later.  An instant begins when events is empty: some of what   *)
(* is outstanding comes due, in any order and any number (events whose     *)
(* time happens to be the same), and then the instant is drained.          *)
(***************************************************************************)
EXTENDS RdmaCC, FiniteSets

CONSTANTS DP,           \* m_dpGroupSize
          PP,           \* m_numPPStages
          Confs,        \* configurations: records of chunks (m_numChunks), inflight
                        \* (m_maxInflight), mode (m_scheduleMode: 0 event driven,
                        \* 1 static schedule) and train (m_train)
          Together      \* bound: how many timers and queue pairs share an instant

ASSUME Groups == /\ DP \in Nat /\ DP >= 2
                 /\ PP \in Nat /\ PP >= 1
                 /\ Together \in Nat /\ Together >= 1
ASSUME Configurations ==
    Confs \subseteq [chunks : Nat, inflight : Nat, mode : {0, 1}, train : BOOLEAN]

VARIABLES conf,      \* the configuration, the same at every rank
          h,         \* h[r]: the HybridCC of rank r
          cc,        \* cc[r]: its m_dpRdmaCC
          ringQp,    \* ringQp[r]: r's queue pairs of the ring that are not finished
          p2pQp,     \* p2pQp[r]: r's point-to-point queue pairs not finished
          timer,     \* compute timers, see Arm
          events,    \* the events due in this instant, in order
          arrived    \* how many of them came due from outside; None when draining

vars == <<conf, h, cc, ringQp, p2pQp, timer, events, arrived>>

Rank  == 0 .. DP * PP - 1
Chunk == 0 .. conf.chunks - 1

Stage(r)       == r \div DP
RankInGroup(r) == r % DP
IsFirst(r)     == Stage(r) = 0
IsLast(r)      == Stage(r) = PP - 1
Base(s)        == s * DP           \* the leading rank of stage s
Group(s)       == Base(s) .. Base(s) + DP - 1
Peer(r, i)     == Base(Stage(r)) + i

FwdPhases == {"FWD_AG", "FWD_COMPUTE", "FWD_P2P"}
BwdPhases == {"BWD_AG", "BWD_COMPUTE_1", "BWD_RS", "BWD_COMPUTE_2", "BWD_P2P"}
Phases    == {"IDLE", "DONE"} \cup FwdPhases \cup BwdPhases

Dec16(n) == (n - 1) % 2^16         \* uint16_t
One(b)   == IF b THEN 1 ELSE 0

(***************************************************************************)
(* Events.                                                                 *)
(***************************************************************************)
Ev(fn, r)       == [fn |-> fn, rank |-> r, chunk |-> None]
EvC(fn, r, c)   == [fn |-> fn, rank |-> r, chunk |-> c]
ToGroup(fn, s, c) == [i \in 1..DP |-> EvC(fn, Base(s) + i - 1, c)]

Due(fn, r) == /\ events # << >>
              /\ Head(events).fn = fn
              /\ Head(events).rank = r
Queued == {events[i] : i \in 1..Len(events)}
DueChunk == Head(events).chunk

\* The handler of the first event ran, and scheduled the events s.
Then(s) == events' = Tail(events) \o s /\ arrived' = None

(***************************************************************************)
(* Compute timers of one kind have equal delay, so they expire in the      *)
(* order they were armed, and those armed in one instant expire in one.    *)
(* timer.batches[kind] is a sequence of batches of events; open names the  *)
(* kinds whose last batch was armed in this instant.                       *)
(***************************************************************************)
Kinds == {"fwd", "bwd"}

AddTo(batches, e) ==
    [batches EXCEPT ![Len(batches)] = Append(@, e)]

Arm(t, kind, e) ==
    LET old == t.batches[kind]
        new == IF kind \in t.open THEN AddTo(old, e) ELSE Append(old, <<e>>)
    IN  [batches |-> [t.batches EXCEPT ![kind] = new], open |-> t.open \cup {kind}]

NoTimers == [batches |-> [kind \in Kinds |-> << >>], open |-> {}]

(***************************************************************************)
(* BuildSchedule(): warm-up, one forward one backward, cool-down.          *)
(***************************************************************************)
Smallest(S) == CHOOSE n \in S : \A m \in S : n <= m

Warmup(s) == Smallest({conf.inflight, conf.chunks, PP - 1 - s})
Forwards(from, n)  == [i \in 1..n |-> [type |-> "F", chunk |-> from + i - 1]]
Backwards(from, n) == IF conf.train THEN [i \in 1..n |-> [type |-> "B", chunk |-> from + i - 1]]
                      ELSE << >>
Steady(w, n) == IF conf.train
                THEN [i \in 1..2*n |-> IF i % 2 = 1
                                       THEN [type |-> "F", chunk |-> w + (i \div 2)]
                                       ELSE [type |-> "B", chunk |-> (i \div 2) - 1]]
                ELSE Forwards(w, n)

BuildSchedule(s) ==
    LET w == Warmup(s)
        n == conf.chunks - w
    IN  Forwards(0, w) \o Steady(w, n) \o Backwards(n, w)
-----------------------------------------------------------------------------
Init ==
    /\ conf \in Confs
    /\ h = [r \in Rank |->
              [phase |-> "IDLE", busy |-> FALSE, chunk |-> 0, cb |-> "None",
               fwdReady |-> 0, bwdReady |-> 0, fwdIdx |-> 0, bwdIdx |-> 0,
               inflight |-> 0, fwdCount |-> 0, bwdCount |-> 0,
               pendChunk |-> 0, pendFwd |-> FALSE,
               schedIdx |-> 0, fwdRecv |-> {}, bwdRecv |-> {}]]
    /\ cc = [r \in Rank |-> Reset]
    /\ ringQp = [r \in Rank |-> 0]
    /\ p2pQp = [r \in Rank |-> 0]
    /\ timer = NoTimers
    /\ events = [i \in 1..DP*PP |-> Ev("StartApplication", i - 1)]
    /\ arrived = None

(***************************************************************************)
(* What comes due from outside joins the instant that is gathering its     *)
(* events, or begins the next one once the last is drained.                *)
(***************************************************************************)
Arrive(s) ==
    /\ \/ arrived = None /\ events = << >> /\ arrived' = 1
       \/ arrived # None /\ arrived < Together /\ arrived' = arrived + 1
    /\ events' = events \o s

QpEnds(qps, fn, r) ==
    /\ qps[r] > 0
    /\ Arrive(<<Ev(fn, r)>>)
    /\ qps' = [qps EXCEPT ![r] = @ - 1]
    /\ timer' = [timer EXCEPT !.open = {}]
    /\ UNCHANGED <<h, cc>>

RingQpEnds(r) == QpEnds(ringQp, "SendChunkFinish", r) /\ UNCHANGED p2pQp
P2PQpEnds(r)  == QpEnds(p2pQp, "OnP2PSendComplete", r) /\ UNCHANGED ringQp

\* Batches of one kind were armed in different instants, and expire in different ones.
TimerEvents == [fwd |-> {"OnFwdComputeDone"},
                bwd |-> {"OnBwdCompute1Done", "OnBwdCompute2Done"}]

TimerExpires(kind) ==
    /\ timer.batches[kind] # << >>
    /\ \A i \in 1..Len(events) : events[i].fn \notin TimerEvents[kind]
    /\ Arrive(Head(timer.batches[kind]))
    /\ timer' = [timer EXCEPT !.batches[kind] = Tail(@), !.open = {}]
    /\ UNCHANGED <<h, cc, ringQp, p2pQp>>

(***************************************************************************)
(* The RdmaCC of the group.  A completed collective calls m_completionCb,  *)
(* which only notes the phase and arms the timer of the next step.         *)
(***************************************************************************)
CbPhase == [OnFwdAGComplete |-> "FWD_COMPUTE", OnBwdAGComplete |-> "BWD_COMPUTE_1",
            OnBwdRSComplete |-> "BWD_COMPUTE_2"]
CbTimer == [OnFwdAGComplete |-> "fwd", OnBwdAGComplete |-> "bwd", OnBwdRSComplete |-> "bwd"]
CbEvent == [OnFwdAGComplete |-> "OnFwdComputeDone", OnBwdAGComplete |-> "OnBwdCompute1Done",
            OnBwdRSComplete |-> "OnBwdCompute2Done"]

Completed(S) == [r \in Rank |-> IF r \in S THEN [h[r] EXCEPT !.phase = CbPhase[h[r].cb]]
                                ELSE h[r]]
ArmFor(t, r, on) == IF on THEN Arm(t, CbTimer[h[r].cb], Ev(CbEvent[h[r].cb], r)) ELSE t

RdmaStart(r) ==   \* RdmaCC::StartApplication
    /\ Due("RdmaStart", r)
    /\ \E o \in {StartApplication(cc[r])} :
          /\ cc' = [cc EXCEPT ![r] = o.cc]
          /\ ringQp' = [ringQp EXCEPT ![r] = @ + o.send]
          /\ h' = Completed({q \in {r} : o.done = 1})
          /\ timer' = ArmFor(timer, r, o.done = 1)
    /\ Then(<< >>)
    /\ UNCHANGED p2pQp

\* The destination counts the receive, then the sender goes on; an endpoint
\* with no send step forgets the queue pair.
RingSendFinish(r) ==   \* RdmaCC::SendChunkFinish
    /\ Due("SendChunkFinish", r)
    /\ \/ /\ ~HasSendStep(cc[r])
          /\ UNCHANGED <<h, cc, ringQp, timer>>
       \/ /\ HasSendStep(cc[r])
          /\ \E to \in {Peer(r, SendTarget(cc[r]))} :
             \E dst \in {FinishRecvStep(cc[to])} :
             \E src \in {FinishSend(cc[r])} :
                /\ cc' = [cc EXCEPT ![to] = dst.cc, ![r] = src.cc]
                /\ ringQp' = [ringQp EXCEPT ![to] = @ + dst.send,
                                            ![r] = @ + src.send]
                /\ h' = Completed({q \in {to} : dst.done = 1} \cup {q \in {r} : src.done = 1})
                /\ timer' = ArmFor(ArmFor(timer, to, dst.done = 1), r, src.done = 1)
    /\ Then(<< >>)
    /\ UNCHANGED p2pQp

(***************************************************************************)
(* Forward(chunk): all-gather, compute, send to the next stage.            *)
(* Backward(chunk): all-gather, compute, reduce-scatter, compute, send to  *)
(* the previous stage.  Collect gives r's endpoint its next collective.    *)
(***************************************************************************)
Collect(r, collective, next) ==
    /\ cc' = [cc EXCEPT ![r] = collective]
    /\ h' = [h EXCEPT ![r] = next]
    /\ Then(<<Ev("RdmaStart", r)>>)
    /\ UNCHANGED <<ringQp, p2pQp, timer>>

Forward(r, hr, c) ==
    Collect(r, Allgather(RankInGroup(r), DP),
            [hr EXCEPT !.chunk = c, !.phase = "FWD_AG", !.busy = TRUE,
                       !.cb = "OnFwdAGComplete"])
Backward(r, hr, c) ==
    Collect(r, Allgather(RankInGroup(r), DP),
            [hr EXCEPT !.chunk = c, !.phase = "BWD_AG", !.busy = TRUE,
                       !.cb = "OnBwdAGComplete"])

OnBwdCompute1Done(r) ==
    /\ Due("OnBwdCompute1Done", r)
    /\ Collect(r, ReduceScatter(RankInGroup(r), DP),
               [h[r] EXCEPT !.phase = "BWD_RS", !.cb = "OnBwdRSComplete"])

\* Faulty: the next operation is not scheduled.
FinishSilently(r, hr) ==
    /\ h' = [h EXCEPT ![r] = [hr EXCEPT !.busy = FALSE]]
    /\ Then(<< >>)
    /\ UNCHANGED <<cc, ringQp, p2pQp, timer>>

\* An operation of r is over: the next is scheduled.
Finish(r, hr) ==
    /\ h' = [h EXCEPT ![r] = [hr EXCEPT !.busy = FALSE]]
    /\ Then(<<Ev("ScheduleNext", r)>>)
    /\ UNCHANGED <<cc, ringQp, p2pQp, timer>>

SendP2P(r, phase, forward) ==
    /\ h' = [h EXCEPT ![r].phase = phase, ![r].pendChunk = h[r].chunk,
                      ![r].pendFwd = forward]
    /\ p2pQp' = [p2pQp EXCEPT ![r] = @ + 1]
    /\ Then(<< >>)
    /\ UNCHANGED <<cc, ringQp, timer>>

OnFwdComputeDone(r) ==
    /\ Due("OnFwdComputeDone", r)
    /\ \/ /\ IsLast(r)
          /\ LET hr == [h[r] EXCEPT !.inflight = Dec16(@)] IN
             Finish(r, IF ~conf.train THEN hr
                       ELSE IF conf.mode = 0 THEN [hr EXCEPT !.bwdReady = @ + 1]
                       ELSE [hr EXCEPT !.bwdRecv = @ \cup {hr.chunk}])
       \/ /\ ~IsLast(r)
          /\ SendP2P(r, "FWD_P2P", TRUE)

OnBwdCompute2Done(r) ==
    /\ Due("OnBwdCompute2Done", r)
    /\ \/ IsFirst(r) /\ Finish(r, h[r])
       \/ ~IsFirst(r) /\ SendP2P(r, "BWD_P2P", FALSE)

(***************************************************************************)
(* The barrier between stages: every sender reports its finished queue     *)
(* pair to its group's leading rank; the last report lets the group go on  *)
(* and tells the other stage's leading rank, which tells its group.        *)
(***************************************************************************)
Handle(hr, r, s) ==   \* a handler that only updates r's record and schedules s
    /\ h' = [h EXCEPT ![r] = hr]
    /\ Then(s)
    /\ UNCHANGED <<cc, ringQp, p2pQp, timer>>

OnP2PSendComplete(r) ==
    /\ Due("OnP2PSendComplete", r)
    /\ Handle(h[r], r, <<EvC(IF h[r].pendFwd THEN "OnP2PFwdStep" ELSE "OnP2PBwdStep",
                             Base(Stage(r)), h[r].pendChunk)>>)

\* Faulty: the counter is not reset when the group is complete.
OnP2PFwdStepNoReset(r) ==
    /\ Due("OnP2PFwdStep", r)
    /\ Handle([h[r] EXCEPT !.fwdCount = @ + 1], r,
              IF h[r].fwdCount + 1 < DP THEN << >>
              ELSE Append(ToGroup("OnP2PFwdComplete", Stage(r), DueChunk),
                          EvC("OnP2PFwdRecv", Base(Stage(r) + 1), DueChunk)))

OnP2PFwdStep(r) ==
    /\ Due("OnP2PFwdStep", r)
    /\ \/ /\ h[r].fwdCount + 1 < DP
          /\ Handle([h[r] EXCEPT !.fwdCount = @ + 1], r, << >>)
       \/ /\ h[r].fwdCount + 1 >= DP
          /\ Handle([h[r] EXCEPT !.fwdCount = 0], r,
                    Append(ToGroup("OnP2PFwdComplete", Stage(r), DueChunk),
                           EvC("OnP2PFwdRecv", Base(Stage(r) + 1), DueChunk)))

\* Faulty: the barrier opens one report too early.
OnP2PBwdStepEarly(r) ==
    /\ Due("OnP2PBwdStep", r)
    /\ \/ /\ h[r].bwdCount + 1 < DP - 1
          /\ Handle([h[r] EXCEPT !.bwdCount = @ + 1], r, << >>)
       \/ /\ h[r].bwdCount + 1 >= DP - 1
          /\ Handle([h[r] EXCEPT !.bwdCount = 0], r,
                    Append(ToGroup("OnP2PBwdComplete", Stage(r), DueChunk),
                           EvC("OnP2PBwdRecv", Base(Stage(r) - 1), DueChunk)))

OnP2PBwdStep(r) ==
    /\ Due("OnP2PBwdStep", r)
    /\ \/ /\ h[r].bwdCount + 1 < DP
          /\ Handle([h[r] EXCEPT !.bwdCount = @ + 1], r, << >>)
       \/ /\ h[r].bwdCount + 1 >= DP
          /\ Handle([h[r] EXCEPT !.bwdCount = 0], r,
                    Append(ToGroup("OnP2PBwdComplete", Stage(r), DueChunk),
                           EvC("OnP2PBwdRecv", Base(Stage(r) - 1), DueChunk)))

OnP2PFwdComplete(r) ==
    /\ Due("OnP2PFwdComplete", r)
    /\ Finish(r, [h[r] EXCEPT !.inflight = Dec16(@)])

OnP2PBwdComplete(r) ==
    /\ Due("OnP2PBwdComplete", r)
    /\ Finish(r, h[r])

\* Faulty: only the leading rank learns of the chunk.
OnP2PFwdRecvLeaderOnly(r) ==
    /\ Due("OnP2PFwdRecv", r)
    /\ Handle(h[r], r, <<EvC(IF conf.mode = 0 THEN "OnP2PFwdRecv_EventDriven"
                             ELSE "OnP2PFwdRecv_Static", r, DueChunk)>>)

OnP2PFwdRecv(r) ==
    /\ Due("OnP2PFwdRecv", r)
    /\ Handle(h[r], r, ToGroup(IF conf.mode = 0 THEN "OnP2PFwdRecv_EventDriven"
                               ELSE "OnP2PFwdRecv_Static", Stage(r), DueChunk))
OnP2PBwdRecv(r) ==
    /\ Due("OnP2PBwdRecv", r)
    /\ Handle(h[r], r, ToGroup(IF conf.mode = 0 THEN "OnP2PBwdRecv_EventDriven"
                               ELSE "OnP2PBwdRecv_Static", Stage(r), DueChunk))

OnP2PFwdRecv_EventDriven(r) ==
    /\ Due("OnP2PFwdRecv_EventDriven", r)
    /\ Handle([h[r] EXCEPT !.fwdReady = @ + 1], r, <<Ev("ScheduleNext_EventDriven", r)>>)
\* Faulty: the arrival of a backward chunk is not counted.
OnP2PBwdRecvUncounted(r) ==
    /\ Due("OnP2PBwdRecv_EventDriven", r)
    /\ Handle(h[r], r, <<Ev("ScheduleNext_EventDriven", r)>>)

OnP2PBwdRecv_EventDriven(r) ==
    /\ Due("OnP2PBwdRecv_EventDriven", r)
    /\ Handle([h[r] EXCEPT !.bwdReady = @ + 1], r, <<Ev("ScheduleNext_EventDriven", r)>>)
OnP2PFwdRecv_Static(r) ==
    /\ Due("OnP2PFwdRecv_Static", r)
    /\ Handle([h[r] EXCEPT !.fwdRecv = @ \cup {DueChunk}], r, <<Ev("ExecuteNextEntry", r)>>)
OnP2PBwdRecv_Static(r) ==
    /\ Due("OnP2PBwdRecv_Static", r)
    /\ Handle([h[r] EXCEPT !.bwdRecv = @ \cup {DueChunk}], r, <<Ev("ExecuteNextEntry", r)>>)

(***************************************************************************)
(* Scheduling.                                                             *)
(***************************************************************************)
NextEvent(r) == Ev(IF conf.mode = 0 THEN "ScheduleNext_EventDriven" ELSE "ExecuteNextEntry", r)

HybridStart(r) ==   \* HybridCC::StartApplication
    /\ Due("StartApplication", r)
    /\ Handle(IF conf.mode = 0 /\ IsFirst(r) THEN [h[r] EXCEPT !.fwdReady = conf.chunks] ELSE h[r],
              r, <<NextEvent(r)>>)

ScheduleNext(r) == Due("ScheduleNext", r) /\ Handle(h[r], r, <<NextEvent(r)>>)

AllDone(hr) == /\ hr.fwdIdx >= conf.chunks
               /\ ~conf.train \/ hr.bwdIdx >= conf.chunks
CanBackward(hr) == conf.train /\ hr.bwdReady > 0 /\ hr.bwdIdx < conf.chunks
CanForwardUnready(hr) ==   \* faulty: a forward does not wait for its input
    hr.fwdIdx < conf.chunks /\ hr.inflight < conf.inflight
CanForward(hr)  == hr.fwdReady > 0 /\ hr.fwdIdx < conf.chunks /\ hr.inflight < conf.inflight

\* Faulty: m_busy is not tested.
ScheduleNextThoughBusy(r) ==
    /\ Due("ScheduleNext_EventDriven", r)
    /\ LET hr == h[r] IN
       \/ /\ AllDone(hr)
          /\ Handle([hr EXCEPT !.phase = "DONE"], r, << >>)
       \/ /\ ~AllDone(hr) /\ CanBackward(hr)
          /\ Backward(r, [hr EXCEPT !.bwdReady = @ - 1, !.bwdIdx = @ + 1], hr.bwdIdx)
       \/ /\ ~AllDone(hr) /\ ~CanBackward(hr) /\ CanForward(hr)
          /\ Forward(r, [hr EXCEPT !.fwdReady = @ - 1, !.inflight = @ + 1,
                                   !.fwdIdx = @ + 1], hr.fwdIdx)
       \/ /\ ~AllDone(hr) /\ ~CanBackward(hr) /\ ~CanForward(hr)
          /\ Handle(hr, r, << >>)

ScheduleNext_EventDriven(r) ==
    /\ Due("ScheduleNext_EventDriven", r)
    /\ LET hr == h[r] IN
       \/ /\ hr.busy
          /\ Handle(hr, r, << >>)
       \/ /\ ~hr.busy /\ AllDone(hr)
          /\ Handle([hr EXCEPT !.phase = "DONE"], r, << >>)
       \/ /\ ~hr.busy /\ ~AllDone(hr) /\ CanBackward(hr)
          /\ Backward(r, [hr EXCEPT !.bwdReady = @ - 1, !.bwdIdx = @ + 1], hr.bwdIdx)
       \/ /\ ~hr.busy /\ ~AllDone(hr) /\ ~CanBackward(hr) /\ CanForward(hr)
          /\ Forward(r, [hr EXCEPT !.fwdReady = @ - 1, !.inflight = @ + 1,
                                   !.fwdIdx = @ + 1], hr.fwdIdx)
       \/ /\ ~hr.busy /\ ~AllDone(hr) /\ ~CanBackward(hr) /\ ~CanForward(hr)
          /\ Handle(hr, r, << >>)

ExecuteNextEntry(r) ==
    /\ Due("ExecuteNextEntry", r)
    /\ LET hr       == h[r]
           schedule == BuildSchedule(Stage(r))
           entry    == schedule[hr.schedIdx + 1]
           ready    == IF entry.type = "F" THEN IsFirst(r) \/ entry.chunk \in hr.fwdRecv
                       ELSE IsLast(r) \/ entry.chunk \in hr.bwdRecv
           taken    == [hr EXCEPT !.schedIdx = @ + 1]
       IN
       \/ /\ hr.schedIdx >= Len(schedule)
          /\ Handle([hr EXCEPT !.phase = "DONE"], r, << >>)
       \/ /\ hr.schedIdx < Len(schedule)
          /\ ~ready
          /\ Handle(hr, r, << >>)
       \/ /\ hr.schedIdx < Len(schedule)
          /\ ready
          /\ IF entry.type = "F" THEN Forward(r, taken, entry.chunk)
             ELSE Backward(r, taken, entry.chunk)
-----------------------------------------------------------------------------
Outside == \/ \E r \in Rank : RingQpEnds(r) \/ P2PQpEnds(r)
           \/ \E kind \in Kinds : TimerExpires(kind)

Handlers(r) ==
    \/ HybridStart(r) \/ ScheduleNext(r)
    \/ ScheduleNext_EventDriven(r) \/ ExecuteNextEntry(r)
    \/ RdmaStart(r) \/ RingSendFinish(r)
    \/ OnFwdComputeDone(r) \/ OnBwdCompute1Done(r) \/ OnBwdCompute2Done(r)
    \/ OnP2PSendComplete(r)
    \/ OnP2PFwdStep(r) \/ OnP2PFwdComplete(r) \/ OnP2PFwdRecv(r)
    \/ OnP2PBwdStep(r) \/ OnP2PBwdComplete(r) \/ OnP2PBwdRecv(r)
    \/ OnP2PFwdRecv_EventDriven(r) \/ OnP2PBwdRecv_EventDriven(r)
    \/ OnP2PFwdRecv_Static(r) \/ OnP2PBwdRecv_Static(r)

Next == /\ Outside \/ \E r \in Rank : Handlers(r)
        /\ UNCHANGED conf

Spec == Init /\ [][Next]_vars

\* The simulator runs what is due, timers expire, and the transport of a
\* lossless fabric finishes every queue pair.
FairSpec == Spec /\ WF_vars(Next)
-----------------------------------------------------------------------------
(***************************************************************************)
(* How many events named in fns of rank r are due, and armed in timers.    *)
(***************************************************************************)
DueFor(r, fns) ==
    Cardinality({i \in 1..Len(events) : events[i].rank = r /\ events[i].fn \in fns})
ArmedFor(r, fns) ==
    LET places(batches) ==
            {p \in UNION {{i} \X (1..Len(batches[i])) : i \in 1..Len(batches)} :
                batches[p[1]][p[2]].rank = r /\ batches[p[1]][p[2]].fn \in fns}
    IN  Cardinality(places(timer.batches["fwd"])) + Cardinality(places(timer.batches["bwd"]))

ComputeEvents == TimerEvents.fwd \cup TimerEvents.bwd
Computing(r) == ArmedFor(r, ComputeEvents) + DueFor(r, ComputeEvents)
Ringing(r)   == ringQp[r] + DueFor(r, {"RdmaStart", "SendChunkFinish"})
Sending(r)   == p2pQp[r] + DueFor(r, {"OnP2PSendComplete"})

\* In event mode one forward is under way at most, and the unsigned count of them
\* never goes below zero; in static mode nothing adds to it, and nothing reads it.
InflightRange == IF conf.mode = 0 THEN 0..1 ELSE 0..2^16 - 1

\* The shape of the state, and the range of each counter.
TypeOK ==
    /\ conf \in Confs
    /\ \A r \in Rank :
          /\ h[r].phase \in Phases
          /\ h[r].busy \in BOOLEAN
          /\ h[r].chunk \in Chunk /\ h[r].pendChunk \in Chunk
          /\ {h[r].fwdReady, h[r].bwdReady, h[r].fwdIdx, h[r].bwdIdx} \subseteq 0..conf.chunks
          /\ h[r].inflight \in InflightRange
          /\ {h[r].fwdCount, h[r].bwdCount} \subseteq 0..DP - 1
          /\ h[r].fwdRecv \cup h[r].bwdRecv \subseteq Chunk
          /\ cc[r].recvStep \in 0..DP /\ cc[r].sendStep \in 0..DP
    /\ ringQp \in [Rank -> 0..1]
    /\ p2pQp \in [Rank -> 0..1]

\* A rank does one thing at a time ("Operation serialization: true when an
\* AG/RS or P2P send is active", the comment of m_busy): one step of one
\* operation is outstanding, it is the step m_phase names, and none is when
\* the rank is not busy.
OneActivity ==
    \A r \in Rank :
        LET p == IF h[r].busy THEN h[r].phase ELSE "IDLE" IN
        /\ Ringing(r)   <= One(p \in {"FWD_AG", "BWD_AG", "BWD_RS"})
        /\ Computing(r) =  One(p \in {"FWD_COMPUTE", "BWD_COMPUTE_1", "BWD_COMPUTE_2"})
        /\ Sending(r)   <= One(p \in {"FWD_P2P", "BWD_P2P"})

\* The ranks of a group decide one by one what to run next, from counters
\* of their own, and a collective only works if they decide alike: whenever
\* an instant is over they are at the same step of the same operation.
GroupTogether ==
    events = << >> =>
        \A r, q \in Rank : Stage(r) = Stage(q) =>
            /\ h[r].phase = h[q].phase
            /\ h[r].busy = h[q].busy
            /\ h[r].chunk = h[q].chunk
            /\ cc[r].recvStep + cc[r].sendStep + cc[r].stepStu
                 = cc[q].recvStep + cc[q].sendStep + cc[q].stepStu

FwdDone(r) == h[r].fwdIdx - One(h[r].busy /\ h[r].phase \in FwdPhases)
BwdDone(r) == h[r].bwdIdx - One(h[r].busy /\ h[r].phase \in BwdPhases)

\* Chunks are neither lost nor duplicated between stages: what a rank has
\* begun or has ready is what its neighbour stage is through with.
ChunksConserved ==
    conf.mode = 0 /\ events = << >> => \A r \in Rank :
        /\ h[r].fwdIdx + h[r].fwdReady = IF IsFirst(r) THEN conf.chunks ELSE FwdDone(r - DP)
        /\ conf.train => h[r].bwdIdx + h[r].bwdReady
                           = IF IsLast(r) THEN FwdDone(r) ELSE BwdDone(r + DP)

\* The barrier between stages loses no report: the reports counted and the
\* sends still to report make one whole group, or none.
BarrierComplete ==
    events = << >> => \A s \in 0..PP-1 :
        LET sends(dir) == {r \in Group(s) : p2pQp[r] > 0 /\ h[r].pendFwd = dir} IN
        /\ h[Base(s)].fwdCount + Cardinality(sends(TRUE)) \in {0, DP}
        /\ h[Base(s)].bwdCount + Cardinality(sends(FALSE)) \in {0, DP}

\* "Maximum inflight forward chunks per stage" (attribute MaxInflight): the
\* chunks a stage has sent forward and not yet taken back.  Not an invariant in
\* event mode, where the limit only counts forward sends under way.
InflightBound ==
    conf.train => \A r \in Rank : h[r].fwdIdx - h[r].bwdIdx <= conf.inflight

\* A completed collective calls its callback once ("Application finished -
\* trigger completion callback"), so it never arms a second compute timer.
CompletesOnce == \A r \in Rank : Computing(r) <= 1

\* Every rank gets through its whole schedule.
Finished == \A r \in Rank : h[r].phase = "DONE"
Termination == <>Finished
-----------------------------------------------------------------------------
(***************************************************************************)
(* Event-driven training implements Pipeline; a stage is through with a    *)
(* chunk when its leading rank is.                                         *)
(***************************************************************************)
Pipe == INSTANCE Pipeline
          WITH chunks   <- conf.chunks,
               backward <- conf.train,
               fwd      <- [s \in 0..PP-1 |-> IF conf.mode = 0 THEN FwdDone(Base(s)) ELSE 0],
               bwd      <- [s \in 0..PP-1 |-> IF conf.mode = 0 THEN BwdDone(Base(s)) ELSE 0]
ImplementsPipeline == Pipe!Spec
=============================================================================
