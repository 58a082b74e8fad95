-------------------------- MODULE CollectiveProofs --------------------------
(***************************************************************************)
(* Proofs about the ring collectives of Collective.tla, for any number of  *)
(* ranks.  The inductive invariant, IInv, says in which of three states a  *)
(* rank is once all have started (Sending, Waiting, Finished), and that    *)
(* the receives counted by a rank are the sends its predecessor has ended. *)
(***************************************************************************)
EXTENDS Collective, TLAPS

\* The steps of the operation that is run.
Hops == IF op.name = "Allreduce" THEN 2 * (N - 1) ELSE N - 1

PrevList(r) == [i \in 1..Hops |-> RingPrev(r, N)]
NextList(r) == [i \in 1..Hops |-> RingNext(r, N)]

Endpoint(r, recv, send, stu) ==
    [prevRank |-> PrevList(r), nextRank |-> NextList(r),
     recvStep |-> recv, sendStep |-> send, stepStu |-> stu]

-----------------------------------------------------------------------------
(***************************************************************************)
(* The ring.                                                               *)
(***************************************************************************)
\* RingNext is the successor on 0..N-1.
LEMMA RingNextIs ==
    ASSUME NEW n \in Nat, n >= 2, NEW r \in 0..n-1
    PROVE  RingNext(r, n) = IF r = n - 1 THEN 0 ELSE r + 1
BY DEF RingNext

\* RingPrev stays inside 0..N-1.
LEMMA RingPrevIn ==
    ASSUME NEW n \in Nat, n >= 2, NEW r \in 0..n-1
    PROVE  RingPrev(r, n) \in 0..n-1
BY DEF RingPrev

\* The successor is another rank, and no two ranks share it.
LEMMA NextRank ==
    ASSUME NEW r \in Rank
    PROVE  /\ RingNext(r, N) \in Rank
           /\ RingNext(r, N) # r
           /\ \A q \in Rank : RingNext(q, N) = RingNext(r, N) => q = r
<1>1. RingNext(r, N) = IF r = N - 1 THEN 0 ELSE r + 1
  BY RingNextIs, CommSize DEF Rank
<1>2. ASSUME NEW q \in Rank PROVE RingNext(q, N) = IF q = N - 1 THEN 0 ELSE q + 1
  BY RingNextIs, CommSize DEF Rank
<1> QED BY <1>1, <1>2, CommSize DEF Rank

\* A ring has at least one step.
LEMMA HopsPositive ==
    ASSUME op \in Ops PROVE Hops \in Nat /\ Hops >= 1
BY CommSize DEF Hops, Ops

\* Allgather, ReduceScatter and Allreduce build that ring schedule.
LEMMA ScheduleIsRing ==
    ASSUME Algs = {1}, op \in Ops, NEW r \in Rank
    PROVE  Schedule(r) = Endpoint(r, 0, 0, 1)
BY CommSize DEF Schedule, Ops, Endpoint, PrevList, NextList, Hops, Allgather,
     ReduceScatter, RingAllreduce, Ring, Reset

\* What the two lists hold: no step of a ring is idle.
LEMMA Lists ==
    ASSUME op \in Ops, NEW r \in Rank
    PROVE  /\ Len(PrevList(r)) = Hops
           /\ Len(NextList(r)) = Hops
           /\ \A i \in 1..Hops : /\ PrevList(r)[i] = RingPrev(r, N)
                                 /\ PrevList(r)[i] # None
                                 /\ NextList(r)[i] = RingNext(r, N)
                                 /\ NextList(r)[i] # None
<1>1. RingPrev(r, N) \in 0..N-1 /\ RingNext(r, N) \in 0..N-1
  BY RingPrevIn, NextRank, CommSize DEF Rank
<1> QED BY <1>1, HopsPositive, CommSize DEF PrevList, NextList, None

-----------------------------------------------------------------------------
(***************************************************************************)
(* SendStep on a ring.                                                     *)
(***************************************************************************)
\* Where no step is idle, StepPast does not move.
LEMMA StepPastStays ==
    ASSUME NEW list, NEW from \in Nat, NEW to \in Nat,
           \A i \in from..(to - 1) : list[i] # None
    PROVE  StepPast(list, from, to) = from
<1> DEFINE real == {i \in from..(to - 1) : list[i] # None}
<1>1. CASE from < to
  <2>1. from \in real /\ \A j \in real : from <= j
    BY <1>1
  <2>2. \A i \in real : (\A j \in real : i <= j) => i = from
    BY <2>1
  <2>3. (CHOOSE i \in real : \A j \in real : i <= j) = from
    BY <2>1, <2>2
  <2> QED BY <2>1, <2>3 DEF StepPast
<1>2. CASE from >= to
  <2>1. real = {}
    BY <1>2
  <2> QED BY <1>2, <2>1 DEF StepPast
<1> QED BY <1>1, <1>2

\* SendStep's skip loops leave a ring endpoint as it is.
LEMMA NothingToSkip ==
    ASSUME op \in Ops, NEW r \in Rank,
           NEW recv \in 1..Hops+1, NEW send \in 0..Hops+1, NEW stu \in 0..1
    PROVE  SkipIdleSteps(Endpoint(r, recv, send, stu)) = Endpoint(r, recv, send, stu)
<1> DEFINE c    == Endpoint(r, recv, send, stu)
           last == IF recv < Hops THEN recv ELSE Hops
<1>1. Hops \in Nat /\ Hops >= 1
  BY HopsPositive
<1>2. /\ c.prevRank = PrevList(r) /\ c.nextRank = NextList(r)
      /\ c.recvStep = recv /\ c.sendStep = send /\ c.stepStu = stu
  BY DEF Endpoint
<1>3. StepPast(c.prevRank, c.recvStep, Len(c.nextRank) + 1) = recv
  <2>1. \A i \in recv..(Hops + 1 - 1) : PrevList(r)[i] # None
    BY <1>1, Lists
  <2> QED BY <1>1, <1>2, <2>1, Lists, StepPastStays
<1>4. StepPast(c.nextRank, send + 1, last + 1) = send + 1
  <2> DEFINE from == send + 1
             to   == last + 1
  <2>1. \A i \in from..(to - 1) : NextList(r)[i] # None
    BY <1>1, Lists
  <2>2. from \in Nat /\ to \in Nat
    BY <1>1
  <2>3. StepPast(NextList(r), from, to) = from
    <3> HIDE DEF from, to
    <3> QED BY <2>1, <2>2, StepPastStays
  <2> QED BY <1>2, <2>3
<1>5. SkipIdleSteps(c) = At(c, recv, send + 1 - 1, stu)
  BY <1>1, <1>2, <1>3, <1>4, Lists DEF SkipIdleSteps
<1> QED BY <1>2, <1>5 DEF At, Endpoint

\* The next step or, at the end of the schedule, the completion callback.
Advanced(r, recv, send) ==
    IF send + 1 <= Hops THEN Outcome(Endpoint(r, recv, send + 1, 0), 1, 0)
    ELSE Outcome(Endpoint(r, recv, send + 1, 0), 0, 1)

\* With steps left, SendStep advances if the last send is over and the data for
\* the next is here, and does nothing otherwise.
LEMMA SendStepRing ==
    ASSUME op \in Ops, NEW r \in Rank,
           NEW recv \in 1..Hops+1, NEW send \in 0..Hops, NEW stu \in 0..1
    PROVE  SendStep(Endpoint(r, recv, send, stu)) =
             IF stu = 1 /\ recv > send THEN Advanced(r, recv, send)
             ELSE Outcome(Endpoint(r, recv, send, stu), 0, 0)
<1> DEFINE c == Endpoint(r, recv, send, stu)
<1>1. Hops \in Nat /\ Hops >= 1
  BY HopsPositive
<1>2. SkipIdleSteps(c) = c
  BY <1>1, NothingToSkip
<1>3. Len(c.nextRank) = Hops /\ c.recvStep = recv /\ c.sendStep = send /\ c.stepStu = stu
  BY Lists DEF Endpoint
<1>4. At(c, recv, send + 1, 0) = Endpoint(r, recv, send + 1, 0)
  BY DEF At, Endpoint
<1> HIDE DEF c
<1>5. SendStep(c) = IF stu = 1 /\ recv > send
                    THEN IF send + 1 <= Hops THEN Outcome(At(c, recv, send + 1, 0), 1, 0)
                         ELSE Outcome(At(c, recv, send + 1, 0), 0, 1)
                    ELSE Outcome(c, 0, 0)
  BY <1>1, <1>2, <1>3 DEF SendStep
<1> QED BY <1>4, <1>5 DEF Advanced, c

\* StartApplication sends step 1 at once.
LEMMA StartRing ==
    ASSUME op \in Ops, NEW r \in Rank
    PROVE  StartApplication(Endpoint(r, 0, 0, 1)) = Outcome(Endpoint(r, 1, 1, 0), 1, 0)
<1>1. Hops \in Nat /\ Hops >= 1
  BY HopsPositive
<1>2. At(Endpoint(r, 0, 0, 1), 1, 0, 1) = Endpoint(r, 1, 0, 1) /\ Endpoint(r, 0, 0, 1).stepStu = 1
  BY DEF At, Endpoint
<1>3. SendStep(Endpoint(r, 1, 0, 1)) = Advanced(r, 1, 0)
  BY <1>1, SendStepRing
<1>4. Advanced(r, 1, 0) = Outcome(Endpoint(r, 1, 1, 0), 1, 0)
  BY <1>1 DEF Advanced
<1> QED BY <1>2, <1>3, <1>4 DEF StartApplication

\* A receive lets an endpoint with no send running go on, and only counts otherwise.
LEMMA FinishRecvStepRing ==
    ASSUME op \in Ops, NEW r \in Rank,
           NEW recv \in 1..Hops, NEW send \in 0..Hops, NEW stu \in 0..1
    PROVE  FinishRecvStep(Endpoint(r, recv, send, stu)) =
             IF stu = 1 /\ recv + 1 > send THEN Advanced(r, recv + 1, send)
             ELSE Outcome(Endpoint(r, recv + 1, send, stu), 0, 0)
<1> DEFINE c == Endpoint(r, recv, send, stu)
<1>1. Hops \in Nat /\ Hops >= 1
  BY HopsPositive
<1>2. c.nextRank # << >>
  BY <1>1, Lists DEF Endpoint
<1>3. At(c, c.recvStep + 1, c.sendStep, c.stepStu) = Endpoint(r, recv + 1, send, stu)
  BY DEF At, Endpoint
<1>4. FinishRecvStep(c) = SendStep(Endpoint(r, recv + 1, send, stu))
  BY <1>2, <1>3 DEF FinishRecvStep
<1> HIDE DEF c
<1>5. recv + 1 \in 1..Hops+1
  BY <1>1
<1> QED BY <1>4, <1>5, SendStepRing DEF c

\* The end of a send lets an endpoint that has the next data go on.
LEMMA FinishSendRing ==
    ASSUME op \in Ops, NEW r \in Rank, NEW recv \in 1..Hops+1, NEW send \in 0..Hops
    PROVE  FinishSend(Endpoint(r, recv, send, 0)) =
             IF recv > send THEN Advanced(r, recv, send)
             ELSE Outcome(Endpoint(r, recv, send, 1), 0, 0)
<1> DEFINE c == Endpoint(r, recv, send, 0)
<1>1. At(c, c.recvStep, c.sendStep, 1) = Endpoint(r, recv, send, 1)
  BY DEF At, Endpoint
<1>2. FinishSend(c) = SendStep(Endpoint(r, recv, send, 1))
  BY <1>1 DEF FinishSend
<1> QED BY <1>2, SendStepRing

-----------------------------------------------------------------------------
(***************************************************************************)
(* The inductive invariant.                                                *)
(***************************************************************************)
Unstarted(r) == qp[r] = 0 /\ done[r] = 0 /\ cc[r] = Endpoint(r, 0, 0, 1)
Begun(r)     == qp[r] = 1 /\ done[r] = 0 /\ cc[r] = Endpoint(r, 1, 1, 0)

\* A queue pair carries the data of a step; receives may run ahead.
Sending(r) ==
    /\ qp[r] = 1 /\ done[r] = 0
    /\ \E send \in 1..Hops : \E recv \in send..Hops+1 : cc[r] = Endpoint(r, recv, send, 0)
\* The last send is over, the data for the next has not been received.
Waiting(r) ==
    /\ qp[r] = 0 /\ done[r] = 0
    /\ \E send \in 1..Hops : cc[r] = Endpoint(r, send, send, 1)
Finished(r) == qp[r] = 0 /\ done[r] = 1 /\ cc[r] = Endpoint(r, Hops + 1, Hops + 1, 0)

Linked == \A r \in Rank : cc[RingNext(r, N)].recvStep = cc[r].sendStep + cc[r].stepStu

IInv ==
    /\ op \in Ops
    /\ starting \subseteq Rank
    /\ cc = [r \in Rank |-> cc[r]]
    /\ qp \in [Rank -> 0..1]
    /\ done \in [Rank -> 0..1]
    /\ starting # {} => \A r \in Rank : IF r \in starting THEN Unstarted(r) ELSE Begun(r)
    /\ starting = {} => /\ \A r \in Rank : Sending(r) \/ Waiting(r) \/ Finished(r)
                        /\ Linked

\* The invariant holds when the collective begins.
LEMMA InitIInv ==
    ASSUME Algs = {1}, Init
    PROVE  IInv
<1>1. op \in Ops
  BY DEF Init
<1>2. Rank # {}
  BY CommSize DEF Rank
<1>3. \A r \in Rank : Unstarted(r)
  BY <1>1, ScheduleIsRing DEF Init, Unstarted
<1> QED BY <1>1, <1>2, <1>3 DEF Init, IInv

\* The endpoint of a rank with given counters is the same as long as op is.
LEMMA SameEndpoint ==
    ASSUME op' = op
    PROVE  /\ Hops' = Hops
           /\ Ops' = Ops
           /\ \A r, recv, send, stu : Endpoint(r, recv, send, stu)' = Endpoint(r, recv, send, stu)
<1>1. Hops' = Hops
  BY DEF Hops
<1> QED BY <1>1 DEF Endpoint, PrevList, NextList, Ops

\* Counters of an endpoint, read.
LEMMA Counters ==
    ASSUME NEW r, NEW recv, NEW send, NEW stu
    PROVE  /\ Endpoint(r, recv, send, stu).recvStep = recv
           /\ Endpoint(r, recv, send, stu).sendStep = send
           /\ Endpoint(r, recv, send, stu).stepStu = stu
           /\ Endpoint(r, recv, send, stu).nextRank = NextList(r)
BY DEF Endpoint

\* A StartApplication event preserves the invariant.
LEMMA StartIInv ==
    ASSUME Algs = {1}, IInv, NEW r \in Rank, Start(r)
    PROVE  IInv'
<1>1. Hops \in Nat /\ Hops >= 1
  BY HopsPositive DEF IInv
<1>2. op' = op /\ r \in starting /\ starting' = starting \ {r} /\ op \in Ops
  BY DEF Start, IInv
<1>3. Unstarted(r)
  BY <1>2 DEF IInv
<1>4. StartApplication(cc[r]) = Outcome(Endpoint(r, 1, 1, 0), 1, 0)
  BY <1>2, <1>3, StartRing DEF Unstarted
<1>5. /\ cc' = [cc EXCEPT ![r] = Endpoint(r, 1, 1, 0)]
      /\ qp' = [qp EXCEPT ![r] = @ + 1]
      /\ done' = [done EXCEPT ![r] = @ + 0]
  <2>1. PICK o \in {StartApplication(cc[r])} :
              /\ cc' = [cc EXCEPT ![r] = o.cc]
              /\ qp' = [qp EXCEPT ![r] = @ + o.send]
              /\ done' = [done EXCEPT ![r] = @ + o.done]
    BY DEF Start
  <2>2. o.cc = Endpoint(r, 1, 1, 0) /\ o.send = 1 /\ o.done = 0
    BY <1>4 DEF Outcome
  <2> QED BY <2>1, <2>2
<1>6. Begun(r)'
  BY <1>2, <1>3, <1>5, SameEndpoint DEF IInv, Begun, Unstarted
<1>7. ASSUME NEW q \in Rank, q # r
      PROVE  IF q \in starting' THEN Unstarted(q)' ELSE Begun(q)'
  BY <1>2, <1>5, <1>7, SameEndpoint DEF IInv, Begun, Unstarted
<1>8. /\ cc' = [q \in Rank |-> cc'[q]]
      /\ qp' \in [Rank -> 0..1]
      /\ done' \in [Rank -> 0..1]
  BY <1>3, <1>5 DEF IInv, Unstarted
<1>9. ASSUME starting' = {}
      PROVE  (\A q \in Rank : Sending(q)' \/ Waiting(q)' \/ Finished(q)') /\ Linked'
  <2>1. \A q \in Rank : Begun(q)'
    BY <1>2, <1>6, <1>7, <1>9
  <2>2. \A q \in Rank : Sending(q)'
    BY <1>1, <1>2, <2>1, SameEndpoint DEF Begun, Sending
  <2>3. \A q \in Rank : cc'[q].recvStep = 1 /\ cc'[q].sendStep = 1 /\ cc'[q].stepStu = 0
    BY <1>2, <2>1, SameEndpoint, Counters DEF Begun
  <2> QED BY <2>2, <2>3, NextRank DEF Linked
<1> QED BY <1>2, <1>6, <1>7, <1>8, <1>9, SameEndpoint DEF IInv

\* The lists and counters of every rank, whichever state it is in.
LEMMA Shape ==
    ASSUME IInv, NEW r \in Rank
    PROVE  /\ cc[r].prevRank = PrevList(r) /\ cc[r].nextRank = NextList(r)
           /\ cc[r].recvStep \in 0..Hops+1 /\ cc[r].sendStep \in 0..Hops+1
           /\ cc[r].stepStu \in 0..1
<1>1. Hops \in Nat /\ Hops >= 1
  BY HopsPositive DEF IInv
<1>2. \E recv, send \in 0..Hops+1 : \E stu \in 0..1 : cc[r] = Endpoint(r, recv, send, stu)
  <2>1. CASE starting # {}
    BY <1>1, <2>1 DEF IInv, Unstarted, Begun
  <2>2. CASE starting = {} /\ Sending(r)
    BY <1>1, <2>2 DEF Sending
  <2>3. CASE starting = {} /\ Waiting(r)
    BY <1>1, <2>3 DEF Waiting
  <2>4. CASE starting = {} /\ Finished(r)
    BY <1>1, <2>4 DEF Finished
  <2> QED BY <2>1, <2>2, <2>3, <2>4 DEF IInv
<1> QED BY <1>2 DEF Endpoint

Dest(r)     == SendTarget(cc[r])
Received1(r) == FinishRecvStep(cc[Dest(r)])
Sent1(r)     == FinishSend(cc[r])

\* The two ends of a finished queue pair: the destination, which is the
\* successor, counts a receive, and the sender goes on.
LEMMA QpFinishEffect ==
    ASSUME Algs = {1}, IInv, NEW r \in Rank, QpFinish(r)
    PROVE  /\ Sending(r)
           /\ Dest(r) = RingNext(r, N)
           /\ cc[Dest(r)].recvStep = cc[r].sendStep
           /\ cc' = [cc EXCEPT ![Dest(r)] = Received1(r).cc, ![r] = Sent1(r).cc]
           /\ qp' = [qp EXCEPT ![Dest(r)] = @ + Received1(r).send, ![r] = @ - 1 + Sent1(r).send]
           /\ done' = [done EXCEPT ![Dest(r)] = @ + Received1(r).done, ![r] = @ + Sent1(r).done]
<1> DEFINE to == SendTarget(cc[r])
<1>1. Hops \in Nat /\ Hops >= 1 /\ op \in Ops
  BY HopsPositive DEF IInv
<1>2. starting = {} /\ qp[r] > 0
  BY DEF QpFinish
<1>3. Sending(r)
  BY <1>2 DEF IInv, Waiting, Finished
<1>4. PICK k \in 1..Hops : \E recv \in k..Hops+1 : cc[r] = Endpoint(r, recv, k, 0)
  BY <1>3 DEF Sending
<1>5. PICK recv \in k..Hops+1 : cc[r] = Endpoint(r, recv, k, 0)
  BY <1>4
<1>6. to = RingNext(r, N)
  BY <1>1, <1>5, Counters, Lists DEF SendTarget
<1>7. cc[to].recvStep = cc[r].sendStep
  <2>1. cc[RingNext(r, N)].recvStep = cc[r].sendStep + cc[r].stepStu
    BY <1>2 DEF IInv, Linked
  <2>2. cc[r].sendStep = k /\ cc[r].stepStu = 0
    BY <1>5, Counters
  <2>3. cc[RingNext(r, N)].recvStep = cc[r].sendStep
    BY <1>1, <2>1, <2>2
  <2> QED BY <1>6, <2>3
<1>8. to \in Rank /\ to # r
  BY <1>6, NextRank
<1>9. PICK dst \in {FinishRecvStep(cc[to])} :
        \E mid \in {[cc EXCEPT ![to] = dst.cc]} :
        \E src \in {FinishSend(mid[r])} :
           /\ cc' = [mid EXCEPT ![r] = src.cc]
           /\ qp' = [qp EXCEPT ![to] = @ + dst.send, ![r] = @ - 1 + src.send]
           /\ done' = [done EXCEPT ![to] = @ + dst.done, ![r] = @ + src.done]
  BY DEF QpFinish
<1>10. PICK mid \in {[cc EXCEPT ![to] = dst.cc]} :
        \E src \in {FinishSend(mid[r])} :
           /\ cc' = [mid EXCEPT ![r] = src.cc]
           /\ qp' = [qp EXCEPT ![to] = @ + dst.send, ![r] = @ - 1 + src.send]
           /\ done' = [done EXCEPT ![to] = @ + dst.done, ![r] = @ + src.done]
  BY <1>9
<1>11. mid[r] = cc[r]
  BY <1>8, <1>10 DEF IInv
<1>12. PICK src \in {FinishSend(cc[r])} :
           /\ cc' = [mid EXCEPT ![r] = src.cc]
           /\ qp' = [qp EXCEPT ![to] = @ + dst.send, ![r] = @ - 1 + src.send]
           /\ done' = [done EXCEPT ![to] = @ + dst.done, ![r] = @ + src.done]
  BY <1>10, <1>11
<1>13. cc' = [cc EXCEPT ![to] = dst.cc, ![r] = src.cc]
  BY <1>10, <1>12
<1>14. dst = Received1(r) /\ src = Sent1(r)
  BY <1>9, <1>12 DEF Received1, Sent1, Dest
<1> QED BY <1>3, <1>6, <1>7, <1>12, <1>13, <1>14 DEF Dest

\* Seen from outside, it moves the data of step k from r, which has it, to
\* its successor, which has not.
Delivers(r) ==
    \E k \in 1..Hops :
       /\ k <= cc[r].recvStep
       /\ cc[RingNext(r, N)].recvStep = k
       /\ cc'[RingNext(r, N)].recvStep = k + 1
       /\ \A q \in Rank : q # RingNext(r, N) => cc'[q].recvStep = cc[q].recvStep
       /\ cc[r].sendStep = k
       /\ \A q \in Rank : cc'[q].sendStep >= cc[q].sendStep
       /\ \A q \in Rank : q \notin {r, RingNext(r, N)} =>
             done'[q] = done[q] /\ cc'[q].sendStep = cc[q].sendStep

\* A finished queue pair preserves the invariant and delivers one step.
LEMMA QpFinishStep ==
    ASSUME Algs = {1}, IInv, NEW r \in Rank, QpFinish(r)
    PROVE  IInv' /\ Delivers(r)
<1>a. PICK to \in Rank : to = Dest(r)
  BY QpFinishEffect, NextRank
<1>1. Hops \in Nat /\ Hops >= 1 /\ op \in Ops
  BY HopsPositive DEF IInv
<1>2. starting = {} /\ starting' = {} /\ op' = op
  BY DEF QpFinish
<1>3. /\ to = RingNext(r, N) /\ to # r
      /\ \A q \in Rank : RingNext(q, N) = to => q = r
  BY <1>a, QpFinishEffect, NextRank
<1>4. PICK k \in 1..Hops : \E recv \in k..Hops+1 : cc[r] = Endpoint(r, recv, k, 0)
  BY QpFinishEffect DEF Sending
<1>5. PICK recv \in k..Hops+1 : cc[r] = Endpoint(r, recv, k, 0)
  BY <1>4
<1>6. cc[r].sendStep = k /\ cc[to].recvStep = k /\ qp[r] = 1 /\ done[r] = 0
  BY <1>a, <1>5, Counters, QpFinishEffect DEF Sending
<1>7. /\ cc' = [q \in Rank |-> cc'[q]]
      /\ cc'[to] = Received1(r).cc /\ cc'[r] = Sent1(r).cc
      /\ qp'[to] = qp[to] + Received1(r).send /\ qp'[r] = qp[r] - 1 + Sent1(r).send
      /\ done'[to] = done[to] + Received1(r).done /\ done'[r] = done[r] + Sent1(r).done
      /\ DOMAIN qp' = Rank /\ DOMAIN done' = Rank
      /\ \A q \in Rank : q # r /\ q # to =>
            cc'[q] = cc[q] /\ qp'[q] = qp[q] /\ done'[q] = done[q]
  <2>1. Dest(r) \in Rank /\ Dest(r) # r
    BY <1>a, <1>3
  <2>2. /\ cc' = [q \in Rank |-> cc'[q]]
        /\ cc'[Dest(r)] = Received1(r).cc /\ cc'[r] = Sent1(r).cc
        /\ \A q \in Rank : q # r /\ q # Dest(r) => cc'[q] = cc[q]
    BY <2>1, QpFinishEffect DEF IInv
  <2>3. /\ qp'[Dest(r)] = qp[Dest(r)] + Received1(r).send /\ qp'[r] = qp[r] - 1 + Sent1(r).send
        /\ DOMAIN qp' = Rank
        /\ \A q \in Rank : q # r /\ q # Dest(r) => qp'[q] = qp[q]
    BY <2>1, QpFinishEffect DEF IInv
  <2>4. /\ done'[Dest(r)] = done[Dest(r)] + Received1(r).done /\ done'[r] = done[r] + Sent1(r).done
        /\ DOMAIN done' = Rank
        /\ \A q \in Rank : q # r /\ q # Dest(r) => done'[q] = done[q]
    BY <2>1, QpFinishEffect DEF IInv
  <2> QED BY <1>a, <2>2, <2>3, <2>4
\* The sender: one send further, with or without a new queue pair, or waiting.
<1>8. /\ Sending(r)' \/ Waiting(r)' \/ Finished(r)'
      /\ cc'[r].sendStep >= k
      /\ cc'[r].recvStep = recv
      /\ cc'[r].sendStep + cc'[r].stepStu = k + 1
  <2>1. Sent1(r) = IF recv > k THEN Advanced(r, recv, k) ELSE Outcome(Endpoint(r, recv, k, 1), 0, 0)
    BY <1>1, <1>5, FinishSendRing DEF Sent1
  <2>2. CASE recv > k /\ k < Hops
    <3>1. Sent1(r) = Outcome(Endpoint(r, recv, k + 1, 0), 1, 0)
      BY <1>1, <2>1, <2>2 DEF Advanced
    <3>2. cc'[r] = Endpoint(r, recv, k + 1, 0) /\ qp'[r] = 1 /\ done'[r] = 0
      BY <1>6, <1>7, <3>1 DEF Outcome
    <3>3. k + 1 \in 1..Hops /\ recv \in k+1..Hops+1
      BY <1>1, <2>2
    <3> QED BY <1>2, <3>2, <3>3, SameEndpoint, Counters DEF Sending
  <2>3. CASE recv > k /\ k = Hops
    <3>1. Sent1(r) = Outcome(Endpoint(r, Hops + 1, Hops + 1, 0), 0, 1)
      BY <1>1, <2>1, <2>3 DEF Advanced
    <3>2. cc'[r] = Endpoint(r, Hops + 1, Hops + 1, 0) /\ qp'[r] = 0 /\ done'[r] = 1
      BY <1>6, <1>7, <3>1 DEF Outcome
    <3> QED BY <1>1, <1>2, <2>3, <3>2, SameEndpoint, Counters DEF Finished
  <2>4. CASE recv = k
    <3>1. Sent1(r) = Outcome(Endpoint(r, k, k, 1), 0, 0)
      BY <1>1, <2>1, <2>4
    <3>2. cc'[r] = Endpoint(r, k, k, 1) /\ qp'[r] = 0 /\ done'[r] = 0
      BY <1>6, <1>7, <3>1 DEF Outcome
    <3> QED BY <1>2, <2>4, <3>2, SameEndpoint, Counters DEF Waiting
  <2> QED BY <1>1, <2>2, <2>3, <2>4
\* The destination: it starts its next send if it was waiting for this step.
<1>9. /\ Sending(to)' \/ Waiting(to)' \/ Finished(to)'
      /\ cc'[to].sendStep >= cc[to].sendStep
      /\ cc'[to].recvStep = k + 1
      /\ cc'[to].sendStep + cc'[to].stepStu = cc[to].sendStep + cc[to].stepStu
  <2>1. CASE Sending(to)
    <3>1. PICK s \in 1..Hops : \E v \in s..Hops+1 : cc[to] = Endpoint(to, v, s, 0)
      BY <2>1 DEF Sending
    <3>2. PICK v \in s..Hops+1 : cc[to] = Endpoint(to, v, s, 0)
      BY <3>1
    <3>3. v = k
      BY <1>6, <3>2, Counters
    <3>4. Received1(r) = Outcome(Endpoint(to, k + 1, s, 0), 0, 0)
      BY <1>1, <1>3, <3>2, <3>3, <1>a, FinishRecvStepRing DEF Received1
    <3>5. cc'[to] = Endpoint(to, k + 1, s, 0) /\ qp'[to] = 1 /\ done'[to] = 0
      BY <1>7, <2>1, <3>4 DEF Outcome, Sending
    <3>6. k + 1 \in s..Hops+1
      BY <1>1, <3>3
    <3> QED BY <1>2, <3>2, <3>5, <3>6, SameEndpoint, Counters DEF Sending
  <2>2. CASE Waiting(to)
    <3>1. PICK s \in 1..Hops : cc[to] = Endpoint(to, s, s, 1)
      BY <2>2 DEF Waiting
    <3>2. s = k
      BY <1>6, <3>1, Counters
    <3>3. Received1(r) = Advanced(to, k + 1, k)
      BY <1>1, <1>3, <3>1, <3>2, <1>a, FinishRecvStepRing DEF Received1
    <3>4. CASE k < Hops
      <4>1. Received1(r) = Outcome(Endpoint(to, k + 1, k + 1, 0), 1, 0)
        BY <1>1, <3>3, <3>4 DEF Advanced
      <4>2. cc'[to] = Endpoint(to, k + 1, k + 1, 0) /\ qp'[to] = 1 /\ done'[to] = 0
        BY <1>7, <2>2, <4>1 DEF Outcome, Waiting
      <4>3. k + 1 \in 1..Hops /\ k + 1 \in k+1..Hops+1
        BY <1>1, <3>4
      <4> QED BY <1>2, <3>1, <3>2, <4>2, <4>3, SameEndpoint, Counters DEF Sending
    <3>5. CASE k = Hops
      <4>1. Received1(r) = Outcome(Endpoint(to, Hops + 1, Hops + 1, 0), 0, 1)
        BY <1>1, <3>3, <3>5 DEF Advanced
      <4>2. cc'[to] = Endpoint(to, Hops + 1, Hops + 1, 0) /\ qp'[to] = 0 /\ done'[to] = 1
        BY <1>7, <2>2, <4>1 DEF Outcome, Waiting
      <4> QED BY <1>2, <3>1, <3>2, <3>5, <4>2, SameEndpoint, Counters DEF Finished
    <3> QED BY <1>1, <3>4, <3>5
  <2>3. CASE Finished(to)
    <3>1. cc[to].recvStep = Hops + 1
      BY <2>3, Counters DEF Finished
    <3> QED BY <1>1, <1>6, <3>1
  <2> QED BY <1>2, <1>3, <2>1, <2>2, <2>3 DEF IInv
<1>10. ASSUME NEW q \in Rank, q # r, q # to
       PROVE  Sending(q)' \/ Waiting(q)' \/ Finished(q)'
  <2>1. Sending(q) \/ Waiting(q) \/ Finished(q)
    BY <1>2 DEF IInv
  <2>2. cc'[q] = cc[q] /\ qp'[q] = qp[q] /\ done'[q] = done[q]
    BY <1>7, <1>10
  <2> QED BY <1>2, <2>1, <2>2, SameEndpoint DEF Sending, Waiting, Finished
<1>11. \A q \in Rank : Sending(q)' \/ Waiting(q)' \/ Finished(q)'
  BY <1>8, <1>9, <1>10
<1>12. qp' \in [Rank -> 0..1] /\ done' \in [Rank -> 0..1]
  <2>1. \A q \in Rank : qp'[q] \in 0..1 /\ done'[q] \in 0..1
    BY <1>11 DEF Sending, Waiting, Finished
  <2>2. qp' = [q \in Rank |-> qp'[q]] /\ done' = [q \in Rank |-> done'[q]]
    BY QpFinishEffect DEF IInv
  <2> QED BY <2>1, <2>2
<1>13. Linked'
  <2> SUFFICES ASSUME NEW q \in Rank
               PROVE  cc'[RingNext(q, N)].recvStep = cc'[q].sendStep + cc'[q].stepStu
    BY DEF Linked
  <2>1. CASE q = r
    BY <1>3, <1>8, <1>9, <2>1
  <2>2. CASE q # r
    <3>1. RingNext(q, N) # to /\ RingNext(q, N) \in Rank
      BY <1>3, <2>2, NextRank
    <3>2. cc'[RingNext(q, N)].recvStep = cc[RingNext(q, N)].recvStep
      BY <1>5, <1>7, <1>8, <3>1, Counters
    <3>3. cc'[q].sendStep + cc'[q].stepStu = cc[q].sendStep + cc[q].stepStu
      BY <1>7, <1>9, <2>2
    <3>4. cc[RingNext(q, N)].recvStep = cc[q].sendStep + cc[q].stepStu
      BY <1>2 DEF IInv, Linked
    <3> QED BY <3>2, <3>3, <3>4
  <2> QED BY <2>1, <2>2
<1>14. Delivers(r)
  <2>1. k <= cc[r].recvStep /\ cc'[r].recvStep = cc[r].recvStep
    BY <1>5, <1>8, Counters
  <2>2. \A q \in Rank : cc[q].sendStep \in Int
    BY <1>1, Shape
  <2>3. \A q \in Rank : cc'[q].sendStep >= cc[q].sendStep
    BY <1>6, <1>7, <1>8, <1>9, <2>2
  <2> QED BY <1>3, <1>6, <1>7, <1>9, <2>1, <2>3 DEF Delivers
<1> QED BY <1>1, <1>2, <1>7, <1>11, <1>12, <1>13, <1>14, SameEndpoint DEF IInv

\* The inductive invariant, for any number of ranks.
THEOREM Invariance == Algs = {1} /\ Spec => []IInv
<1> SUFFICES ASSUME Algs = {1} PROVE Spec => []IInv
  OBVIOUS
<1>1. Init => IInv
  BY InitIInv
<1>2. IInv /\ [Next]_vars => IInv'
  <2> SUFFICES ASSUME IInv, [Next]_vars PROVE IInv'
    OBVIOUS
  <2>1. CASE Next
    BY <2>1, StartIInv, QpFinishStep DEF Next
  <2>2. CASE UNCHANGED vars
    BY <2>2 DEF vars, IInv, Unstarted, Begun, Sending, Waiting, Finished, Linked,
       Endpoint, PrevList, NextList, Hops, Ops
  <2> QED BY <2>1, <2>2
<1> QED BY <1>1, <1>2, PTL DEF Spec

-----------------------------------------------------------------------------
(***************************************************************************)
(* What follows from it.                                                   *)
(***************************************************************************)
\* The steps of the operation, read off the schedule of rank 0.
LEMMA StepsIsHops ==
    ASSUME IInv
    PROVE  Steps = Hops
<1>1. 0 \in Rank
  BY CommSize DEF Rank
<1> QED BY <1>1, Shape, Lists DEF Steps, IInv

\* The shape of the state: one queue pair and one completion callback at most.
THEOREM TypeCorrect == Algs = {1} /\ Spec => []TypeOK
<1> SUFFICES ASSUME Algs = {1} PROVE Spec => []TypeOK
  OBVIOUS
<1>1. IInv => TypeOK
  <2> SUFFICES ASSUME IInv PROVE TypeOK
    OBVIOUS
  <2>1. ASSUME NEW r \in Rank
        PROVE  Schedule(r).prevRank = PrevList(r) /\ Schedule(r).nextRank = NextList(r)
    BY ScheduleIsRing DEF IInv, Endpoint
  <2> QED BY <2>1, Shape, StepsIsHops DEF TypeOK, IInv
<1> QED BY <1>1, Invariance, PTL

\* The untagged receive counter of a rank is what its predecessor has sent.
THEOREM ReceivesMatch == Algs = {1} /\ Spec => []ReceivesMatchSends
<1> SUFFICES ASSUME Algs = {1} PROVE Spec => []ReceivesMatchSends
  OBVIOUS
<1>1. IInv => ReceivesMatchSends
  BY DEF IInv, Linked, ReceivesMatchSends
<1> QED BY <1>1, Invariance, PTL

\* A rank whose completion callback was called has received every step.
THEOREM CompletionSafe == Algs = {1} /\ Spec => []CompletionMeansFinished
<1> SUFFICES ASSUME Algs = {1} PROVE Spec => []CompletionMeansFinished
  OBVIOUS
<1>1. IInv => CompletionMeansFinished
  <2> SUFFICES ASSUME IInv, NEW r \in Rank, done[r] > 0
               PROVE  cc[r].recvStep = Steps + 1 /\ qp[r] = 0
    BY DEF CompletionMeansFinished
  <2>1. starting = {}
    BY DEF IInv, Unstarted, Begun
  <2>2. Finished(r)
    BY <2>1 DEF IInv, Sending, Waiting
  <2> QED BY <2>2, Counters, StepsIsHops DEF Finished
<1> QED BY <1>1, Invariance, PTL

\* The queue pair that finishes always has a destination in the communicator.
THEOREM TargetSafe == Algs = {1} /\ Spec => []SendTargetValid
<1> SUFFICES ASSUME Algs = {1} PROVE Spec => []SendTargetValid
  OBVIOUS
<1>1. IInv => SendTargetValid
  <2> SUFFICES ASSUME IInv, NEW r \in Rank, qp[r] > 0 PROVE SendTarget(cc[r]) \in Rank
    BY DEF SendTargetValid
  <2>1. Hops \in Nat /\ Hops >= 1 /\ op \in Ops
    BY HopsPositive DEF IInv
  <2>2. cc[r].sendStep \in 1..Hops
    <3>1. CASE starting # {}
      BY <2>1, <3>1, Counters DEF IInv, Unstarted, Begun
    <3>2. CASE starting = {}
      BY <2>1, <3>2, Counters DEF IInv, Sending, Waiting, Finished
    <3> QED BY <3>1, <3>2
  <2> QED BY <2>1, <2>2, Shape, Lists, NextRank DEF SendTarget
<1> QED BY <1>1, Invariance, PTL

-----------------------------------------------------------------------------
(***************************************************************************)
(* Skew.  A rank is at most as many sends ahead of another as there are    *)
(* links between them; the step r -> RingNext(r) bounds one link, and the  *)
(* invariant over all pairs carries the bound around the ring.             *)
(***************************************************************************)
Dist(q, p) == IF q <= p THEN p - q ELSE p - q + N

Skew == starting = {} =>
           \A p, q \in Rank : cc[p].sendStep - cc[q].sendStep <= Dist(q, p)

\* No rank has begun a send whose data it has not received.
Ordered == starting = {} =>
              \A r \in Rank : cc[r].sendStep \in Int /\ cc[r].sendStep <= cc[r].recvStep

\* IInv implies it.
LEMMA IInvOrdered == IInv => Ordered
<1> SUFFICES ASSUME IInv, starting = {}, NEW r \in Rank
             PROVE  cc[r].sendStep \in Int /\ cc[r].sendStep <= cc[r].recvStep
  BY DEF Ordered
<1>1. Hops \in Nat /\ Hops >= 1
  BY HopsPositive DEF IInv
<1>2. CASE Sending(r)
  BY <1>1, <1>2, Counters DEF Sending
<1>3. CASE Waiting(r)
  BY <1>1, <1>3, Counters DEF Waiting
<1>4. CASE Finished(r)
  BY <1>1, <1>4, Counters DEF Finished
<1> QED BY <1>2, <1>3, <1>4 DEF IInv

\* Every rank has a predecessor, one link nearer to any other rank.
LEMMA Pred ==
    ASSUME NEW p \in Rank
    PROVE  \E x \in Rank : /\ p = RingNext(x, N)
                           /\ \A q \in Rank : q # p => Dist(q, p) = Dist(q, x) + 1
<1> DEFINE x == IF p = 0 THEN N - 1 ELSE p - 1
<1>1. x \in Rank /\ p = RingNext(x, N)
  BY RingNextIs, CommSize DEF Rank
<1>2. \A q \in Rank : q # p => Dist(q, p) = Dist(q, x) + 1
  BY CommSize DEF Rank, Dist
<1> QED BY <1>1, <1>2

\* When the last rank starts, every rank is at its first send.
LEMMA SkewStart ==
    ASSUME Algs = {1}, IInv, NEW r \in Rank, Start(r), starting' = {}
    PROVE  Skew'
<1>1. op' = op /\ starting' = starting \ {r} /\ r \in starting /\ op \in Ops
  BY DEF Start, IInv
<1>2. PICK o \in {StartApplication(cc[r])} : cc' = [cc EXCEPT ![r] = o.cc]
  BY DEF Start
<1>3. o.cc = Endpoint(r, 1, 1, 0)
  BY <1>1, <1>2, StartRing DEF Outcome, IInv, Unstarted
<1>4. \A q \in Rank : cc'[q].sendStep = 1
  BY <1>1, <1>2, <1>3, Counters DEF IInv, Begun
<1>5. \A p, q \in Rank : Dist(q, p) >= 0
  BY CommSize DEF Rank, Dist
<1> QED BY <1>4, <1>5 DEF Skew

\* Only the two ends of a finished queue pair can begin a send, and each is
\* then at most one send ahead of its predecessor.
LEMMA SkewQpFinish ==
    ASSUME Algs = {1}, IInv, IInv', Ordered', Skew, NEW r \in Rank, QpFinish(r)
    PROVE  Skew'
<1>1. starting = {} /\ starting' = {} /\ op' = op
  BY DEF QpFinish
<1>2. PICK to \in Rank : to = RingNext(r, N)
  BY NextRank
<1>3. /\ cc'[to].recvStep = cc[r].sendStep + 1
      /\ cc'[r].recvStep = cc[r].recvStep
      /\ \A q \in Rank : cc'[q].sendStep >= cc[q].sendStep
      /\ \A q \in Rank : q \notin {r, to} => cc'[q].sendStep = cc[q].sendStep
  BY <1>2, QpFinishStep, NextRank DEF Delivers
<1>4. \A q \in Rank : cc[q].sendStep \in Int /\ cc[q].stepStu \in 0..1
  BY Shape, HopsPositive DEF IInv
<1>5. \A q \in Rank : cc'[q].sendStep \in Int /\ cc'[q].sendStep <= cc'[q].recvStep
  BY <1>1 DEF Ordered
<1> SUFFICES ASSUME NEW p \in Rank, NEW q \in Rank
             PROVE  cc'[p].sendStep - cc'[q].sendStep <= Dist(q, p)
  BY DEF Skew
<1>6. PICK x \in Rank : p = RingNext(x, N) /\ (q # p => Dist(q, p) = Dist(q, x) + 1)
  BY Pred
<1>7. /\ cc[p].sendStep - cc[q].sendStep <= Dist(q, p)
      /\ cc[x].sendStep - cc[q].sendStep <= Dist(q, x)
      /\ Dist(q, p) \in Int /\ Dist(q, x) \in Int /\ Dist(p, p) = 0
  BY <1>1, CommSize DEF Skew, Dist, Rank
<1>8. CASE p \in {r, to} /\ q # p
  <2>1. cc'[p].sendStep <= cc'[p].recvStep
    BY <1>5
  <2>2. cc'[p].recvStep <= cc[x].sendStep + 1
    <3>1. CASE p = to
      <4>1. x = r
        BY <1>2, <1>6, <3>1, NextRank
      <4> QED BY <1>3, <1>4, <3>1, <4>1
    <3>2. CASE p = r
      <4>1. cc[p].recvStep = cc[x].sendStep + cc[x].stepStu
        BY <1>1, <1>6 DEF IInv, Linked
      <4>2. cc[x].sendStep + cc[x].stepStu <= cc[x].sendStep + 1
        BY <1>4
      <4>3. cc'[p].recvStep = cc[x].sendStep + cc[x].stepStu
        BY <1>3, <3>2, <4>1
      <4> QED BY <4>2, <4>3
    <3> QED BY <1>8, <3>1, <3>2
  <2>3. cc'[p].recvStep \in Int
    <3>1. CASE p = to
      BY <1>3, <1>4, <3>1
    <3>2. CASE p = r
      BY <1>3, <3>2, Shape, HopsPositive DEF IInv
    <3> QED BY <1>8, <3>1, <3>2
  <2>4. cc'[p].sendStep <= cc[x].sendStep + 1
    BY <1>4, <1>5, <2>1, <2>2, <2>3
  <2>5. cc'[q].sendStep >= cc[q].sendStep /\ Dist(q, p) = Dist(q, x) + 1
    BY <1>3, <1>6, <1>8
  <2> QED BY <1>4, <1>5, <1>7, <2>4, <2>5
<1>9. CASE p \notin {r, to}
  <2>1. cc'[p].sendStep = cc[p].sendStep /\ cc'[q].sendStep >= cc[q].sendStep
    BY <1>3, <1>9
  <2> QED BY <1>4, <1>5, <1>7, <2>1
<1>10. CASE q = p
  BY <1>5, <1>7, <1>10
<1> QED BY <1>8, <1>9, <1>10

\* However slow one queue pair is, no rank gets a whole turn of the ring
\* ahead of another: SendStep's test recvStep > sendStep, around the ring.
THEOREM SkewBound == Algs = {1} /\ Spec => []BoundedSkew
<1> SUFFICES ASSUME Algs = {1} PROVE Spec => []BoundedSkew
  OBVIOUS
<1>1. Init => Skew
  <2> SUFFICES ASSUME Init PROVE starting # {}
    BY DEF Skew
  <2>1. 0 \in Rank
    BY CommSize DEF Rank
  <2> QED BY <2>1 DEF Init
<1>2. IInv => Ordered
  BY IInvOrdered
<1>3. IInv /\ IInv' /\ Ordered' /\ Skew /\ [Next]_vars => Skew'
  <2> SUFFICES ASSUME IInv, IInv', Ordered', Skew, [Next]_vars PROVE Skew'
    OBVIOUS
  <2>1. ASSUME NEW r \in Rank, Start(r) PROVE Skew'
    <3>1. CASE starting' = {}
      BY <2>1, <3>1, SkewStart
    <3>2. CASE starting' # {}
      BY <3>2 DEF Skew
    <3> QED BY <3>1, <3>2
  <2>2. ASSUME NEW r \in Rank, QpFinish(r) PROVE Skew'
    BY <2>2, SkewQpFinish
  <2>3. CASE UNCHANGED vars
    BY <2>3 DEF vars, Skew
  <2> QED BY <2>1, <2>2, <2>3 DEF Next
<1>4. IInv /\ Skew => BoundedSkew
  <2> SUFFICES ASSUME IInv, Skew, starting = {}, NEW p \in Rank, NEW q \in Rank
               PROVE  cc[p].sendStep - cc[q].sendStep <= N - 1
    BY DEF BoundedSkew
  <2>1. cc[p].sendStep - cc[q].sendStep <= Dist(q, p)
    BY DEF Skew
  <2>2. Dist(q, p) \in Int /\ Dist(q, p) <= N - 1
    BY CommSize DEF Dist, Rank
  <2>3. cc[p].sendStep \in Int /\ cc[q].sendStep \in Int
    BY Shape, HopsPositive DEF IInv
  <2> QED BY <2>1, <2>2, <2>3, CommSize
<1> QED BY <1>1, <1>2, <1>3, <1>4, Invariance, PTL DEF Spec

-----------------------------------------------------------------------------
(***************************************************************************)
(* A ring collective implements RingPass: a finished queue pair is one     *)
(* Pass, a Start is a stuttering step.                                     *)
(***************************************************************************)
Holds   == [r \in Rank |-> Received(r)]

\* The mapped state of RingPass, with what the invariant says of it.
MappedState ==
    /\ Steps = Hops
    /\ [r \in Rank |-> IF op.alg = 1 THEN Received(r) ELSE {0}] = Holds
    /\ [r \in Rank |-> IF op.alg = 1 THEN done[r] ELSE 0] = done
    /\ \A r \in Rank : done[r] \in 0..1 /\ (done[r] = 1 => cc[r].recvStep = Hops + 1)

\* The refinement mapping on a state of the invariant.
LEMMA Mapped == Algs = {1} /\ IInv => MappedState
<1> SUFFICES ASSUME Algs = {1}, IInv PROVE MappedState
  OBVIOUS
<1>1. op.alg = 1
  BY DEF IInv, Ops
<1>2. ASSUME NEW r \in Rank, done[r] = 1 PROVE cc[r].recvStep = Hops + 1
  <2>1. Finished(r)
    BY <1>2 DEF IInv, Unstarted, Begun, Sending, Waiting
  <2> QED BY <2>1, Counters DEF Finished
<1> QED BY <1>1, <1>2, StepsIsHops DEF IInv, Holds, MappedState

\* Initial states map to initial states.
LEMMA InitMapped ==
    ASSUME Algs = {1}, Init
    PROVE  Flow!Init
<1>1. IInv /\ \A r \in Rank : Unstarted(r)
  <2>1. op \in Ops
    BY DEF Init
  <2> QED BY <2>1, InitIInv, ScheduleIsRing DEF Init, Unstarted
<1>2. Hops \in Nat
  BY <1>1, HopsPositive DEF IInv
<1>3. \A r \in Rank : Received(r) = {0}
  BY <1>1, Counters DEF Unstarted, Received
<1> QED BY <1>1, <1>2, <1>3, Mapped DEF Flow!Init, Flow!Rank, Rank, Holds, Init, MappedState

\* A StartApplication event maps to a stuttering step.
LEMMA StartMapped ==
    ASSUME MappedState, MappedState', IInv, NEW r \in Rank, Algs = {1}, Start(r)
    PROVE  UNCHANGED Flow!vars
<1>1. op' = op /\ Hops' = Hops /\ r \in starting
  BY SameEndpoint DEF Start
<1>2. Unstarted(r) /\ op \in Ops
  BY <1>1 DEF IInv
<1>3. PICK o \in {StartApplication(cc[r])} :
        cc' = [cc EXCEPT ![r] = o.cc] /\ done' = [done EXCEPT ![r] = @ + o.done]
  BY DEF Start
<1>4. o.cc = Endpoint(r, 1, 1, 0) /\ o.done = 0
  BY <1>2, <1>3, StartRing DEF Outcome, Unstarted
<1>5. done' = done
  BY <1>2, <1>3, <1>4 DEF IInv, Unstarted
<1>6. ASSUME NEW q \in Rank PROVE Received(q)' = Received(q)
  <2>1. CASE q # r
    BY <1>3, <2>1 DEF Received, IInv
  <2>2. CASE q = r
    <3>1. cc[r].recvStep = 0 /\ cc'[r].recvStep = 1
      BY <1>2, <1>3, <1>4, Counters DEF Unstarted, IInv
    <3> QED BY <2>2, <3>1 DEF Received
  <2> QED BY <2>1, <2>2
<1>7. Holds' = Holds
  BY <1>6 DEF Holds
<1> QED BY <1>1, <1>5, <1>7 DEF Flow!vars, MappedState

\* A finished queue pair maps to a Pass of the abstract ring.
LEMMA QpFinishMapped ==
    ASSUME MappedState, MappedState', IInv, NEW r \in Rank, Algs = {1}, QpFinish(r)
    PROVE  Flow!Pass(r)
<1>1. op' = op /\ Hops' = Hops /\ Hops \in Nat /\ Hops >= 1
  BY SameEndpoint, HopsPositive DEF QpFinish, IInv
<1>2. PICK to \in Rank : to = RingNext(r, N) /\ to # r
  BY NextRank
<1>3. to = Flow!Succ(r) /\ Flow!Rank = Rank
  BY <1>2, RingNextIs, CommSize DEF Flow!Succ, Flow!Rank, Rank
<1>4. PICK k \in 1..Hops :
        /\ k <= cc[r].recvStep
        /\ cc[to].recvStep = k
        /\ cc'[to].recvStep = k + 1
        /\ \A q \in Rank : q # to => cc'[q].recvStep = cc[q].recvStep
        /\ \A q \in Rank : q \notin {r, to} => done'[q] = done[q]
  BY <1>2, QpFinishStep DEF Delivers
<1>5. cc[r].recvStep \in Nat
  BY <1>1, Shape
<1>6. Received(to) = 0..k-1 /\ Received(to)' = 0..k /\ k - 1 \in Received(r)
  BY <1>4, <1>5 DEF Received
<1>7. \A q \in Rank : q # to => Received(q)' = Received(q)
  BY <1>4 DEF Received
<1>8. Holds' = [Holds EXCEPT ![to] = @ \cup {k - 1 + 1}]
  <2>1. Received(to)' = Received(to) \cup {k - 1 + 1}
    BY <1>6
  <2> QED BY <1>7, <2>1 DEF Holds
<1>9. ASSUME NEW q \in Rank
      PROVE  done'[q] \in 0..1 /\ done[q] \in 0..1 /\ (done'[q] = 1 => 0..Hops \subseteq Holds'[q])
  <2>1. done'[q] = 1 => cc'[q].recvStep = Hops + 1
    BY <1>1 DEF MappedState
  <2>2. cc'[q].recvStep = Hops + 1 => Received(q)' = {0} \cup 0..Hops
    BY <1>1 DEF Received
  <2> QED BY <2>1, <2>2 DEF Holds, MappedState
<1>10. done[r] = 0 /\ done[to] = 0
  <2>1. done[r] = 0
    BY QpFinishEffect DEF Sending
  <2>2. cc[to].recvStep # Hops + 1
    BY <1>1, <1>4
  <2> QED BY <2>1, <2>2 DEF MappedState
<1>11. \E i \in 0..Hops :
          /\ i \in Holds[r]
          /\ i + 1 \in (0..Hops) \ Holds[to]
          /\ Holds' = [Holds EXCEPT ![to] = @ \cup {i + 1}]
  <2>1. k - 1 \in 0..Hops /\ k - 1 + 1 \in (0..Hops) \ Holds[to] /\ k - 1 \in Holds[r]
    BY <1>1, <1>6 DEF Holds
  <2> QED BY <1>8, <2>1
<1>12. \A q \in Rank : IF q \in {r, to}
                       THEN \/ done'[q] = done[q]
                            \/ done[q] = 0 /\ done'[q] = 1 /\ 0..Hops \subseteq Holds'[q]
                       ELSE done'[q] = done[q]
  BY <1>4, <1>9, <1>10
<1> QED BY <1>1, <1>3, <1>11, <1>12 DEF Flow!Pass, Flow!Item, Flow!Report, MappedState

\* The completion callback, the receives and the sends of the code together
\* behave like the abstract ring.
THEOREM RingRefinement == Algs = {1} /\ Spec => ImplementsRingPass
<1> SUFFICES ASSUME Algs = {1} PROVE Spec => ImplementsRingPass
  OBVIOUS
<1>1. Init => Flow!Init
  BY InitMapped
<1>2. IInv => MappedState
  BY Mapped
<1>3. IInv /\ MappedState /\ MappedState' /\ [Next]_vars => [Flow!Next]_(Flow!vars)
  <2> SUFFICES ASSUME IInv, MappedState, MappedState', [Next]_vars
               PROVE  Flow!Next \/ UNCHANGED Flow!vars
    OBVIOUS
  <2>1. ASSUME NEW r \in Rank, Start(r) PROVE UNCHANGED Flow!vars
    BY <2>1, StartMapped
  <2>2. ASSUME NEW r \in Rank, QpFinish(r) PROVE Flow!Next
    BY <2>2, QpFinishMapped DEF Flow!Next, Flow!Rank, Rank
  <2>3. CASE UNCHANGED vars
    BY <2>3 DEF vars, Flow!vars, Steps, Received
  <2> QED BY <2>1, <2>2, <2>3 DEF Next
<1> QED BY <1>1, <1>2, <1>3, Invariance, PTL DEF Spec, Flow!Spec, ImplementsRingPass
=============================================================================
