------------------------------- MODULE RdmaCC -------------------------------
(***************************************************************************)
(* The RdmaCC object of src/applications/model/rdma-cc.cc: one endpoint of *)
(* a collective among the ranks 0..n-1 of a communicator.  An endpoint is  *)
(* a record; its methods are operators from an endpoint to what the method *)
(* leaves behind.  Message sizes are left out: no branch reads them.       *)
(***************************************************************************)
EXTENDS Integers, Sequences

None == -1   \* the -1 of m_prevRank and m_nextRank: nothing to do in this step

(***************************************************************************)
(* Reset(): the object between two collectives.  stepStu is 1 when no send *)
(* is running (the comment of m_stepStu: 0 running, 1 finish).             *)
(***************************************************************************)
Reset == [prevRank |-> << >>, nextRank |-> << >>,
          recvStep |-> 0, sendStep |-> 0, stepStu |-> 1]

(***************************************************************************)
(* The schedules.  Allgather and ReduceScatter run n-1 ring steps,         *)
(* Allreduce (algorithm 1) twice as many; every step receives from the     *)
(* predecessor and sends to the successor.                                 *)
(***************************************************************************)
RingPrev(r, n) == (r - 1 + n) % n
RingNextUnwrapped(r, n) == r + 1   \* faulty: no wrap at the last rank
RingNext(r, n) == (r + 1) % n

Ring(r, n, len) ==
    [prevRank |-> [i \in 1..len |-> RingPrev(r, n)],
     nextRank |-> [i \in 1..len |-> RingNext(r, n)],
     recvStep |-> 0, sendStep |-> 0, stepStu |-> 1]

Allgather(r, n)     == Ring(r, n, n - 1)
ReduceScatter(r, n) == Ring(r, n, n - 1)
RingAllreduce(r, n) == Ring(r, n, 2 * (n - 1))

(***************************************************************************)
(* Allreduce, algorithm 2: halving and doubling among Pow(n) ranks, with   *)
(* an exchange before and after it for the n - Pow(n) ranks too many.      *)
(***************************************************************************)
Pow(n) == CHOOSE p \in {2 ^ k : k \in 0..n} : p <= n /\ n < 2 * p
Rest(n) == n - Pow(n)
Xor1(r) == IF r % 2 = 0 THEN r + 1 ELSE r - 1

MapRank(i, n) ==   \* mapRank: "index rank; value newRank"
    IF i < 2 * Rest(n)
    THEN IF i % 2 = 0 THEN i \div 2 ELSE (i \div 2) + Pow(n)
    ELSE i

RMapRank(j, n) ==  \* rmapRank: the last i written at j, 0 where none is
    LET writers == {i \in 0..n-1 : MapRank(i, n) = j}
    IN  IF writers = {} THEN 0
        ELSE CHOOSE i \in writers : \A k \in writers : k <= i

\* The partner of rank r at distance 2^b, or None for a rank left out.
Partner(r, n, b) ==
    LET m == MapRank(r, n)
    IN  IF m >= Pow(n) THEN None
        ELSE IF (m \div 2^b) % 2 = 0 THEN RMapRank(m + 2^b, n)
        ELSE RMapRank(m - 2^b, n)

HalvingDoubling(r, n) ==
    LET bits    == CHOOSE k \in 0..n : 2^k = Pow(n)
        down    == [k \in 1..2*bits |->
                      Partner(r, n, IF k <= bits THEN k - 1 ELSE 2*bits - k)]
        x       == Xor1(r)
        before(odd, even) ==
            IF Rest(n) = 0 THEN << >>
            ELSE IF r >= 2 * Rest(n) THEN <<None, None>>
            ELSE IF r % 2 = 1 THEN odd ELSE even
        after(odd, even) ==
            IF Rest(n) = 0 THEN << >>
            ELSE IF r >= 2 * Rest(n) THEN <<None>>
            ELSE IF r % 2 = 1 THEN odd ELSE even
    IN  [Reset EXCEPT
            !.prevRank = before(<<x, None>>, <<x, x>>) \o down \o after(<<x>>, <<None>>),
            !.nextRank = before(<<x, x>>, <<x, None>>) \o down \o after(<<None>>, <<x>>)]

(***************************************************************************)
(* SendStep(): skip the steps with nothing to do, and start the next send  *)
(* when the last one is over and its data has been received.  The outcome  *)
(* says how many queue pairs it gave to the driver (send) and how often it *)
(* called the completion callback (done).                                  *)
(***************************************************************************)
StepPast(list, from, to) ==   \* first step of from..to-1 not None, else to
    LET real == {i \in from..(to - 1) : list[i] # None}
    IN  IF real # {} THEN CHOOSE i \in real : \A j \in real : i <= j
        ELSE IF from > to THEN from ELSE to

\* Endpoint c with its counters set.
At(c, recv, send, stu) ==
    [prevRank |-> c.prevRank, nextRank |-> c.nextRank,
     recvStep |-> recv, sendStep |-> send, stepStu |-> stu]

SkipIdleSteps(c) ==
    LET len  == Len(c.nextRank)
        recv == StepPast(c.prevRank, c.recvStep, len + 1)
        last == IF recv < len THEN recv ELSE len
    IN  At(c, recv, StepPast(c.nextRank, c.sendStep + 1, last + 1) - 1, c.stepStu)

Outcome(c, send, done) == [cc |-> c, send |-> send, done |-> done]

\* Faulty: a send is started while one is running.
SendStepWhileSending(c0) ==
    LET c == SkipIdleSteps(c0)
        len == Len(c.nextRank)
        s == c.sendStep + 1
    IN  IF c.sendStep > len THEN Outcome(c, 0, 1)
        ELSE IF c.recvStep > c.sendStep
        THEN IF s <= len THEN Outcome(At(c, c.recvStep, s, 0), 1, 0)
             ELSE Outcome(At(c, c.recvStep, s, 0), 0, 1)
        ELSE Outcome(c, 0, 0)

\* Faulty: a send does not wait for the data of the step before.
SendStepWithoutData(c0) ==
    LET c == SkipIdleSteps(c0)
        len == Len(c.nextRank)
        s == c.sendStep + 1
    IN  IF c.sendStep > len THEN Outcome(c, 0, 1)
        ELSE IF c.stepStu = 1
        THEN IF s <= len THEN Outcome(At(c, c.recvStep, s, 0), 1, 0)
             ELSE Outcome(At(c, c.recvStep, s, 0), 0, 1)
        ELSE Outcome(c, 0, 0)

\* Faulty: completion is signalled with the last send, not after it.
SendStepDoneEarly(c0) ==
    LET c == SkipIdleSteps(c0)
        len == Len(c.nextRank)
        s == c.sendStep + 1
    IN  IF c.sendStep > len THEN Outcome(c, 0, 1)
        ELSE IF c.stepStu = 1 /\ c.recvStep > c.sendStep
        THEN IF s < len THEN Outcome(At(c, c.recvStep, s, 0), 1, 0)
             ELSE Outcome(At(c, c.recvStep, s, 0), IF s = len THEN 1 ELSE 0, 1)
        ELSE Outcome(c, 0, 0)

SendStep(c0) ==
    LET c   == SkipIdleSteps(c0)
        len == Len(c.nextRank)
        s   == c.sendStep + 1
    IN  IF c.sendStep > len THEN Outcome(c, 0, 1)
        ELSE IF c.stepStu = 1 /\ c.recvStep > c.sendStep
        THEN IF s <= len THEN Outcome(At(c, c.recvStep, s, 0), 1, 0)
             ELSE Outcome(At(c, c.recvStep, s, 0), 0, 1)
        ELSE Outcome(c, 0, 0)

StartApplication(c) == SendStep(At(c, 1, 0, c.stepStu))

\* Faulty: a receive that arrives during a send is not counted.
FinishRecvStepWhenIdle(c) ==
    IF c.nextRank = << >> \/ c.stepStu = 0 THEN Outcome(c, 0, 0)
    ELSE SendStep(At(c, c.recvStep + 1, c.sendStep, c.stepStu))

FinishRecvStep(c) ==
    IF c.nextRank = << >> THEN Outcome(c, 0, 0)
    ELSE SendStep(At(c, c.recvStep + 1, c.sendStep, c.stepStu))

(***************************************************************************)
(* SendChunkFinish(): the callback of a queue pair.  It returns at once    *)
(* when the endpoint has no send step.  Otherwise the destination of the   *)
(* current step counts the receive first (FinishRecvStep), inside the same *)
(* call, and then the sender goes on (FinishSend).                         *)
(***************************************************************************)
HasSendStep(c) == c.sendStep # 0
SendTarget(c)  == c.nextRank[c.sendStep]
FinishSendRunning(c) == SendStep(c)   \* faulty: stepStu stays 0
FinishSend(c)  == SendStep(At(c, c.recvStep, c.sendStep, 1))
=============================================================================
