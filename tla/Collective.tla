----------------------------- MODULE Collective -----------------------------
(***************************************************************************)
(* One collective among the ranks 0..N-1: an RdmaCC endpoint per rank, and *)
(* the queue pairs RdmaCC::Send gives to the RDMA driver.  The zero-delay  *)
(* StartApplication events that follow Reset() and the schedule are all    *)
(* due in the instant the collective begins, so none of them comes after   *)
(* the completion of a queue pair, which takes time.  Queue pairs of       *)
(* different ranks complete in any order.                                  *)
(***************************************************************************)
EXTENDS RdmaCC

CONSTANTS N,      \* m_comm.size()
          Algs    \* the values of m_alg considered: 1 ring, 2 halving and doubling

ASSUME CommSize == N \in Nat /\ N >= 2
ASSUME Supported == Algs \subseteq {1, 2}

VARIABLES op,        \* op.alg and op.name: what is run, the same at every rank
          cc,        \* cc[r]: rank r's endpoint
          qp,        \* qp[r]: number of r's queue pairs that are not finished
          starting,  \* ranks whose StartApplication event is due
          done       \* done[r]: calls of r's completion callback

vars == <<op, cc, qp, starting, done>>

Rank == 0 .. N-1

\* Allgather and ReduceScatter assert m_alg = 1; Allreduce has both.
Ops == {o \in [alg : Algs, name : {"Allgather", "ReduceScatter", "Allreduce"}] :
           o.alg = 2 => o.name = "Allreduce"}

Schedule(r) ==
    IF op.name = "Allgather" THEN Allgather(r, N)
    ELSE IF op.name = "ReduceScatter" THEN ReduceScatter(r, N)
    ELSE IF op.alg = 1 THEN RingAllreduce(r, N)
    ELSE HalvingDoubling(r, N)

Steps == Len(cc[0].nextRank)

Init == /\ op \in Ops
        /\ cc = [r \in Rank |-> Schedule(r)]
        /\ qp = [r \in Rank |-> 0]
        /\ starting = Rank
        /\ done = [r \in Rank |-> 0]

Start(r) ==
    /\ r \in starting
    /\ starting' = starting \ {r}
    /\ \E o \in {StartApplication(cc[r])} :
          /\ cc' = [cc EXCEPT ![r] = o.cc]
          /\ qp' = [qp EXCEPT ![r] = @ + o.send]
          /\ done' = [done EXCEPT ![r] = @ + o.done]
    /\ UNCHANGED op

\* SendChunkFinish.  Its early return needs a queue pair of an endpoint that
\* was Reset under it: one collective has none, HybridCC.tla models it.
QpFinish(r) ==
    /\ starting = {}
    /\ qp[r] > 0
    /\ HasSendStep(cc[r])
    /\ LET to == SendTarget(cc[r]) IN
       \E dst \in {FinishRecvStep(cc[to])} :
       \E mid \in {[cc EXCEPT ![to] = dst.cc]} :
       \E src \in {FinishSend(mid[r])} :
          /\ cc' = [mid EXCEPT ![r] = src.cc]
          /\ qp' = [qp EXCEPT ![to] = @ + dst.send, ![r] = @ - 1 + src.send]
          /\ done' = [done EXCEPT ![to] = @ + dst.done, ![r] = @ + src.done]
    /\ UNCHANGED <<op, starting>>

Next == \E r \in Rank : Start(r) \/ QpFinish(r)

Spec == Init /\ [][Next]_vars

\* The simulator runs every event that is due, and the transport of a
\* lossless fabric finishes every queue pair.
FairSpec == Spec /\ \A r \in Rank : WF_vars(Start(r)) /\ WF_vars(QpFinish(r))
-----------------------------------------------------------------------------
\* The shape of the state.  A rank never has two queue pairs at a time, and
\* its completion callback is called at most once.
TypeOK ==
    /\ op \in Ops
    /\ \A r \in Rank : /\ cc[r].prevRank = Schedule(r).prevRank
                       /\ cc[r].nextRank = Schedule(r).nextRank
                       /\ cc[r].recvStep \in 0..Steps + 1
                       /\ cc[r].sendStep \in 0..Steps + 1
                       /\ cc[r].stepStu \in 0..1
    /\ qp \in [Rank -> 0..1]
    /\ starting \subseteq Rank
    /\ done \in [Rank -> 0..1]

\* FinishRecvStep has no tag for the step it ends, and the destination may
\* be many steps behind or ahead; in a ring its counter nevertheless always
\* equals what its only predecessor has sent.
ReceivesMatchSends ==
    op.alg = 1 /\ starting = {} =>
        \A r \in Rank : cc[RingNext(r, N)].recvStep = cc[r].sendStep + cc[r].stepStu

\* However slow one queue pair is, no rank gets a whole turn of the ring
\* ahead of another (SendStep's test recvStep > sendStep, around the ring).
BoundedSkew ==
    op.alg = 1 /\ starting = {} =>
        \A p, q \in Rank : cc[p].sendStep - cc[q].sendStep <= N - 1

\* The completion callback means what the comment in SendStep says,
\* "Application finished": every step is received and no send is running.
CompletionMeansFinished ==
    \A r \in Rank : done[r] > 0 => cc[r].recvStep = Steps + 1 /\ qp[r] = 0

\* When a queue pair finishes, the entry of m_nextRank that SendChunkFinish
\* reads is a rank of the communicator, never the -1 of an idle step.
SendTargetValid ==
    \A r \in Rank : qp[r] > 0 /\ HasSendStep(cc[r]) => SendTarget(cc[r]) \in Rank

\* When a queue pair finishes, qp_finish of hybrid_dppp.cc logs GetPrevRank(),
\* that is m_prevRank[m_recvStep - 1]: the index is inside the vector.
\* Not an invariant: it is one past the end when all receives come first.
PrevRankInBounds ==
    \A r \in Rank : qp[r] > 0 => cc[r].recvStep \in 1..Len(cc[r].prevRank)

\* Every rank's completion callback is eventually called.
Termination == <>(\A r \in Rank : done[r] = 1)
-----------------------------------------------------------------------------
(***************************************************************************)
(* A ring collective implements RingPass: a rank holds the items of the    *)
(* steps it has received, and its own.                                     *)
(***************************************************************************)
Received(r) == {0} \cup 0 .. (cc[r].recvStep - 1)

Flow == INSTANCE RingPass
          WITH hops    <- Steps,
               holds   <- [r \in Rank |-> IF op.alg = 1 THEN Received(r) ELSE {0}],
               reports <- [r \in Rank |-> IF op.alg = 1 THEN done[r] ELSE 0]
ImplementsRingPass == Flow!Spec
=============================================================================
