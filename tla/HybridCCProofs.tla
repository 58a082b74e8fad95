--------------------------- MODULE HybridCCProofs ---------------------------
(***************************************************************************)
(* What HybridCC keeps in event mode, in groups of two ranks, for any      *)
(* number of stages and chunks and any way in which timers and queue pairs *)
(* share instants.                                                         *)
(*                                                                         *)
(* The invariant speaks of a rank by its view: its record, the endpoint of *)
(* its collective, its queue pairs, and how many events of each name it    *)
(* has due or armed.  RankOK relates the parts of one view, PairOK the two *)
(* views of a group, GroupOK their barrier, and LinkOK the views of two    *)
(* neighbour stages.  All of it holds (Settled) when the two ranks of each *)
(* group have run the same events.  Most events come in pairs, one for     *)
(* each rank of a group, next to each other in the queue (Aligned): after  *)
(* the first of a pair, the state is that of Settled but for one rank,     *)
(* which is one handler ahead (Halfway).                                   *)
(***************************************************************************)
EXTENDS HybridCC, FiniteSetTheorems, SequenceTheorems, TLAPS

\* Events that come for both ranks of a group, for its leading rank, and for one.

Paired == {"StartApplication", "ScheduleNext", "ScheduleNext_EventDriven", "RdmaStart",
           "OnFwdComputeDone", "OnBwdCompute1Done", "OnBwdCompute2Done",
           "OnP2PFwdComplete", "OnP2PBwdComplete",
           "OnP2PFwdRecv_EventDriven", "OnP2PBwdRecv_EventDriven"}
Leaders == {"OnP2PFwdStep", "OnP2PBwdStep", "OnP2PFwdRecv", "OnP2PBwdRecv"}
Singles == {"SendChunkFinish", "OnP2PSendComplete"} \cup Leaders
Fns == Paired \cup Singles

Mate(r) == IF r % 2 = 0 THEN r + 1 ELSE r - 1
Stages == 0 .. PP - 1

\* The events named f that rank r has due or armed, and the view of a rank.
Tok(r, f) == ArmedFor(r, {f}) + DueFor(r, {f})
View(r) == [h |-> h[r], cc |-> cc[r], rq |-> ringQp[r], pq |-> p2pQp[r],
            n |-> [f \in Fns |-> Tok(r, f)]]
Views == [r \in Rank |-> View(r)]

RingPhases == {"FWD_AG", "BWD_AG", "BWD_RS"}
P2PPhases == {"FWD_P2P", "BWD_P2P"}
Fields == {"phase", "busy", "chunk", "cb", "fwdReady", "bwdReady", "fwdIdx", "bwdIdx",
           "inflight", "fwdCount", "bwdCount", "pendChunk", "pendFwd", "schedIdx",
           "fwdRecv", "bwdRecv"}
IsHybridCC(hr) == hr = [k \in Fields |-> hr[k]]

\* The step of its operation a rank is at.
Act(v) == IF v.h.busy THEN v.h.phase ELSE "IDLE"

Types(v, c) ==
  /\ IsHybridCC(v.h)
  /\ v.h.phase \in Phases /\ v.h.busy \in BOOLEAN /\ v.h.pendFwd \in BOOLEAN
  /\ v.h.chunk \in Nat /\ v.h.chunk < c.chunks
  /\ v.h.pendChunk \in Nat /\ v.h.pendChunk < c.chunks
  /\ v.h.fwdReady \in Nat /\ v.h.bwdReady \in Nat
  /\ v.h.fwdIdx \in Nat /\ v.h.bwdIdx \in Nat
  /\ v.h.fwdCount \in Nat /\ v.h.bwdCount \in Nat
  /\ v.h.fwdRecv = {} /\ v.h.bwdRecv = {}
  /\ v.cc.recvStep \in 0..2 /\ v.cc.sendStep \in 0..2 /\ v.cc.stepStu \in 0..1
  /\ v.rq \in Nat /\ v.pq \in Nat /\ v.n \in [Fns -> Nat]

\* What is outstanding is the step the phase names.
Tokens(v) ==
  /\ v.h.busy => v.h.phase \in FwdPhases \cup BwdPhases
  /\ v.n["OnFwdComputeDone"]  = One(Act(v) = "FWD_COMPUTE")
  /\ v.n["OnBwdCompute1Done"] = One(Act(v) = "BWD_COMPUTE_1")
  /\ v.n["OnBwdCompute2Done"] = One(Act(v) = "BWD_COMPUTE_2")
  /\ v.pq + v.n["OnP2PSendComplete"] + v.n["OnP2PFwdComplete"] + v.n["OnP2PBwdComplete"]
       <= One(Act(v) \in P2PPhases)
  /\ v.n["OnP2PFwdComplete"] # 0 => Act(v) = "FWD_P2P"
  /\ v.n["OnP2PBwdComplete"] # 0 => Act(v) = "BWD_P2P"

\* What the rank notes of its operation: the callback, the direction, the limit.
Notes(v, s, c) ==
  /\ Act(v) = "FWD_AG" => v.h.cb = "OnFwdAGComplete"
  /\ Act(v) = "BWD_AG" => v.h.cb = "OnBwdAGComplete"
  /\ Act(v) = "BWD_RS" => v.h.cb = "OnBwdRSComplete"
  /\ Act(v) = "FWD_P2P" => v.h.pendFwd /\ s # PP - 1
  /\ Act(v) = "BWD_P2P" => ~v.h.pendFwd /\ s # 0
  /\ Act(v) \in BwdPhases => c.train
  /\ v.h.inflight = One(Act(v) \in FwdPhases)

\* Where the endpoint of the i-th rank of a group is in its collective.
RingOK(v, i) ==
  LET calls == v.rq + v.n["SendChunkFinish"] IN
  IF Act(v) \notin RingPhases THEN calls = 0 /\ v.n["RdmaStart"] = 0
  ELSE IF v.n["RdmaStart"] # 0
  THEN v.n["RdmaStart"] = 1 /\ calls = 0 /\ v.cc = Ring(i, 2, 1)
  ELSE \E recv \in 1..2, stu \in 0..1 :
         /\ recv = 1 \/ stu = 0
         /\ v.cc = At(Ring(i, 2, 1), recv, 1, stu)
         /\ calls = 1 - stu

\* The chunks of a rank of stage s never exceed those there are.
Counts(v, s, c) ==
  /\ v.h.fwdIdx + v.h.fwdReady + v.n["OnP2PFwdRecv_EventDriven"] <= c.chunks
  /\ v.h.bwdIdx + v.h.bwdReady + v.n["OnP2PBwdRecv_EventDriven"] <= c.chunks
  /\ ~c.train => v.h.bwdIdx + v.h.bwdReady + v.n["OnP2PBwdRecv_EventDriven"] = 0
  /\ s = 0 =>
       /\ v.n["OnP2PFwdRecv_EventDriven"] = 0 /\ v.n["OnP2PFwdRecv"] = 0
       /\ v.n["StartApplication"] <= 1
       /\ v.h.fwdIdx + v.h.fwdReady = IF v.n["StartApplication"] = 0 THEN c.chunks ELSE 0
  /\ s = PP - 1 =>
       /\ v.n["OnP2PBwdRecv_EventDriven"] = 0 /\ v.n["OnP2PBwdRecv"] = 0
       /\ c.train => v.h.bwdIdx + v.h.bwdReady = v.h.fwdIdx - One(Act(v) \in FwdPhases)

RankOK(v, s, i, c) == Types(v, c) /\ Tokens(v) /\ Notes(v, s, c) /\ RingOK(v, i) /\ Counts(v, s, c)

\* The two ranks of a group agree, and each has received what the other has sent.
Alike(a, b) ==
  /\ a.phase = b.phase /\ a.busy = b.busy /\ a.chunk = b.chunk /\ a.cb = b.cb
  /\ a.fwdReady = b.fwdReady /\ a.bwdReady = b.bwdReady
  /\ a.fwdIdx = b.fwdIdx /\ a.bwdIdx = b.bwdIdx /\ a.inflight = b.inflight
  /\ a.pendChunk = b.pendChunk /\ a.pendFwd = b.pendFwd

PairOK(v, w) ==
  /\ Alike(v.h, w.h)
  /\ v.cc.recvStep + v.cc.sendStep + v.cc.stepStu
       = w.cc.recvStep + w.cc.sendStep + w.cc.stepStu
  /\ \A f \in Paired : v.n[f] = w.n[f]
  /\ Act(v) \in RingPhases /\ v.n["RdmaStart"] = 0 =>
       v.cc.recvStep = 1 + w.cc.stepStu /\ w.cc.recvStep = 1 + v.cc.stepStu

\* The reports counted and the sends still to report make a whole group, or none.
Reporting(v, w, p) ==
  IF Act(v) = p THEN v.pq + v.n["OnP2PSendComplete"] + w.pq + w.n["OnP2PSendComplete"] ELSE 0
GroupOK(v, w) ==
  /\ v.h.fwdCount + v.n["OnP2PFwdStep"] + Reporting(v, w, "FWD_P2P")
       = IF Act(v) = "FWD_P2P" /\ v.n["OnP2PFwdComplete"] = 0 THEN 2 ELSE 0
  /\ v.h.bwdCount + v.n["OnP2PBwdStep"] + Reporting(v, w, "BWD_P2P")
       = IF Act(v) = "BWD_P2P" /\ v.n["OnP2PBwdComplete"] = 0 THEN 2 ELSE 0
  /\ v.h.fwdCount < 2 /\ v.h.bwdCount < 2 /\ w.h.fwdCount = 0 /\ w.h.bwdCount = 0

StageOK(v, w, s, c) == RankOK(v, s, 0, c) /\ RankOK(w, s, 1, c) /\ PairOK(v, w) /\ GroupOK(v, w)

\* What has come in at a stage is what the neighbour stage has let out.
FwdIn(v) == v.h.fwdIdx + v.h.fwdReady + v.n["OnP2PFwdRecv_EventDriven"] + v.n["OnP2PFwdRecv"]
FwdOut(v) == v.h.fwdIdx - One(Act(v) \in FwdPhases) + v.n["OnP2PFwdComplete"]
BwdIn(v) == v.h.bwdIdx + v.h.bwdReady + v.n["OnP2PBwdRecv_EventDriven"] + v.n["OnP2PBwdRecv"]
BwdOut(v) == v.h.bwdIdx - One(Act(v) \in BwdPhases) + v.n["OnP2PBwdComplete"]
LinkOK(v, u) == FwdIn(u) = FwdOut(v) /\ BwdIn(v) = BwdOut(u)

AllOK(V, c) ==
   \A s \in Stages : /\ StageOK(V[2*s], V[2*s+1], s, c)
                     /\ s + 1 \in Stages => LinkOK(V[2*s], V[2*s+2])

\* What the handler of an event f of both ranks of a group does with the view v
\* of a rank of stage s, the i-th of its group.
Moved(v, f, hr, e, rq, pq, out) ==
  [h |-> hr, cc |-> e, rq |-> rq, pq |-> pq,
   n |-> [g \in Fns |-> v.n[g] - One(g = f) + One(g = out)]]
Held(v, f, hr, out) == Moved(v, f, hr, v.cc, v.rq, v.pq, out)
Collects(v, f, i, hr) == Moved(v, f, hr, Ring(i, 2, 1), v.rq, v.pq, "RdmaStart")
Frees(v, f, hr) == Held(v, f, [hr EXCEPT !.busy = FALSE], "ScheduleNext")
Posts(v, f, phase, forward) ==
  Moved(v, f, [v.h EXCEPT !.phase = phase, !.pendChunk = v.h.chunk, !.pendFwd = forward],
        v.cc, v.rq, v.pq + 1, "None")

AllDoneC(hr, c) == hr.fwdIdx >= c.chunks /\ (~c.train \/ hr.bwdIdx >= c.chunks)
CanBackwardC(hr, c) == c.train /\ hr.bwdReady > 0 /\ hr.bwdIdx < c.chunks
CanForwardC(hr, c) == hr.fwdReady > 0 /\ hr.fwdIdx < c.chunks /\ hr.inflight < c.inflight

\* ScheduleNext_EventDriven.
Schedules(v, i, c) ==
  LET f == "ScheduleNext_EventDriven" IN
  IF v.h.busy THEN Held(v, f, v.h, "None")
  ELSE IF AllDoneC(v.h, c) THEN Held(v, f, [v.h EXCEPT !.phase = "DONE"], "None")
  ELSE IF CanBackwardC(v.h, c)
  THEN Collects(v, f, i, [v.h EXCEPT !.bwdReady = @ - 1, !.bwdIdx = @ + 1, !.chunk = v.h.bwdIdx,
                                     !.phase = "BWD_AG", !.busy = TRUE, !.cb = "OnBwdAGComplete"])
  ELSE IF CanForwardC(v.h, c)
  THEN Collects(v, f, i, [v.h EXCEPT !.fwdReady = @ - 1, !.inflight = @ + 1, !.fwdIdx = @ + 1,
                                     !.chunk = v.h.fwdIdx,
                                     !.phase = "FWD_AG", !.busy = TRUE, !.cb = "OnFwdAGComplete"])
  ELSE Held(v, f, v.h, "None")

After(f, v, s, i, c) ==
  CASE f = "StartApplication" ->
         Held(v, f, IF s = 0 THEN [v.h EXCEPT !.fwdReady = c.chunks] ELSE v.h,
              "ScheduleNext_EventDriven")
    [] f = "ScheduleNext" -> Held(v, f, v.h, "ScheduleNext_EventDriven")
    [] f = "ScheduleNext_EventDriven" -> Schedules(v, i, c)
    [] f = "RdmaStart" -> Moved(v, f, v.h, At(v.cc, 1, 1, 0), v.rq + 1, v.pq, "None")
    [] f = "OnFwdComputeDone" ->
         IF s # PP - 1 THEN Posts(v, f, "FWD_P2P", TRUE)
         ELSE Frees(v, f, [v.h EXCEPT !.inflight = Dec16(@),
                                      !.bwdReady = IF c.train THEN @ + 1 ELSE @])
    [] f = "OnBwdCompute1Done" ->
         Collects(v, f, i, [v.h EXCEPT !.phase = "BWD_RS", !.cb = "OnBwdRSComplete"])
    [] f = "OnBwdCompute2Done" ->
         IF s = 0 THEN Frees(v, f, v.h) ELSE Posts(v, f, "BWD_P2P", FALSE)
    [] f = "OnP2PFwdComplete" -> Frees(v, f, [v.h EXCEPT !.inflight = Dec16(@)])
    [] f = "OnP2PBwdComplete" -> Frees(v, f, v.h)
    [] f = "OnP2PFwdRecv_EventDriven" ->
         Held(v, f, [v.h EXCEPT !.fwdReady = @ + 1], "ScheduleNext_EventDriven")
    [] f = "OnP2PBwdRecv_EventDriven" ->
         Held(v, f, [v.h EXCEPT !.bwdReady = @ + 1], "ScheduleNext_EventDriven")

\* What the step of a rank from view v to view w leaves to its group and to the
\* neighbours of its stage s.
GroupStep(v, w) ==
  /\ w.h.fwdCount = v.h.fwdCount /\ w.h.bwdCount = v.h.bwdCount
  /\ w.n["OnP2PFwdStep"] = v.n["OnP2PFwdStep"] /\ w.n["OnP2PBwdStep"] = v.n["OnP2PBwdStep"]
  /\ \/ Act(v) \notin P2PPhases /\ Act(w) \notin P2PPhases
     \/ /\ Act(v) = Act(w) /\ w.pq = v.pq
        /\ w.n["OnP2PSendComplete"] = v.n["OnP2PSendComplete"]
        /\ w.n["OnP2PFwdComplete"] = v.n["OnP2PFwdComplete"]
        /\ w.n["OnP2PBwdComplete"] = v.n["OnP2PBwdComplete"]
     \/ /\ Act(v) \notin P2PPhases /\ Act(w) \in P2PPhases /\ w.pq = v.pq + 1
        /\ w.n["OnP2PSendComplete"] = v.n["OnP2PSendComplete"]
        /\ w.n["OnP2PFwdComplete"] = v.n["OnP2PFwdComplete"]
        /\ w.n["OnP2PBwdComplete"] = v.n["OnP2PBwdComplete"]
     \/ /\ Act(w) \notin P2PPhases
        /\ v.n["OnP2PFwdComplete"] # 0 \/ v.n["OnP2PBwdComplete"] # 0

SameLinks(v, w, s) ==
  /\ s # 0 => FwdIn(w) = FwdIn(v) /\ BwdOut(w) = BwdOut(v)
  /\ s # PP - 1 => FwdOut(w) = FwdOut(v) /\ BwdIn(w) = BwdIn(v)

RankStep(v, w, s, i, c) == RankOK(w, s, i, c) /\ GroupStep(v, w) /\ SameLinks(v, w, s)

EventConf == [chunks : Nat \ {0}, inflight : Nat, mode : {0}, train : BOOLEAN]


LEMMA Dec == Dec16(1) = 0
BY DEF Dec16

LEMMA MovedTokens ==
  ASSUME NEW n \in [Fns -> Nat], NEW f \in Fns, NEW out \in Fns \cup {"None"}, n[f] >= 1, f # out,
         NEW m, m = [g \in Fns |-> n[g] - One(g = f) + One(g = out)]
  PROVE  /\ m \in [Fns -> Nat]
         /\ m[f] = n[f] - 1
         /\ out \in Fns => m[out] = n[out] + 1
         /\ \A g \in Fns : g # f /\ g # out => m[g] = n[g]
<1> HIDE DEF Fns
<1> QED BY DEF One

LEMMA FnNames ==
  /\ "StartApplication" \in Fns /\ "ScheduleNext" \in Fns /\ "ScheduleNext_EventDriven" \in Fns
  /\ "RdmaStart" \in Fns /\ "OnFwdComputeDone" \in Fns
  /\ "OnBwdCompute1Done" \in Fns /\ "OnBwdCompute2Done" \in Fns
  /\ "OnP2PFwdComplete" \in Fns /\ "OnP2PBwdComplete" \in Fns
  /\ "OnP2PFwdRecv_EventDriven" \in Fns /\ "OnP2PBwdRecv_EventDriven" \in Fns
  /\ "SendChunkFinish" \in Fns /\ "OnP2PSendComplete" \in Fns
  /\ "OnP2PFwdStep" \in Fns /\ "OnP2PBwdStep" \in Fns
  /\ "OnP2PFwdRecv" \in Fns /\ "OnP2PBwdRecv" \in Fns
  /\ "None" \notin Fns
BY DEF Fns, Paired, Singles, Leaders

LEMMA CountsFrame ==
  ASSUME NEW s, NEW c, NEW v, NEW w, Counts(v, s, c),
         w.h.fwdIdx = v.h.fwdIdx, w.h.fwdReady = v.h.fwdReady,
         w.h.bwdIdx = v.h.bwdIdx, w.h.bwdReady = v.h.bwdReady,
         w.n["OnP2PFwdRecv_EventDriven"] = v.n["OnP2PFwdRecv_EventDriven"],
         w.n["OnP2PBwdRecv_EventDriven"] = v.n["OnP2PBwdRecv_EventDriven"],
         w.n["OnP2PFwdRecv"] = v.n["OnP2PFwdRecv"], w.n["OnP2PBwdRecv"] = v.n["OnP2PBwdRecv"],
         s = 0 => w.n["StartApplication"] = v.n["StartApplication"],
         s = PP - 1 => One(Act(w) \in FwdPhases) = One(Act(v) \in FwdPhases)
  PROVE  Counts(w, s, c)
BY DEF Counts

LEMMA StartRank ==
  ASSUME NEW c \in EventConf, NEW s \in Stages, NEW i \in 0..1, NEW v, RankOK(v, s, i, c),
         v.n["StartApplication"] # 0,
         s = 0
  PROVE  RankStep(v, Held(v, "StartApplication", [v.h EXCEPT !.fwdReady = c.chunks], "ScheduleNext_EventDriven"), s, i, c)
<1> DEFINE f == "StartApplication"
           w == Held(v, f, [v.h EXCEPT !.fwdReady = c.chunks], "ScheduleNext_EventDriven")
<1>1. Types(v, c) /\ Tokens(v) /\ Notes(v, s, c) /\ RingOK(v, i) /\ Counts(v, s, c)
  BY DEF RankOK
<1>e. /\ c.chunks \in Nat
      /\ v.h.fwdIdx \in Nat /\ v.h.bwdIdx \in Nat /\ v.h.fwdReady \in Nat /\ v.h.bwdReady \in Nat
      /\ v.n["OnP2PFwdRecv_EventDriven"] \in Nat /\ v.n["OnP2PBwdRecv_EventDriven"] \in Nat
      /\ v.n["StartApplication"] \in Nat
      /\ One(Act(v) \in FwdPhases) \in 0..1
  BY <1>1, FnNames DEF Types, One, EventConf
<1>2. v.n[f] = 1 /\ v.h.fwdIdx = 0 /\ v.h.fwdReady = 0
  <2>0. v.n["StartApplication"] <= 1
    BY <1>1 DEF Counts
  <2>1. v.n["StartApplication"] = 1
    BY <1>e, <2>0
  <2>2. v.h.fwdIdx + v.h.fwdReady = 0
    BY <1>1, <2>1 DEF Counts
  <2> QED BY <1>e, <2>1, <2>2
<1>3. /\ w.n \in [Fns -> Nat] /\ w.n[f] = v.n[f] - 1
      /\ \A g \in Fns : g # f /\ g # "ScheduleNext_EventDriven" => w.n[g] = v.n[g]
  <2>1. w.n = [g \in Fns |-> v.n[g] - One(g = f) + One(g = "ScheduleNext_EventDriven")]
    BY DEF Frees, Held, Moved, Collects, Posts
  <2>2. f \in Fns /\ "ScheduleNext_EventDriven" \in Fns /\ v.n[f] >= 1
    BY <1>1, <1>e, FnNames
  <2>3. f # "ScheduleNext_EventDriven"
    BY FnNames
  <2> HIDE DEF w
  <2> QED BY <1>1, <2>1, <2>2, <2>3 DEF Types, One
<1>4. /\ w.h = [v.h EXCEPT !.fwdReady = c.chunks]
      /\ w.cc = v.cc /\ w.rq = v.rq /\ w.pq = v.pq
  BY <1>1, <1>2, Dec DEF Types, Frees, Held, Moved, Collects, Posts, IsHybridCC, Fields
<1> HIDE DEF w
<1>5. /\ IsHybridCC(w.h) /\ Act(w) = Act(v)
      /\ \A k \in Fields : k # "fwdReady" => w.h[k] = v.h[k]
      /\ w.h.fwdReady = c.chunks
  BY <1>1, <1>2, <1>4 DEF Types, IsHybridCC, Fields, Act
<1>p. w.h.phase \in Phases
  BY <1>1, <1>5 DEF Types, Fields, Phases, FwdPhases, BwdPhases
<1>6. Types(w, c)
  BY <1>1, <1>2, <1>3, <1>4, <1>5, <1>p DEF Types, Fields, EventConf
<1>7. Tokens(w)
  BY <1>1, <1>2, <1>3, <1>4, <1>5, FnNames DEF Types, Tokens, One, P2PPhases, FwdPhases, BwdPhases, Fields
<1>8. Notes(w, s, c)
  BY <1>1, <1>2, <1>5 DEF Notes, BwdPhases, FwdPhases, One, Fields
<1>9. RingOK(w, i)
  BY <1>1, <1>2, <1>3, <1>4, <1>5, FnNames DEF Types, RingOK, RingPhases
<1>a. w.h.fwdIdx = v.h.fwdIdx /\ w.h.bwdIdx = v.h.bwdIdx /\ w.h.bwdReady = v.h.bwdReady
  BY <1>5 DEF Fields
<1>b. w.n["OnP2PFwdRecv_EventDriven"] = v.n["OnP2PFwdRecv_EventDriven"] /\ w.n["OnP2PBwdRecv_EventDriven"] = v.n["OnP2PBwdRecv_EventDriven"] /\ w.n["OnP2PFwdRecv"] = v.n["OnP2PFwdRecv"] /\ w.n["OnP2PBwdRecv"] = v.n["OnP2PBwdRecv"]
  BY <1>3, FnNames
<1>c. One(Act(w) \in FwdPhases) = One(Act(v) \in FwdPhases)
  BY <1>1, <1>2, <1>5 DEF FwdPhases, One, Notes, Counts
<1>d. w.h.fwdReady = c.chunks /\ w.n["StartApplication"] = v.n["StartApplication"] - 1
  BY <1>3, <1>5
<1>10. Counts(w, s, c)
  <2>1. w.h.fwdIdx + w.h.fwdReady = c.chunks /\ w.h.fwdIdx = 0 /\ w.n["StartApplication"] = 0
    BY <1>2, <1>a, <1>d, <1>e
  <2>2. s = PP - 1 =>
          /\ w.n["OnP2PBwdRecv_EventDriven"] = 0 /\ w.n["OnP2PBwdRecv"] = 0
          /\ c.train => w.h.bwdIdx + w.h.bwdReady = w.h.fwdIdx - One(Act(w) \in FwdPhases)
    BY <1>1, <1>a, <1>b, <1>c DEF Counts
  <2>3. w.h.fwdIdx + w.h.fwdReady + w.n["OnP2PFwdRecv_EventDriven"] <= c.chunks
    BY <1>1, <1>b, <1>e, <2>1 DEF Counts
  <2> QED BY <1>1, <1>a, <1>b, <2>1, <2>2, <2>3 DEF Counts
<1>11. GroupStep(v, w)
  BY <1>1, <1>2, <1>3, <1>4, <1>5, FnNames DEF GroupStep, Fields, P2PPhases, RingPhases
<1>t. w.n["OnP2PFwdComplete"] = v.n["OnP2PFwdComplete"] /\ w.n["OnP2PBwdComplete"] = v.n["OnP2PBwdComplete"]
  BY <1>3, FnNames
<1>12. SameLinks(v, w, s)
  <2>1. One(Act(w) \in BwdPhases) = One(Act(v) \in BwdPhases)
    BY <1>1, <1>2, <1>5 DEF BwdPhases, One
  <2>2. v.n["OnP2PFwdRecv"] \in Nat /\ v.n["OnP2PBwdRecv"] \in Nat /\ v.n["OnP2PFwdComplete"] \in Nat /\ v.n["OnP2PBwdComplete"] \in Nat /\ One(Act(v) \in BwdPhases) \in 0..1
    BY <1>1, FnNames DEF Types, One
  <2> QED BY <1>2, <1>a, <1>b, <1>c, <1>d, <1>e, <1>t, <2>1, <2>2 DEF SameLinks, FwdIn, FwdOut, BwdIn, BwdOut
<1> QED BY <1>6, <1>7, <1>8, <1>9, <1>10, <1>11, <1>12 DEF RankStep, RankOK, w

LEMMA StartLater ==
  ASSUME NEW c \in EventConf, NEW s \in Stages, NEW i \in 0..1, NEW v, RankOK(v, s, i, c),
         v.n["StartApplication"] # 0,
         s # 0
  PROVE  RankStep(v, Held(v, "StartApplication", v.h, "ScheduleNext_EventDriven"), s, i, c)
<1> DEFINE f == "StartApplication"
           w == Held(v, f, v.h, "ScheduleNext_EventDriven")
<1>1. Types(v, c) /\ Tokens(v) /\ Notes(v, s, c) /\ RingOK(v, i) /\ Counts(v, s, c)
  BY DEF RankOK
<1>e. /\ c.chunks \in Nat
      /\ v.h.fwdIdx \in Nat /\ v.h.bwdIdx \in Nat /\ v.h.fwdReady \in Nat /\ v.h.bwdReady \in Nat
      /\ v.n["OnP2PFwdRecv_EventDriven"] \in Nat /\ v.n["OnP2PBwdRecv_EventDriven"] \in Nat
      /\ v.n["StartApplication"] \in Nat
      /\ One(Act(v) \in FwdPhases) \in 0..1
  BY <1>1, FnNames DEF Types, One, EventConf
<1>2. TRUE
  BY <1>1, <1>e DEF Counts
<1>3. /\ w.n \in [Fns -> Nat] /\ w.n[f] = v.n[f] - 1
      /\ \A g \in Fns : g # f /\ g # "ScheduleNext_EventDriven" => w.n[g] = v.n[g]
  <2>1. w.n = [g \in Fns |-> v.n[g] - One(g = f) + One(g = "ScheduleNext_EventDriven")]
    BY DEF Frees, Held, Moved, Collects, Posts
  <2>2. f \in Fns /\ "ScheduleNext_EventDriven" \in Fns /\ v.n[f] >= 1
    BY <1>1, <1>e, FnNames
  <2>3. f # "ScheduleNext_EventDriven"
    BY FnNames
  <2> HIDE DEF w
  <2> QED BY <1>1, <2>1, <2>2, <2>3 DEF Types, One
<1>4. /\ w.h = v.h
      /\ w.cc = v.cc /\ w.rq = v.rq /\ w.pq = v.pq
  BY <1>1, <1>2, Dec DEF Types, Frees, Held, Moved, Collects, Posts, IsHybridCC, Fields
<1> HIDE DEF w
<1>5. /\ IsHybridCC(w.h) /\ Act(w) = Act(v)
      /\ w.h = v.h
  BY <1>1, <1>2, <1>4 DEF Types, IsHybridCC, Fields, Act
<1>p. w.h.phase \in Phases
  BY <1>1, <1>5 DEF Types, Fields, Phases, FwdPhases, BwdPhases
<1>6. Types(w, c)
  BY <1>1, <1>2, <1>3, <1>4, <1>5, <1>p DEF Types, Fields, EventConf
<1>7. Tokens(w)
  BY <1>1, <1>2, <1>3, <1>4, <1>5, FnNames DEF Types, Tokens, One, P2PPhases, FwdPhases, BwdPhases, Fields
<1>8. Notes(w, s, c)
  BY <1>1, <1>2, <1>5 DEF Notes, BwdPhases, FwdPhases, One, Fields
<1>9. RingOK(w, i)
  BY <1>1, <1>2, <1>3, <1>4, <1>5, FnNames DEF Types, RingOK, RingPhases
<1>a. w.h.fwdIdx = v.h.fwdIdx /\ w.h.fwdReady = v.h.fwdReady /\ w.h.bwdIdx = v.h.bwdIdx /\ w.h.bwdReady = v.h.bwdReady
  BY <1>5 DEF Fields
<1>b. w.n["OnP2PFwdRecv_EventDriven"] = v.n["OnP2PFwdRecv_EventDriven"] /\ w.n["OnP2PBwdRecv_EventDriven"] = v.n["OnP2PBwdRecv_EventDriven"] /\ w.n["OnP2PFwdRecv"] = v.n["OnP2PFwdRecv"] /\ w.n["OnP2PBwdRecv"] = v.n["OnP2PBwdRecv"]
  BY <1>3, FnNames
<1>c. One(Act(w) \in FwdPhases) = One(Act(v) \in FwdPhases)
  BY <1>1, <1>2, <1>5 DEF FwdPhases, One, Notes, Counts
<1>10. Counts(w, s, c)
  BY <1>1, <1>2, <1>a, <1>b, <1>c, CountsFrame
<1>11. GroupStep(v, w)
  BY <1>1, <1>2, <1>3, <1>4, <1>5, FnNames DEF GroupStep, Fields, P2PPhases, RingPhases
<1>t. w.n["OnP2PFwdComplete"] = v.n["OnP2PFwdComplete"] /\ w.n["OnP2PBwdComplete"] = v.n["OnP2PBwdComplete"]
  BY <1>3, FnNames
<1>12. SameLinks(v, w, s)
  <2>1. One(Act(w) \in BwdPhases) = One(Act(v) \in BwdPhases)
    BY <1>1, <1>2, <1>5 DEF BwdPhases, One
  <2>2. v.n["OnP2PFwdRecv"] \in Nat /\ v.n["OnP2PBwdRecv"] \in Nat /\ v.n["OnP2PFwdComplete"] \in Nat /\ v.n["OnP2PBwdComplete"] \in Nat /\ One(Act(v) \in BwdPhases) \in 0..1
    BY <1>1, FnNames DEF Types, One
  <2> QED BY <1>2, <1>a, <1>b, <1>c, <1>e, <1>t, <2>1, <2>2 DEF SameLinks, FwdIn, FwdOut, BwdIn, BwdOut
<1> QED BY <1>6, <1>7, <1>8, <1>9, <1>10, <1>11, <1>12 DEF RankStep, RankOK, w

LEMMA ScheduleRank ==
  ASSUME NEW c \in EventConf, NEW s \in Stages, NEW i \in 0..1, NEW v, RankOK(v, s, i, c),
         v.n["ScheduleNext"] # 0
  PROVE  RankStep(v, Held(v, "ScheduleNext", v.h, "ScheduleNext_EventDriven"), s, i, c)
<1> DEFINE f == "ScheduleNext"
           w == Held(v, f, v.h, "ScheduleNext_EventDriven")
<1>1. Types(v, c) /\ Tokens(v) /\ Notes(v, s, c) /\ RingOK(v, i) /\ Counts(v, s, c)
  BY DEF RankOK
<1>e. /\ c.chunks \in Nat
      /\ v.h.fwdIdx \in Nat /\ v.h.bwdIdx \in Nat /\ v.h.fwdReady \in Nat /\ v.h.bwdReady \in Nat
      /\ v.n["OnP2PFwdRecv_EventDriven"] \in Nat /\ v.n["OnP2PBwdRecv_EventDriven"] \in Nat
      /\ v.n["ScheduleNext"] \in Nat
      /\ One(Act(v) \in FwdPhases) \in 0..1
  BY <1>1, FnNames DEF Types, One, EventConf
<1>2. TRUE
  BY <1>1, <1>e DEF Counts
<1>3. /\ w.n \in [Fns -> Nat] /\ w.n[f] = v.n[f] - 1
      /\ \A g \in Fns : g # f /\ g # "ScheduleNext_EventDriven" => w.n[g] = v.n[g]
  <2>1. w.n = [g \in Fns |-> v.n[g] - One(g = f) + One(g = "ScheduleNext_EventDriven")]
    BY DEF Frees, Held, Moved, Collects, Posts
  <2>2. f \in Fns /\ "ScheduleNext_EventDriven" \in Fns /\ v.n[f] >= 1
    BY <1>1, <1>e, FnNames
  <2>3. f # "ScheduleNext_EventDriven"
    BY FnNames
  <2> HIDE DEF w
  <2> QED BY <1>1, <2>1, <2>2, <2>3 DEF Types, One
<1>4. /\ w.h = v.h
      /\ w.cc = v.cc /\ w.rq = v.rq /\ w.pq = v.pq
  BY <1>1, <1>2, Dec DEF Types, Frees, Held, Moved, Collects, Posts, IsHybridCC, Fields
<1> HIDE DEF w
<1>5. /\ IsHybridCC(w.h) /\ Act(w) = Act(v)
      /\ w.h = v.h
  BY <1>1, <1>2, <1>4 DEF Types, IsHybridCC, Fields, Act
<1>p. w.h.phase \in Phases
  BY <1>1, <1>5 DEF Types, Fields, Phases, FwdPhases, BwdPhases
<1>6. Types(w, c)
  BY <1>1, <1>2, <1>3, <1>4, <1>5, <1>p DEF Types, Fields, EventConf
<1>7. Tokens(w)
  BY <1>1, <1>2, <1>3, <1>4, <1>5, FnNames DEF Types, Tokens, One, P2PPhases, FwdPhases, BwdPhases, Fields
<1>8. Notes(w, s, c)
  BY <1>1, <1>2, <1>5 DEF Notes, BwdPhases, FwdPhases, One, Fields
<1>9. RingOK(w, i)
  BY <1>1, <1>2, <1>3, <1>4, <1>5, FnNames DEF Types, RingOK, RingPhases
<1>a. w.h.fwdIdx = v.h.fwdIdx /\ w.h.fwdReady = v.h.fwdReady /\ w.h.bwdIdx = v.h.bwdIdx /\ w.h.bwdReady = v.h.bwdReady
  BY <1>5 DEF Fields
<1>b. w.n["OnP2PFwdRecv_EventDriven"] = v.n["OnP2PFwdRecv_EventDriven"] /\ w.n["OnP2PBwdRecv_EventDriven"] = v.n["OnP2PBwdRecv_EventDriven"] /\ w.n["OnP2PFwdRecv"] = v.n["OnP2PFwdRecv"] /\ w.n["OnP2PBwdRecv"] = v.n["OnP2PBwdRecv"] /\ w.n["StartApplication"] = v.n["StartApplication"]
  BY <1>3, FnNames
<1>c. One(Act(w) \in FwdPhases) = One(Act(v) \in FwdPhases)
  BY <1>1, <1>2, <1>5 DEF FwdPhases, One, Notes, Counts
<1>10. Counts(w, s, c)
  BY <1>1, <1>2, <1>a, <1>b, <1>c, CountsFrame
<1>11. GroupStep(v, w)
  BY <1>1, <1>2, <1>3, <1>4, <1>5, FnNames DEF GroupStep, Fields, P2PPhases, RingPhases
<1>t. w.n["OnP2PFwdComplete"] = v.n["OnP2PFwdComplete"] /\ w.n["OnP2PBwdComplete"] = v.n["OnP2PBwdComplete"]
  BY <1>3, FnNames
<1>12. SameLinks(v, w, s)
  <2>1. One(Act(w) \in BwdPhases) = One(Act(v) \in BwdPhases)
    BY <1>1, <1>2, <1>5 DEF BwdPhases, One
  <2>2. v.n["OnP2PFwdRecv"] \in Nat /\ v.n["OnP2PBwdRecv"] \in Nat /\ v.n["OnP2PFwdComplete"] \in Nat /\ v.n["OnP2PBwdComplete"] \in Nat /\ One(Act(v) \in BwdPhases) \in 0..1
    BY <1>1, FnNames DEF Types, One
  <2> QED BY <1>2, <1>a, <1>b, <1>c, <1>e, <1>t, <2>1, <2>2 DEF SameLinks, FwdIn, FwdOut, BwdIn, BwdOut
<1> QED BY <1>6, <1>7, <1>8, <1>9, <1>10, <1>11, <1>12 DEF RankStep, RankOK, w

LEMMA RdmaStartRank ==
  ASSUME NEW c \in EventConf, NEW s \in Stages, NEW i \in 0..1, NEW v, RankOK(v, s, i, c),
         v.n["RdmaStart"] # 0
  PROVE  RankStep(v, Moved(v, "RdmaStart", v.h, At(v.cc, 1, 1, 0), v.rq + 1, v.pq, "None"), s, i, c)
<1> DEFINE f == "RdmaStart"
           w == Moved(v, f, v.h, At(v.cc, 1, 1, 0), v.rq + 1, v.pq, "None")
<1>1. Types(v, c) /\ Tokens(v) /\ Notes(v, s, c) /\ RingOK(v, i) /\ Counts(v, s, c)
  BY DEF RankOK
<1>e. /\ c.chunks \in Nat
      /\ v.h.fwdIdx \in Nat /\ v.h.bwdIdx \in Nat /\ v.h.fwdReady \in Nat /\ v.h.bwdReady \in Nat
      /\ v.n["OnP2PFwdRecv_EventDriven"] \in Nat /\ v.n["OnP2PBwdRecv_EventDriven"] \in Nat
      /\ v.n["RdmaStart"] \in Nat
      /\ One(Act(v) \in FwdPhases) \in 0..1
  BY <1>1, FnNames DEF Types, One, EventConf
<1>2. v.n[f] = 1 /\ Act(v) \in RingPhases /\ v.cc = Ring(i, 2, 1) /\ v.rq + v.n["SendChunkFinish"] = 0
  BY <1>1, <1>e DEF RingOK
<1>3. /\ w.n \in [Fns -> Nat] /\ w.n[f] = v.n[f] - 1
      /\ \A g \in Fns : g # f => w.n[g] = v.n[g]
  <2>1. w.n = [g \in Fns |-> v.n[g] - One(g = f) + One(g = "None")]
    BY DEF Frees, Held, Moved, Collects, Posts
  <2>2. f \in Fns /\ v.n[f] >= 1
    BY <1>1, <1>e, FnNames
  <2>3. "None" \notin Fns
    BY FnNames
  <2> HIDE DEF w
  <2> QED BY <1>1, <2>1, <2>2, <2>3 DEF Types, One
<1>4. /\ w.h = v.h
      /\ w.cc = At(Ring(i, 2, 1), 1, 1, 0) /\ w.rq = v.rq + 1 /\ w.pq = v.pq
  BY <1>1, <1>2, Dec DEF Types, Frees, Held, Moved, Collects, Posts, IsHybridCC, Fields
<1> HIDE DEF w
<1>5. /\ IsHybridCC(w.h) /\ Act(w) = Act(v)
      /\ w.h = v.h
  BY <1>1, <1>2, <1>4 DEF Types, IsHybridCC, Fields, Act
<1>p. w.h.phase \in Phases
  BY <1>1, <1>5 DEF Types, Fields, Phases, FwdPhases, BwdPhases
<1>6. Types(w, c)
  BY <1>1, <1>2, <1>3, <1>4, <1>5, <1>p DEF Types, Fields, EventConf, At
<1>7. Tokens(w)
  BY <1>1, <1>2, <1>3, <1>4, <1>5, FnNames DEF Types, Tokens, One, P2PPhases, FwdPhases, BwdPhases, Fields
<1>8. Notes(w, s, c)
  BY <1>1, <1>2, <1>5 DEF Notes, BwdPhases, FwdPhases, One, Fields
<1>9. RingOK(w, i)
  BY <1>1, <1>2, <1>3, <1>4, <1>5, FnNames DEF Types, RingOK, RingPhases
<1>a. w.h.fwdIdx = v.h.fwdIdx /\ w.h.fwdReady = v.h.fwdReady /\ w.h.bwdIdx = v.h.bwdIdx /\ w.h.bwdReady = v.h.bwdReady
  BY <1>5 DEF Fields
<1>b. w.n["OnP2PFwdRecv_EventDriven"] = v.n["OnP2PFwdRecv_EventDriven"] /\ w.n["OnP2PBwdRecv_EventDriven"] = v.n["OnP2PBwdRecv_EventDriven"] /\ w.n["OnP2PFwdRecv"] = v.n["OnP2PFwdRecv"] /\ w.n["OnP2PBwdRecv"] = v.n["OnP2PBwdRecv"] /\ w.n["StartApplication"] = v.n["StartApplication"]
  BY <1>3, FnNames
<1>c. One(Act(w) \in FwdPhases) = One(Act(v) \in FwdPhases)
  BY <1>1, <1>2, <1>5 DEF FwdPhases, One, Notes, Counts
<1>10. Counts(w, s, c)
  BY <1>1, <1>2, <1>a, <1>b, <1>c, CountsFrame
<1>11. GroupStep(v, w)
  BY <1>1, <1>2, <1>3, <1>4, <1>5, FnNames DEF GroupStep, Fields, P2PPhases, RingPhases
<1>t. w.n["OnP2PFwdComplete"] = v.n["OnP2PFwdComplete"] /\ w.n["OnP2PBwdComplete"] = v.n["OnP2PBwdComplete"]
  BY <1>3, FnNames
<1>12. SameLinks(v, w, s)
  <2>1. One(Act(w) \in BwdPhases) = One(Act(v) \in BwdPhases)
    BY <1>1, <1>2, <1>5 DEF BwdPhases, One
  <2>2. v.n["OnP2PFwdRecv"] \in Nat /\ v.n["OnP2PBwdRecv"] \in Nat /\ v.n["OnP2PFwdComplete"] \in Nat /\ v.n["OnP2PBwdComplete"] \in Nat /\ One(Act(v) \in BwdPhases) \in 0..1
    BY <1>1, FnNames DEF Types, One
  <2> QED BY <1>2, <1>a, <1>b, <1>c, <1>e, <1>t, <2>1, <2>2 DEF SameLinks, FwdIn, FwdOut, BwdIn, BwdOut
<1> QED BY <1>6, <1>7, <1>8, <1>9, <1>10, <1>11, <1>12 DEF RankStep, RankOK, w

LEMMA FwdComputedRank ==
  ASSUME NEW c \in EventConf, NEW s \in Stages, NEW i \in 0..1, NEW v, RankOK(v, s, i, c),
         v.n["OnFwdComputeDone"] # 0,
         s # PP - 1
  PROVE  RankStep(v, Posts(v, "OnFwdComputeDone", "FWD_P2P", TRUE), s, i, c)
<1> DEFINE f == "OnFwdComputeDone"
           w == Posts(v, f, "FWD_P2P", TRUE)
<1>1. Types(v, c) /\ Tokens(v) /\ Notes(v, s, c) /\ RingOK(v, i) /\ Counts(v, s, c)
  BY DEF RankOK
<1>e. /\ c.chunks \in Nat
      /\ v.h.fwdIdx \in Nat /\ v.h.bwdIdx \in Nat /\ v.h.fwdReady \in Nat /\ v.h.bwdReady \in Nat
      /\ v.n["OnP2PFwdRecv_EventDriven"] \in Nat /\ v.n["OnP2PBwdRecv_EventDriven"] \in Nat
      /\ v.n["OnFwdComputeDone"] \in Nat
      /\ One(Act(v) \in FwdPhases) \in 0..1
  BY <1>1, FnNames DEF Types, One, EventConf
<1>2. v.n[f] = 1 /\ Act(v) = "FWD_COMPUTE" /\ v.h.busy = TRUE
  BY <1>1, <1>e DEF Tokens, One, Act
<1>3. /\ w.n \in [Fns -> Nat] /\ w.n[f] = v.n[f] - 1
      /\ \A g \in Fns : g # f => w.n[g] = v.n[g]
  <2>1. w.n = [g \in Fns |-> v.n[g] - One(g = f) + One(g = "None")]
    BY DEF Frees, Held, Moved, Collects, Posts
  <2>2. f \in Fns /\ v.n[f] >= 1
    BY <1>1, <1>e, FnNames
  <2>3. "None" \notin Fns
    BY FnNames
  <2> HIDE DEF w
  <2> QED BY <1>1, <2>1, <2>2, <2>3 DEF Types, One
<1>4. /\ w.h = [v.h EXCEPT !.phase = "FWD_P2P", !.pendChunk = v.h.chunk, !.pendFwd = TRUE]
      /\ w.cc = v.cc /\ w.rq = v.rq /\ w.pq = v.pq + 1
  BY <1>1, <1>2, Dec DEF Types, Frees, Held, Moved, Collects, Posts, IsHybridCC, Fields
<1> HIDE DEF w
<1>5. /\ IsHybridCC(w.h) /\ Act(w) = "FWD_P2P"
      /\ \A k \in Fields : k # "phase" /\ k # "pendChunk" /\ k # "pendFwd" => w.h[k] = v.h[k]
      /\ w.h.phase = "FWD_P2P" /\ w.h.pendChunk = v.h.chunk /\ w.h.pendFwd = TRUE
  BY <1>1, <1>2, <1>4 DEF Types, IsHybridCC, Fields, Act
<1>p. w.h.phase \in Phases
  BY <1>1, <1>5 DEF Types, Fields, Phases, FwdPhases, BwdPhases
<1>6. Types(w, c)
  BY <1>1, <1>2, <1>3, <1>4, <1>5, <1>p DEF Types, Fields, EventConf
<1>7. Tokens(w)
  BY <1>1, <1>2, <1>3, <1>4, <1>5, FnNames DEF Types, Tokens, One, P2PPhases, FwdPhases, BwdPhases, Fields
<1>8. Notes(w, s, c)
  BY <1>1, <1>2, <1>5 DEF Notes, BwdPhases, FwdPhases, One, Fields
<1>9. RingOK(w, i)
  BY <1>1, <1>2, <1>3, <1>4, <1>5, FnNames DEF Types, RingOK, RingPhases
<1>a. w.h.fwdIdx = v.h.fwdIdx /\ w.h.fwdReady = v.h.fwdReady /\ w.h.bwdIdx = v.h.bwdIdx /\ w.h.bwdReady = v.h.bwdReady
  BY <1>5 DEF Fields
<1>b. w.n["OnP2PFwdRecv_EventDriven"] = v.n["OnP2PFwdRecv_EventDriven"] /\ w.n["OnP2PBwdRecv_EventDriven"] = v.n["OnP2PBwdRecv_EventDriven"] /\ w.n["OnP2PFwdRecv"] = v.n["OnP2PFwdRecv"] /\ w.n["OnP2PBwdRecv"] = v.n["OnP2PBwdRecv"] /\ w.n["StartApplication"] = v.n["StartApplication"]
  BY <1>3, FnNames
<1>c. One(Act(w) \in FwdPhases) = One(Act(v) \in FwdPhases)
  BY <1>1, <1>2, <1>5 DEF FwdPhases, One, Notes, Counts
<1>10. Counts(w, s, c)
  BY <1>1, <1>2, <1>a, <1>b, <1>c, CountsFrame
<1>11. GroupStep(v, w)
  BY <1>1, <1>2, <1>3, <1>4, <1>5, FnNames DEF GroupStep, Fields, P2PPhases, RingPhases
<1>t. w.n["OnP2PFwdComplete"] = v.n["OnP2PFwdComplete"] /\ w.n["OnP2PBwdComplete"] = v.n["OnP2PBwdComplete"]
  BY <1>3, FnNames
<1>12. SameLinks(v, w, s)
  <2>1. One(Act(w) \in BwdPhases) = One(Act(v) \in BwdPhases)
    BY <1>1, <1>2, <1>5 DEF BwdPhases, One
  <2>2. v.n["OnP2PFwdRecv"] \in Nat /\ v.n["OnP2PBwdRecv"] \in Nat /\ v.n["OnP2PFwdComplete"] \in Nat /\ v.n["OnP2PBwdComplete"] \in Nat /\ One(Act(v) \in BwdPhases) \in 0..1
    BY <1>1, FnNames DEF Types, One
  <2> QED BY <1>2, <1>a, <1>b, <1>c, <1>e, <1>t, <2>1, <2>2 DEF SameLinks, FwdIn, FwdOut, BwdIn, BwdOut
<1> QED BY <1>6, <1>7, <1>8, <1>9, <1>10, <1>11, <1>12 DEF RankStep, RankOK, w

LEMMA FwdComputedLast ==
  ASSUME NEW c \in EventConf, NEW s \in Stages, NEW i \in 0..1, NEW v, RankOK(v, s, i, c),
         v.n["OnFwdComputeDone"] # 0,
         s = PP - 1
  PROVE  RankStep(v, Frees(v, "OnFwdComputeDone", [v.h EXCEPT !.inflight = Dec16(@), !.bwdReady = IF c.train THEN @ + 1 ELSE @]), s, i, c)
<1> DEFINE f == "OnFwdComputeDone"
           w == Frees(v, f, [v.h EXCEPT !.inflight = Dec16(@), !.bwdReady = IF c.train THEN @ + 1 ELSE @])
<1>1. Types(v, c) /\ Tokens(v) /\ Notes(v, s, c) /\ RingOK(v, i) /\ Counts(v, s, c)
  BY DEF RankOK
<1>e. /\ c.chunks \in Nat
      /\ v.h.fwdIdx \in Nat /\ v.h.bwdIdx \in Nat /\ v.h.fwdReady \in Nat /\ v.h.bwdReady \in Nat
      /\ v.n["OnP2PFwdRecv_EventDriven"] \in Nat /\ v.n["OnP2PBwdRecv_EventDriven"] \in Nat
      /\ v.n["OnFwdComputeDone"] \in Nat
      /\ One(Act(v) \in FwdPhases) \in 0..1
  BY <1>1, FnNames DEF Types, One, EventConf
<1>2. v.n[f] = 1 /\ Act(v) = "FWD_COMPUTE" /\ v.h.inflight = 1
  BY <1>1, <1>e DEF Tokens, Notes, One, Act, FwdPhases
<1>3. /\ w.n \in [Fns -> Nat] /\ w.n[f] = v.n[f] - 1
      /\ \A g \in Fns : g # f /\ g # "ScheduleNext" => w.n[g] = v.n[g]
  <2>1. w.n = [g \in Fns |-> v.n[g] - One(g = f) + One(g = "ScheduleNext")]
    BY DEF Frees, Held, Moved, Collects, Posts
  <2>2. f \in Fns /\ "ScheduleNext" \in Fns /\ v.n[f] >= 1
    BY <1>1, <1>e, FnNames
  <2>3. f # "ScheduleNext"
    BY FnNames
  <2> HIDE DEF w
  <2> QED BY <1>1, <2>1, <2>2, <2>3 DEF Types, One
<1>4. /\ w.h = [v.h EXCEPT !.inflight = 0, !.bwdReady = (IF c.train THEN v.h.bwdReady + 1 ELSE v.h.bwdReady), !.busy = FALSE]
      /\ w.cc = v.cc /\ w.rq = v.rq /\ w.pq = v.pq
  BY <1>1, <1>2, Dec DEF Types, Frees, Held, Moved, Collects, Posts, IsHybridCC, Fields
<1> HIDE DEF w
<1>5. /\ IsHybridCC(w.h) /\ Act(w) = "IDLE"
      /\ \A k \in Fields : k # "inflight" /\ k # "bwdReady" /\ k # "busy" => w.h[k] = v.h[k]
      /\ w.h.inflight = 0 /\ w.h.bwdReady = (IF c.train THEN v.h.bwdReady + 1 ELSE v.h.bwdReady) /\ w.h.busy = FALSE
  BY <1>1, <1>2, <1>4 DEF Types, IsHybridCC, Fields, Act
<1>p. w.h.phase \in Phases
  BY <1>1, <1>5 DEF Types, Fields, Phases, FwdPhases, BwdPhases
<1>6. Types(w, c)
  BY <1>1, <1>2, <1>3, <1>4, <1>5, <1>p DEF Types, Fields, EventConf
<1>7. Tokens(w)
  BY <1>1, <1>2, <1>3, <1>4, <1>5, FnNames DEF Types, Tokens, One, P2PPhases, FwdPhases, BwdPhases, Fields
<1>8. Notes(w, s, c)
  BY <1>1, <1>2, <1>5 DEF Notes, BwdPhases, FwdPhases, One, Fields
<1>9. RingOK(w, i)
  BY <1>1, <1>2, <1>3, <1>4, <1>5, FnNames DEF Types, RingOK, RingPhases
<1>a. w.h.fwdIdx = v.h.fwdIdx /\ w.h.fwdReady = v.h.fwdReady /\ w.h.bwdIdx = v.h.bwdIdx
  BY <1>5 DEF Fields
<1>b. w.n["OnP2PFwdRecv_EventDriven"] = v.n["OnP2PFwdRecv_EventDriven"] /\ w.n["OnP2PBwdRecv_EventDriven"] = v.n["OnP2PBwdRecv_EventDriven"] /\ w.n["OnP2PFwdRecv"] = v.n["OnP2PFwdRecv"] /\ w.n["OnP2PBwdRecv"] = v.n["OnP2PBwdRecv"] /\ w.n["StartApplication"] = v.n["StartApplication"]
  BY <1>3, FnNames
<1>c. One(Act(w) \in FwdPhases) = One(Act(v) \in FwdPhases) - 1
  BY <1>1, <1>2, <1>5 DEF FwdPhases, One, Notes, Counts
<1>d. w.h.bwdReady = (IF c.train THEN v.h.bwdReady + 1 ELSE v.h.bwdReady)
  BY <1>3, <1>5
<1>10. Counts(w, s, c)
  <2>1. s = 0 => v.n["StartApplication"] = w.n["StartApplication"]
    BY <1>b
  <2>2. CASE c.train
    <3>1. w.h.bwdIdx + w.h.bwdReady = w.h.fwdIdx - One(Act(w) \in FwdPhases)
      BY <1>1, <1>2, <1>a, <1>c, <1>d, <1>e, <2>2 DEF Counts
    <3>2. w.h.bwdIdx + w.h.bwdReady + w.n["OnP2PBwdRecv_EventDriven"] <= c.chunks
      <4>1. v.h.fwdIdx + v.h.fwdReady + v.n["OnP2PFwdRecv_EventDriven"] <= c.chunks
        BY <1>1 DEF Counts
      <4>2. w.n["OnP2PBwdRecv_EventDriven"] = 0
        BY <1>1, <1>b DEF Counts
      <4>3. w.h.bwdIdx + w.h.bwdReady <= v.h.fwdIdx
        <5>1. One(Act(w) \in FwdPhases) = 0
          BY <1>5 DEF One, FwdPhases
        <5>2. w.h.bwdIdx + w.h.bwdReady = v.h.fwdIdx - 0
          BY <1>a, <3>1, <5>1
        <5> QED BY <1>e, <5>2
      <4> QED BY <1>a, <1>d, <1>e, <2>2, <4>1, <4>2, <4>3
    <3> QED BY <1>1, <1>a, <1>b, <2>2, <3>1, <3>2 DEF Counts
  <2>3. CASE ~c.train
    BY <1>1, <1>a, <1>b, <1>d, <2>3 DEF Counts
  <2> QED BY <2>2, <2>3
<1>11. GroupStep(v, w)
  BY <1>1, <1>2, <1>3, <1>4, <1>5, FnNames DEF GroupStep, Fields, P2PPhases, RingPhases
<1>t. w.n["OnP2PFwdComplete"] = v.n["OnP2PFwdComplete"] /\ w.n["OnP2PBwdComplete"] = v.n["OnP2PBwdComplete"]
  BY <1>3, FnNames
<1>12. SameLinks(v, w, s)
  <2>1. One(Act(w) \in BwdPhases) = One(Act(v) \in BwdPhases)
    BY <1>1, <1>2, <1>5 DEF BwdPhases, One
  <2>2. v.n["OnP2PFwdRecv"] \in Nat /\ v.n["OnP2PBwdRecv"] \in Nat /\ v.n["OnP2PFwdComplete"] \in Nat /\ v.n["OnP2PBwdComplete"] \in Nat /\ One(Act(v) \in BwdPhases) \in 0..1
    BY <1>1, FnNames DEF Types, One
  <2> QED BY <1>2, <1>a, <1>b, <1>c, <1>d, <1>e, <1>t, <2>1, <2>2 DEF SameLinks, FwdIn, FwdOut, BwdIn, BwdOut
<1> QED BY <1>6, <1>7, <1>8, <1>9, <1>10, <1>11, <1>12 DEF RankStep, RankOK, w

LEMMA Bwd1ComputedRank ==
  ASSUME NEW c \in EventConf, NEW s \in Stages, NEW i \in 0..1, NEW v, RankOK(v, s, i, c),
         v.n["OnBwdCompute1Done"] # 0
  PROVE  RankStep(v, Collects(v, "OnBwdCompute1Done", i, [v.h EXCEPT !.phase = "BWD_RS", !.cb = "OnBwdRSComplete"]), s, i, c)
<1> DEFINE f == "OnBwdCompute1Done"
           w == Collects(v, f, i, [v.h EXCEPT !.phase = "BWD_RS", !.cb = "OnBwdRSComplete"])
<1>1. Types(v, c) /\ Tokens(v) /\ Notes(v, s, c) /\ RingOK(v, i) /\ Counts(v, s, c)
  BY DEF RankOK
<1>e. /\ c.chunks \in Nat
      /\ v.h.fwdIdx \in Nat /\ v.h.bwdIdx \in Nat /\ v.h.fwdReady \in Nat /\ v.h.bwdReady \in Nat
      /\ v.n["OnP2PFwdRecv_EventDriven"] \in Nat /\ v.n["OnP2PBwdRecv_EventDriven"] \in Nat
      /\ v.n["OnBwdCompute1Done"] \in Nat
      /\ One(Act(v) \in FwdPhases) \in 0..1
  BY <1>1, FnNames DEF Types, One, EventConf
<1>2. v.n[f] = 1 /\ Act(v) = "BWD_COMPUTE_1" /\ v.h.busy = TRUE
  BY <1>1, <1>e DEF Tokens, One, Act
<1>3. /\ w.n \in [Fns -> Nat] /\ w.n[f] = v.n[f] - 1 /\ w.n["RdmaStart"] = v.n["RdmaStart"] + 1
      /\ \A g \in Fns : g # f /\ g # "RdmaStart" => w.n[g] = v.n[g]
  <2>1. w.n = [g \in Fns |-> v.n[g] - One(g = f) + One(g = "RdmaStart")]
    BY DEF Frees, Held, Moved, Collects, Posts
  <2>2. f \in Fns /\ "RdmaStart" \in Fns /\ v.n[f] >= 1
    BY <1>1, <1>e, FnNames
  <2>3. f # "RdmaStart"
    BY FnNames
  <2> HIDE DEF w
  <2> QED BY <1>1, <2>1, <2>2, <2>3 DEF Types, One
<1>4. /\ w.h = [v.h EXCEPT !.phase = "BWD_RS", !.cb = "OnBwdRSComplete"]
      /\ w.cc = Ring(i, 2, 1) /\ w.rq = v.rq /\ w.pq = v.pq
  BY <1>1, <1>2, Dec DEF Types, Frees, Held, Moved, Collects, Posts, IsHybridCC, Fields
<1> HIDE DEF w
<1>5. /\ IsHybridCC(w.h) /\ Act(w) = "BWD_RS"
      /\ \A k \in Fields : k # "phase" /\ k # "cb" => w.h[k] = v.h[k]
      /\ w.h.phase = "BWD_RS" /\ w.h.cb = "OnBwdRSComplete"
  BY <1>1, <1>2, <1>4 DEF Types, IsHybridCC, Fields, Act
<1>p. w.h.phase \in Phases
  BY <1>1, <1>5 DEF Types, Fields, Phases, FwdPhases, BwdPhases
<1>6. Types(w, c)
  BY <1>1, <1>2, <1>3, <1>4, <1>5, <1>p DEF Types, Fields, EventConf, Ring
<1>7. Tokens(w)
  BY <1>1, <1>2, <1>3, <1>4, <1>5, FnNames DEF Types, Tokens, One, P2PPhases, FwdPhases, BwdPhases, Fields
<1>8. Notes(w, s, c)
  BY <1>1, <1>2, <1>5 DEF Notes, BwdPhases, FwdPhases, One, Fields
<1>9. RingOK(w, i)
  BY <1>1, <1>2, <1>3, <1>4, <1>5, FnNames DEF Types, RingOK, RingPhases
<1>a. w.h.fwdIdx = v.h.fwdIdx /\ w.h.fwdReady = v.h.fwdReady /\ w.h.bwdIdx = v.h.bwdIdx /\ w.h.bwdReady = v.h.bwdReady
  BY <1>5 DEF Fields
<1>b. w.n["OnP2PFwdRecv_EventDriven"] = v.n["OnP2PFwdRecv_EventDriven"] /\ w.n["OnP2PBwdRecv_EventDriven"] = v.n["OnP2PBwdRecv_EventDriven"] /\ w.n["OnP2PFwdRecv"] = v.n["OnP2PFwdRecv"] /\ w.n["OnP2PBwdRecv"] = v.n["OnP2PBwdRecv"] /\ w.n["StartApplication"] = v.n["StartApplication"]
  BY <1>3, FnNames
<1>c. One(Act(w) \in FwdPhases) = One(Act(v) \in FwdPhases)
  BY <1>1, <1>2, <1>5 DEF FwdPhases, One, Notes, Counts
<1>10. Counts(w, s, c)
  BY <1>1, <1>2, <1>a, <1>b, <1>c, CountsFrame
<1>11. GroupStep(v, w)
  BY <1>1, <1>2, <1>3, <1>4, <1>5, FnNames DEF GroupStep, Fields, P2PPhases, RingPhases
<1>t. w.n["OnP2PFwdComplete"] = v.n["OnP2PFwdComplete"] /\ w.n["OnP2PBwdComplete"] = v.n["OnP2PBwdComplete"]
  BY <1>3, FnNames
<1>12. SameLinks(v, w, s)
  <2>1. One(Act(w) \in BwdPhases) = One(Act(v) \in BwdPhases)
    BY <1>1, <1>2, <1>5 DEF BwdPhases, One
  <2>2. v.n["OnP2PFwdRecv"] \in Nat /\ v.n["OnP2PBwdRecv"] \in Nat /\ v.n["OnP2PFwdComplete"] \in Nat /\ v.n["OnP2PBwdComplete"] \in Nat /\ One(Act(v) \in BwdPhases) \in 0..1
    BY <1>1, FnNames DEF Types, One
  <2> QED BY <1>2, <1>a, <1>b, <1>c, <1>e, <1>t, <2>1, <2>2 DEF SameLinks, FwdIn, FwdOut, BwdIn, BwdOut
<1> QED BY <1>6, <1>7, <1>8, <1>9, <1>10, <1>11, <1>12 DEF RankStep, RankOK, w

LEMMA Bwd2ComputedFirst ==
  ASSUME NEW c \in EventConf, NEW s \in Stages, NEW i \in 0..1, NEW v, RankOK(v, s, i, c),
         v.n["OnBwdCompute2Done"] # 0,
         s = 0
  PROVE  RankStep(v, Frees(v, "OnBwdCompute2Done", v.h), s, i, c)
<1> DEFINE f == "OnBwdCompute2Done"
           w == Frees(v, f, v.h)
<1>1. Types(v, c) /\ Tokens(v) /\ Notes(v, s, c) /\ RingOK(v, i) /\ Counts(v, s, c)
  BY DEF RankOK
<1>e. /\ c.chunks \in Nat
      /\ v.h.fwdIdx \in Nat /\ v.h.bwdIdx \in Nat /\ v.h.fwdReady \in Nat /\ v.h.bwdReady \in Nat
      /\ v.n["OnP2PFwdRecv_EventDriven"] \in Nat /\ v.n["OnP2PBwdRecv_EventDriven"] \in Nat
      /\ v.n["OnBwdCompute2Done"] \in Nat
      /\ One(Act(v) \in FwdPhases) \in 0..1
  BY <1>1, FnNames DEF Types, One, EventConf
<1>2. v.n[f] = 1 /\ Act(v) = "BWD_COMPUTE_2"
  BY <1>1, <1>e DEF Tokens, One, Act
<1>3. /\ w.n \in [Fns -> Nat] /\ w.n[f] = v.n[f] - 1
      /\ \A g \in Fns : g # f /\ g # "ScheduleNext" => w.n[g] = v.n[g]
  <2>1. w.n = [g \in Fns |-> v.n[g] - One(g = f) + One(g = "ScheduleNext")]
    BY DEF Frees, Held, Moved, Collects, Posts
  <2>2. f \in Fns /\ "ScheduleNext" \in Fns /\ v.n[f] >= 1
    BY <1>1, <1>e, FnNames
  <2>3. f # "ScheduleNext"
    BY FnNames
  <2> HIDE DEF w
  <2> QED BY <1>1, <2>1, <2>2, <2>3 DEF Types, One
<1>4. /\ w.h = [v.h EXCEPT !.busy = FALSE]
      /\ w.cc = v.cc /\ w.rq = v.rq /\ w.pq = v.pq
  BY <1>1, <1>2, Dec DEF Types, Frees, Held, Moved, Collects, Posts, IsHybridCC, Fields
<1> HIDE DEF w
<1>5. /\ IsHybridCC(w.h) /\ Act(w) = "IDLE"
      /\ \A k \in Fields : k # "busy" => w.h[k] = v.h[k]
      /\ w.h.busy = FALSE
  BY <1>1, <1>2, <1>4 DEF Types, IsHybridCC, Fields, Act
<1>p. w.h.phase \in Phases
  BY <1>1, <1>5 DEF Types, Fields, Phases, FwdPhases, BwdPhases
<1>6. Types(w, c)
  BY <1>1, <1>2, <1>3, <1>4, <1>5, <1>p DEF Types, Fields, EventConf
<1>7. Tokens(w)
  BY <1>1, <1>2, <1>3, <1>4, <1>5, FnNames DEF Types, Tokens, One, P2PPhases, FwdPhases, BwdPhases, Fields
<1>8. Notes(w, s, c)
  BY <1>1, <1>2, <1>5 DEF Notes, BwdPhases, FwdPhases, One, Fields
<1>9. RingOK(w, i)
  BY <1>1, <1>2, <1>3, <1>4, <1>5, FnNames DEF Types, RingOK, RingPhases
<1>a. w.h.fwdIdx = v.h.fwdIdx /\ w.h.fwdReady = v.h.fwdReady /\ w.h.bwdIdx = v.h.bwdIdx /\ w.h.bwdReady = v.h.bwdReady
  BY <1>5 DEF Fields
<1>b. w.n["OnP2PFwdRecv_EventDriven"] = v.n["OnP2PFwdRecv_EventDriven"] /\ w.n["OnP2PBwdRecv_EventDriven"] = v.n["OnP2PBwdRecv_EventDriven"] /\ w.n["OnP2PFwdRecv"] = v.n["OnP2PFwdRecv"] /\ w.n["OnP2PBwdRecv"] = v.n["OnP2PBwdRecv"] /\ w.n["StartApplication"] = v.n["StartApplication"]
  BY <1>3, FnNames
<1>c. One(Act(w) \in FwdPhases) = One(Act(v) \in FwdPhases)
  BY <1>1, <1>2, <1>5 DEF FwdPhases, One, Notes, Counts
<1>10. Counts(w, s, c)
  BY <1>1, <1>2, <1>a, <1>b, <1>c, CountsFrame
<1>11. GroupStep(v, w)
  BY <1>1, <1>2, <1>3, <1>4, <1>5, FnNames DEF GroupStep, Fields, P2PPhases, RingPhases
<1>t. w.n["OnP2PFwdComplete"] = v.n["OnP2PFwdComplete"] /\ w.n["OnP2PBwdComplete"] = v.n["OnP2PBwdComplete"]
  BY <1>3, FnNames
<1>12. SameLinks(v, w, s)
  <2>1. One(Act(w) \in BwdPhases) = One(Act(v) \in BwdPhases) - 1
    BY <1>1, <1>2, <1>5 DEF BwdPhases, One
  <2>2. v.n["OnP2PFwdRecv"] \in Nat /\ v.n["OnP2PBwdRecv"] \in Nat /\ v.n["OnP2PFwdComplete"] \in Nat /\ v.n["OnP2PBwdComplete"] \in Nat /\ One(Act(v) \in BwdPhases) \in 0..1
    BY <1>1, FnNames DEF Types, One
  <2> QED BY <1>2, <1>a, <1>b, <1>c, <1>e, <1>t, <2>1, <2>2 DEF SameLinks, FwdIn, FwdOut, BwdIn, BwdOut
<1> QED BY <1>6, <1>7, <1>8, <1>9, <1>10, <1>11, <1>12 DEF RankStep, RankOK, w

LEMMA Bwd2ComputedRank ==
  ASSUME NEW c \in EventConf, NEW s \in Stages, NEW i \in 0..1, NEW v, RankOK(v, s, i, c),
         v.n["OnBwdCompute2Done"] # 0,
         s # 0
  PROVE  RankStep(v, Posts(v, "OnBwdCompute2Done", "BWD_P2P", FALSE), s, i, c)
<1> DEFINE f == "OnBwdCompute2Done"
           w == Posts(v, f, "BWD_P2P", FALSE)
<1>1. Types(v, c) /\ Tokens(v) /\ Notes(v, s, c) /\ RingOK(v, i) /\ Counts(v, s, c)
  BY DEF RankOK
<1>e. /\ c.chunks \in Nat
      /\ v.h.fwdIdx \in Nat /\ v.h.bwdIdx \in Nat /\ v.h.fwdReady \in Nat /\ v.h.bwdReady \in Nat
      /\ v.n["OnP2PFwdRecv_EventDriven"] \in Nat /\ v.n["OnP2PBwdRecv_EventDriven"] \in Nat
      /\ v.n["OnBwdCompute2Done"] \in Nat
      /\ One(Act(v) \in FwdPhases) \in 0..1
  BY <1>1, FnNames DEF Types, One, EventConf
<1>2. v.n[f] = 1 /\ Act(v) = "BWD_COMPUTE_2" /\ v.h.busy = TRUE
  BY <1>1, <1>e DEF Tokens, One, Act
<1>3. /\ w.n \in [Fns -> Nat] /\ w.n[f] = v.n[f] - 1
      /\ \A g \in Fns : g # f => w.n[g] = v.n[g]
  <2>1. w.n = [g \in Fns |-> v.n[g] - One(g = f) + One(g = "None")]
    BY DEF Frees, Held, Moved, Collects, Posts
  <2>2. f \in Fns /\ v.n[f] >= 1
    BY <1>1, <1>e, FnNames
  <2>3. "None" \notin Fns
    BY FnNames
  <2> HIDE DEF w
  <2> QED BY <1>1, <2>1, <2>2, <2>3 DEF Types, One
<1>4. /\ w.h = [v.h EXCEPT !.phase = "BWD_P2P", !.pendChunk = v.h.chunk, !.pendFwd = FALSE]
      /\ w.cc = v.cc /\ w.rq = v.rq /\ w.pq = v.pq + 1
  BY <1>1, <1>2, Dec DEF Types, Frees, Held, Moved, Collects, Posts, IsHybridCC, Fields
<1> HIDE DEF w
<1>5. /\ IsHybridCC(w.h) /\ Act(w) = "BWD_P2P"
      /\ \A k \in Fields : k # "phase" /\ k # "pendChunk" /\ k # "pendFwd" => w.h[k] = v.h[k]
      /\ w.h.phase = "BWD_P2P" /\ w.h.pendChunk = v.h.chunk /\ w.h.pendFwd = FALSE
  BY <1>1, <1>2, <1>4 DEF Types, IsHybridCC, Fields, Act
<1>p. w.h.phase \in Phases
  BY <1>1, <1>5 DEF Types, Fields, Phases, FwdPhases, BwdPhases
<1>6. Types(w, c)
  BY <1>1, <1>2, <1>3, <1>4, <1>5, <1>p DEF Types, Fields, EventConf
<1>7. Tokens(w)
  BY <1>1, <1>2, <1>3, <1>4, <1>5, FnNames DEF Types, Tokens, One, P2PPhases, FwdPhases, BwdPhases, Fields
<1>8. Notes(w, s, c)
  BY <1>1, <1>2, <1>5 DEF Notes, BwdPhases, FwdPhases, One, Fields
<1>9. RingOK(w, i)
  BY <1>1, <1>2, <1>3, <1>4, <1>5, FnNames DEF Types, RingOK, RingPhases
<1>a. w.h.fwdIdx = v.h.fwdIdx /\ w.h.fwdReady = v.h.fwdReady /\ w.h.bwdIdx = v.h.bwdIdx /\ w.h.bwdReady = v.h.bwdReady
  BY <1>5 DEF Fields
<1>b. w.n["OnP2PFwdRecv_EventDriven"] = v.n["OnP2PFwdRecv_EventDriven"] /\ w.n["OnP2PBwdRecv_EventDriven"] = v.n["OnP2PBwdRecv_EventDriven"] /\ w.n["OnP2PFwdRecv"] = v.n["OnP2PFwdRecv"] /\ w.n["OnP2PBwdRecv"] = v.n["OnP2PBwdRecv"] /\ w.n["StartApplication"] = v.n["StartApplication"]
  BY <1>3, FnNames
<1>c. One(Act(w) \in FwdPhases) = One(Act(v) \in FwdPhases)
  BY <1>1, <1>2, <1>5 DEF FwdPhases, One, Notes, Counts
<1>10. Counts(w, s, c)
  BY <1>1, <1>2, <1>a, <1>b, <1>c, CountsFrame
<1>11. GroupStep(v, w)
  BY <1>1, <1>2, <1>3, <1>4, <1>5, FnNames DEF GroupStep, Fields, P2PPhases, RingPhases
<1>t. w.n["OnP2PFwdComplete"] = v.n["OnP2PFwdComplete"] /\ w.n["OnP2PBwdComplete"] = v.n["OnP2PBwdComplete"]
  BY <1>3, FnNames
<1>12. SameLinks(v, w, s)
  <2>1. One(Act(w) \in BwdPhases) = One(Act(v) \in BwdPhases)
    BY <1>1, <1>2, <1>5 DEF BwdPhases, One
  <2>2. v.n["OnP2PFwdRecv"] \in Nat /\ v.n["OnP2PBwdRecv"] \in Nat /\ v.n["OnP2PFwdComplete"] \in Nat /\ v.n["OnP2PBwdComplete"] \in Nat /\ One(Act(v) \in BwdPhases) \in 0..1
    BY <1>1, FnNames DEF Types, One
  <2> QED BY <1>2, <1>a, <1>b, <1>c, <1>e, <1>t, <2>1, <2>2 DEF SameLinks, FwdIn, FwdOut, BwdIn, BwdOut
<1> QED BY <1>6, <1>7, <1>8, <1>9, <1>10, <1>11, <1>12 DEF RankStep, RankOK, w

LEMMA FwdCompleteRank ==
  ASSUME NEW c \in EventConf, NEW s \in Stages, NEW i \in 0..1, NEW v, RankOK(v, s, i, c),
         v.n["OnP2PFwdComplete"] # 0
  PROVE  RankStep(v, Frees(v, "OnP2PFwdComplete", [v.h EXCEPT !.inflight = Dec16(@)]), s, i, c)
<1> DEFINE f == "OnP2PFwdComplete"
           w == Frees(v, f, [v.h EXCEPT !.inflight = Dec16(@)])
<1>1. Types(v, c) /\ Tokens(v) /\ Notes(v, s, c) /\ RingOK(v, i) /\ Counts(v, s, c)
  BY DEF RankOK
<1>e. /\ c.chunks \in Nat
      /\ v.h.fwdIdx \in Nat /\ v.h.bwdIdx \in Nat /\ v.h.fwdReady \in Nat /\ v.h.bwdReady \in Nat
      /\ v.n["OnP2PFwdRecv_EventDriven"] \in Nat /\ v.n["OnP2PBwdRecv_EventDriven"] \in Nat
      /\ v.n["OnP2PFwdComplete"] \in Nat
      /\ One(Act(v) \in FwdPhases) \in 0..1
  BY <1>1, FnNames DEF Types, One, EventConf
<1>2. Act(v) = "FWD_P2P" /\ v.h.inflight = 1 /\ s # PP - 1
  BY <1>1, <1>e DEF Tokens, Notes, One, FwdPhases
<1>3. /\ w.n \in [Fns -> Nat] /\ w.n[f] = v.n[f] - 1
      /\ \A g \in Fns : g # f /\ g # "ScheduleNext" => w.n[g] = v.n[g]
  <2>1. w.n = [g \in Fns |-> v.n[g] - One(g = f) + One(g = "ScheduleNext")]
    BY DEF Frees, Held, Moved, Collects, Posts
  <2>2. f \in Fns /\ "ScheduleNext" \in Fns /\ v.n[f] >= 1
    BY <1>1, <1>e, FnNames
  <2>3. f # "ScheduleNext"
    BY FnNames
  <2> HIDE DEF w
  <2> QED BY <1>1, <2>1, <2>2, <2>3 DEF Types, One
<1>4. /\ w.h = [v.h EXCEPT !.inflight = 0, !.busy = FALSE]
      /\ w.cc = v.cc /\ w.rq = v.rq /\ w.pq = v.pq
  BY <1>1, <1>2, Dec DEF Types, Frees, Held, Moved, Collects, Posts, IsHybridCC, Fields
<1> HIDE DEF w
<1>5. /\ IsHybridCC(w.h) /\ Act(w) = "IDLE"
      /\ \A k \in Fields : k # "inflight" /\ k # "busy" => w.h[k] = v.h[k]
      /\ w.h.inflight = 0 /\ w.h.busy = FALSE
  BY <1>1, <1>2, <1>4 DEF Types, IsHybridCC, Fields, Act
<1>p. w.h.phase \in Phases
  BY <1>1, <1>5 DEF Types, Fields, Phases, FwdPhases, BwdPhases
<1>6. Types(w, c)
  BY <1>1, <1>2, <1>3, <1>4, <1>5, <1>p DEF Types, Fields, EventConf
<1>7. Tokens(w)
  BY <1>1, <1>2, <1>3, <1>4, <1>5, FnNames DEF Types, Tokens, One, P2PPhases, FwdPhases, BwdPhases, Fields
<1>8. Notes(w, s, c)
  BY <1>1, <1>2, <1>5 DEF Notes, BwdPhases, FwdPhases, One, Fields
<1>9. RingOK(w, i)
  BY <1>1, <1>2, <1>3, <1>4, <1>5, FnNames DEF Types, RingOK, RingPhases
<1>a. w.h.fwdIdx = v.h.fwdIdx /\ w.h.fwdReady = v.h.fwdReady /\ w.h.bwdIdx = v.h.bwdIdx /\ w.h.bwdReady = v.h.bwdReady
  BY <1>5 DEF Fields
<1>b. w.n["OnP2PFwdRecv_EventDriven"] = v.n["OnP2PFwdRecv_EventDriven"] /\ w.n["OnP2PBwdRecv_EventDriven"] = v.n["OnP2PBwdRecv_EventDriven"] /\ w.n["OnP2PFwdRecv"] = v.n["OnP2PFwdRecv"] /\ w.n["OnP2PBwdRecv"] = v.n["OnP2PBwdRecv"] /\ w.n["StartApplication"] = v.n["StartApplication"]
  BY <1>3, FnNames
<1>c. One(Act(w) \in FwdPhases) = One(Act(v) \in FwdPhases) - 1
  BY <1>1, <1>2, <1>5 DEF FwdPhases, One, Notes, Counts
<1>10. Counts(w, s, c)
  BY <1>1, <1>2, <1>a, <1>b, <1>c, CountsFrame
<1>11. GroupStep(v, w)
  BY <1>1, <1>2, <1>3, <1>4, <1>5, FnNames DEF GroupStep, Fields, P2PPhases, RingPhases
<1>t. w.n["OnP2PFwdComplete"] = v.n["OnP2PFwdComplete"] - 1 /\ w.n["OnP2PBwdComplete"] = v.n["OnP2PBwdComplete"]
  BY <1>3, FnNames
<1>12. SameLinks(v, w, s)
  <2>1. One(Act(w) \in BwdPhases) = One(Act(v) \in BwdPhases)
    BY <1>1, <1>2, <1>5 DEF BwdPhases, One
  <2>2. v.n["OnP2PFwdRecv"] \in Nat /\ v.n["OnP2PBwdRecv"] \in Nat /\ v.n["OnP2PFwdComplete"] \in Nat /\ v.n["OnP2PBwdComplete"] \in Nat /\ One(Act(v) \in BwdPhases) \in 0..1
    BY <1>1, FnNames DEF Types, One
  <2> QED BY <1>2, <1>a, <1>b, <1>c, <1>e, <1>t, <2>1, <2>2 DEF SameLinks, FwdIn, FwdOut, BwdIn, BwdOut
<1> QED BY <1>6, <1>7, <1>8, <1>9, <1>10, <1>11, <1>12 DEF RankStep, RankOK, w

LEMMA BwdCompleteRank ==
  ASSUME NEW c \in EventConf, NEW s \in Stages, NEW i \in 0..1, NEW v, RankOK(v, s, i, c),
         v.n["OnP2PBwdComplete"] # 0
  PROVE  RankStep(v, Frees(v, "OnP2PBwdComplete", v.h), s, i, c)
<1> DEFINE f == "OnP2PBwdComplete"
           w == Frees(v, f, v.h)
<1>1. Types(v, c) /\ Tokens(v) /\ Notes(v, s, c) /\ RingOK(v, i) /\ Counts(v, s, c)
  BY DEF RankOK
<1>e. /\ c.chunks \in Nat
      /\ v.h.fwdIdx \in Nat /\ v.h.bwdIdx \in Nat /\ v.h.fwdReady \in Nat /\ v.h.bwdReady \in Nat
      /\ v.n["OnP2PFwdRecv_EventDriven"] \in Nat /\ v.n["OnP2PBwdRecv_EventDriven"] \in Nat
      /\ v.n["OnP2PBwdComplete"] \in Nat
      /\ One(Act(v) \in FwdPhases) \in 0..1
  BY <1>1, FnNames DEF Types, One, EventConf
<1>2. Act(v) = "BWD_P2P"
  BY <1>1, <1>e DEF Tokens
<1>3. /\ w.n \in [Fns -> Nat] /\ w.n[f] = v.n[f] - 1
      /\ \A g \in Fns : g # f /\ g # "ScheduleNext" => w.n[g] = v.n[g]
  <2>1. w.n = [g \in Fns |-> v.n[g] - One(g = f) + One(g = "ScheduleNext")]
    BY DEF Frees, Held, Moved, Collects, Posts
  <2>2. f \in Fns /\ "ScheduleNext" \in Fns /\ v.n[f] >= 1
    BY <1>1, <1>e, FnNames
  <2>3. f # "ScheduleNext"
    BY FnNames
  <2> HIDE DEF w
  <2> QED BY <1>1, <2>1, <2>2, <2>3 DEF Types, One
<1>4. /\ w.h = [v.h EXCEPT !.busy = FALSE]
      /\ w.cc = v.cc /\ w.rq = v.rq /\ w.pq = v.pq
  BY <1>1, <1>2, Dec DEF Types, Frees, Held, Moved, Collects, Posts, IsHybridCC, Fields
<1> HIDE DEF w
<1>5. /\ IsHybridCC(w.h) /\ Act(w) = "IDLE"
      /\ \A k \in Fields : k # "busy" => w.h[k] = v.h[k]
      /\ w.h.busy = FALSE
  BY <1>1, <1>2, <1>4 DEF Types, IsHybridCC, Fields, Act
<1>p. w.h.phase \in Phases
  BY <1>1, <1>5 DEF Types, Fields, Phases, FwdPhases, BwdPhases
<1>6. Types(w, c)
  BY <1>1, <1>2, <1>3, <1>4, <1>5, <1>p DEF Types, Fields, EventConf
<1>7. Tokens(w)
  BY <1>1, <1>2, <1>3, <1>4, <1>5, FnNames DEF Types, Tokens, One, P2PPhases, FwdPhases, BwdPhases, Fields
<1>8. Notes(w, s, c)
  BY <1>1, <1>2, <1>5 DEF Notes, BwdPhases, FwdPhases, One, Fields
<1>9. RingOK(w, i)
  BY <1>1, <1>2, <1>3, <1>4, <1>5, FnNames DEF Types, RingOK, RingPhases
<1>a. w.h.fwdIdx = v.h.fwdIdx /\ w.h.fwdReady = v.h.fwdReady /\ w.h.bwdIdx = v.h.bwdIdx /\ w.h.bwdReady = v.h.bwdReady
  BY <1>5 DEF Fields
<1>b. w.n["OnP2PFwdRecv_EventDriven"] = v.n["OnP2PFwdRecv_EventDriven"] /\ w.n["OnP2PBwdRecv_EventDriven"] = v.n["OnP2PBwdRecv_EventDriven"] /\ w.n["OnP2PFwdRecv"] = v.n["OnP2PFwdRecv"] /\ w.n["OnP2PBwdRecv"] = v.n["OnP2PBwdRecv"] /\ w.n["StartApplication"] = v.n["StartApplication"]
  BY <1>3, FnNames
<1>c. One(Act(w) \in FwdPhases) = One(Act(v) \in FwdPhases)
  BY <1>1, <1>2, <1>5 DEF FwdPhases, One, Notes, Counts
<1>10. Counts(w, s, c)
  BY <1>1, <1>2, <1>a, <1>b, <1>c, CountsFrame
<1>11. GroupStep(v, w)
  BY <1>1, <1>2, <1>3, <1>4, <1>5, FnNames DEF GroupStep, Fields, P2PPhases, RingPhases
<1>t. w.n["OnP2PFwdComplete"] = v.n["OnP2PFwdComplete"] /\ w.n["OnP2PBwdComplete"] = v.n["OnP2PBwdComplete"] - 1
  BY <1>3, FnNames
<1>12. SameLinks(v, w, s)
  <2>1. One(Act(w) \in BwdPhases) = One(Act(v) \in BwdPhases) - 1
    BY <1>1, <1>2, <1>5 DEF BwdPhases, One
  <2>2. v.n["OnP2PFwdRecv"] \in Nat /\ v.n["OnP2PBwdRecv"] \in Nat /\ v.n["OnP2PFwdComplete"] \in Nat /\ v.n["OnP2PBwdComplete"] \in Nat /\ One(Act(v) \in BwdPhases) \in 0..1
    BY <1>1, FnNames DEF Types, One
  <2> QED BY <1>2, <1>a, <1>b, <1>c, <1>e, <1>t, <2>1, <2>2 DEF SameLinks, FwdIn, FwdOut, BwdIn, BwdOut
<1> QED BY <1>6, <1>7, <1>8, <1>9, <1>10, <1>11, <1>12 DEF RankStep, RankOK, w

LEMMA FwdRecvRank ==
  ASSUME NEW c \in EventConf, NEW s \in Stages, NEW i \in 0..1, NEW v, RankOK(v, s, i, c),
         v.n["OnP2PFwdRecv_EventDriven"] # 0
  PROVE  RankStep(v, Held(v, "OnP2PFwdRecv_EventDriven", [v.h EXCEPT !.fwdReady = @ + 1], "ScheduleNext_EventDriven"), s, i, c)
<1> DEFINE f == "OnP2PFwdRecv_EventDriven"
           w == Held(v, f, [v.h EXCEPT !.fwdReady = @ + 1], "ScheduleNext_EventDriven")
<1>1. Types(v, c) /\ Tokens(v) /\ Notes(v, s, c) /\ RingOK(v, i) /\ Counts(v, s, c)
  BY DEF RankOK
<1>e. /\ c.chunks \in Nat
      /\ v.h.fwdIdx \in Nat /\ v.h.bwdIdx \in Nat /\ v.h.fwdReady \in Nat /\ v.h.bwdReady \in Nat
      /\ v.n["OnP2PFwdRecv_EventDriven"] \in Nat /\ v.n["OnP2PBwdRecv_EventDriven"] \in Nat
      /\ v.n["OnP2PFwdRecv_EventDriven"] \in Nat
      /\ One(Act(v) \in FwdPhases) \in 0..1
  BY <1>1, FnNames DEF Types, One, EventConf
<1>2. s # 0
  BY <1>1, <1>e DEF Counts
<1>3. /\ w.n \in [Fns -> Nat] /\ w.n[f] = v.n[f] - 1
      /\ \A g \in Fns : g # f /\ g # "ScheduleNext_EventDriven" => w.n[g] = v.n[g]
  <2>1. w.n = [g \in Fns |-> v.n[g] - One(g = f) + One(g = "ScheduleNext_EventDriven")]
    BY DEF Frees, Held, Moved, Collects, Posts
  <2>2. f \in Fns /\ "ScheduleNext_EventDriven" \in Fns /\ v.n[f] >= 1
    BY <1>1, <1>e, FnNames
  <2>3. f # "ScheduleNext_EventDriven"
    BY FnNames
  <2> HIDE DEF w
  <2> QED BY <1>1, <2>1, <2>2, <2>3 DEF Types, One
<1>4. /\ w.h = [v.h EXCEPT !.fwdReady = v.h.fwdReady + 1]
      /\ w.cc = v.cc /\ w.rq = v.rq /\ w.pq = v.pq
  BY <1>1, <1>2, Dec DEF Types, Frees, Held, Moved, Collects, Posts, IsHybridCC, Fields
<1> HIDE DEF w
<1>5. /\ IsHybridCC(w.h) /\ Act(w) = Act(v)
      /\ \A k \in Fields : k # "fwdReady" => w.h[k] = v.h[k]
      /\ w.h.fwdReady = v.h.fwdReady + 1
  BY <1>1, <1>2, <1>4 DEF Types, IsHybridCC, Fields, Act
<1>p. w.h.phase \in Phases
  BY <1>1, <1>5 DEF Types, Fields, Phases, FwdPhases, BwdPhases
<1>6. Types(w, c)
  BY <1>1, <1>2, <1>3, <1>4, <1>5, <1>p DEF Types, Fields, EventConf
<1>7. Tokens(w)
  BY <1>1, <1>2, <1>3, <1>4, <1>5, FnNames DEF Types, Tokens, One, P2PPhases, FwdPhases, BwdPhases, Fields
<1>8. Notes(w, s, c)
  BY <1>1, <1>2, <1>5 DEF Notes, BwdPhases, FwdPhases, One, Fields
<1>9. RingOK(w, i)
  BY <1>1, <1>2, <1>3, <1>4, <1>5, FnNames DEF Types, RingOK, RingPhases
<1>a. w.h.fwdIdx = v.h.fwdIdx /\ w.h.bwdIdx = v.h.bwdIdx /\ w.h.bwdReady = v.h.bwdReady
  BY <1>5 DEF Fields
<1>b. w.n["OnP2PBwdRecv_EventDriven"] = v.n["OnP2PBwdRecv_EventDriven"] /\ w.n["OnP2PFwdRecv"] = v.n["OnP2PFwdRecv"] /\ w.n["OnP2PBwdRecv"] = v.n["OnP2PBwdRecv"] /\ w.n["StartApplication"] = v.n["StartApplication"]
  BY <1>3, FnNames
<1>c. One(Act(w) \in FwdPhases) = One(Act(v) \in FwdPhases)
  BY <1>1, <1>2, <1>5 DEF FwdPhases, One, Notes, Counts
<1>d. w.h.fwdReady = v.h.fwdReady + 1 /\ w.n["OnP2PFwdRecv_EventDriven"] = v.n["OnP2PFwdRecv_EventDriven"] - 1
  BY <1>3, <1>5
<1>10. Counts(w, s, c)
  <2> HIDE DEF f
  <2> QED BY <1>1, <1>2, <1>a, <1>b, <1>c, <1>d, <1>e, SMTT(40) DEF Counts
<1>11. GroupStep(v, w)
  BY <1>1, <1>2, <1>3, <1>4, <1>5, FnNames DEF GroupStep, Fields, P2PPhases, RingPhases
<1>t. w.n["OnP2PFwdComplete"] = v.n["OnP2PFwdComplete"] /\ w.n["OnP2PBwdComplete"] = v.n["OnP2PBwdComplete"]
  BY <1>3, FnNames
<1>12. SameLinks(v, w, s)
  <2>1. One(Act(w) \in BwdPhases) = One(Act(v) \in BwdPhases)
    BY <1>1, <1>2, <1>5 DEF BwdPhases, One
  <2>2. v.n["OnP2PFwdRecv"] \in Nat /\ v.n["OnP2PBwdRecv"] \in Nat /\ v.n["OnP2PFwdComplete"] \in Nat /\ v.n["OnP2PBwdComplete"] \in Nat /\ One(Act(v) \in BwdPhases) \in 0..1
    BY <1>1, FnNames DEF Types, One
  <2> QED BY <1>2, <1>a, <1>b, <1>c, <1>d, <1>e, <1>t, <2>1, <2>2 DEF SameLinks, FwdIn, FwdOut, BwdIn, BwdOut
<1> QED BY <1>6, <1>7, <1>8, <1>9, <1>10, <1>11, <1>12 DEF RankStep, RankOK, w

LEMMA BwdRecvRank ==
  ASSUME NEW c \in EventConf, NEW s \in Stages, NEW i \in 0..1, NEW v, RankOK(v, s, i, c),
         v.n["OnP2PBwdRecv_EventDriven"] # 0
  PROVE  RankStep(v, Held(v, "OnP2PBwdRecv_EventDriven", [v.h EXCEPT !.bwdReady = @ + 1], "ScheduleNext_EventDriven"), s, i, c)
<1> DEFINE f == "OnP2PBwdRecv_EventDriven"
           w == Held(v, f, [v.h EXCEPT !.bwdReady = @ + 1], "ScheduleNext_EventDriven")
<1>1. Types(v, c) /\ Tokens(v) /\ Notes(v, s, c) /\ RingOK(v, i) /\ Counts(v, s, c)
  BY DEF RankOK
<1>e. /\ c.chunks \in Nat
      /\ v.h.fwdIdx \in Nat /\ v.h.bwdIdx \in Nat /\ v.h.fwdReady \in Nat /\ v.h.bwdReady \in Nat
      /\ v.n["OnP2PFwdRecv_EventDriven"] \in Nat /\ v.n["OnP2PBwdRecv_EventDriven"] \in Nat
      /\ v.n["OnP2PBwdRecv_EventDriven"] \in Nat
      /\ One(Act(v) \in FwdPhases) \in 0..1
  BY <1>1, FnNames DEF Types, One, EventConf
<1>2. s # PP - 1
  BY <1>1, <1>e DEF Counts
<1>3. /\ w.n \in [Fns -> Nat] /\ w.n[f] = v.n[f] - 1
      /\ \A g \in Fns : g # f /\ g # "ScheduleNext_EventDriven" => w.n[g] = v.n[g]
  <2>1. w.n = [g \in Fns |-> v.n[g] - One(g = f) + One(g = "ScheduleNext_EventDriven")]
    BY DEF Frees, Held, Moved, Collects, Posts
  <2>2. f \in Fns /\ "ScheduleNext_EventDriven" \in Fns /\ v.n[f] >= 1
    BY <1>1, <1>e, FnNames
  <2>3. f # "ScheduleNext_EventDriven"
    BY FnNames
  <2> HIDE DEF w
  <2> QED BY <1>1, <2>1, <2>2, <2>3 DEF Types, One
<1>4. /\ w.h = [v.h EXCEPT !.bwdReady = v.h.bwdReady + 1]
      /\ w.cc = v.cc /\ w.rq = v.rq /\ w.pq = v.pq
  BY <1>1, <1>2, Dec DEF Types, Frees, Held, Moved, Collects, Posts, IsHybridCC, Fields
<1> HIDE DEF w
<1>5. /\ IsHybridCC(w.h) /\ Act(w) = Act(v)
      /\ \A k \in Fields : k # "bwdReady" => w.h[k] = v.h[k]
      /\ w.h.bwdReady = v.h.bwdReady + 1
  BY <1>1, <1>2, <1>4 DEF Types, IsHybridCC, Fields, Act
<1>p. w.h.phase \in Phases
  BY <1>1, <1>5 DEF Types, Fields, Phases, FwdPhases, BwdPhases
<1>6. Types(w, c)
  BY <1>1, <1>2, <1>3, <1>4, <1>5, <1>p DEF Types, Fields, EventConf
<1>7. Tokens(w)
  BY <1>1, <1>2, <1>3, <1>4, <1>5, FnNames DEF Types, Tokens, One, P2PPhases, FwdPhases, BwdPhases, Fields
<1>8. Notes(w, s, c)
  BY <1>1, <1>2, <1>5 DEF Notes, BwdPhases, FwdPhases, One, Fields
<1>9. RingOK(w, i)
  BY <1>1, <1>2, <1>3, <1>4, <1>5, FnNames DEF Types, RingOK, RingPhases
<1>a. w.h.fwdIdx = v.h.fwdIdx /\ w.h.fwdReady = v.h.fwdReady /\ w.h.bwdIdx = v.h.bwdIdx
  BY <1>5 DEF Fields
<1>b. w.n["OnP2PFwdRecv_EventDriven"] = v.n["OnP2PFwdRecv_EventDriven"] /\ w.n["OnP2PFwdRecv"] = v.n["OnP2PFwdRecv"] /\ w.n["OnP2PBwdRecv"] = v.n["OnP2PBwdRecv"] /\ w.n["StartApplication"] = v.n["StartApplication"]
  BY <1>3, FnNames
<1>c. One(Act(w) \in FwdPhases) = One(Act(v) \in FwdPhases)
  BY <1>1, <1>2, <1>5 DEF FwdPhases, One, Notes, Counts
<1>d. w.h.bwdReady = v.h.bwdReady + 1 /\ w.n["OnP2PBwdRecv_EventDriven"] = v.n["OnP2PBwdRecv_EventDriven"] - 1
  BY <1>3, <1>5
<1>10. Counts(w, s, c)
  <2> HIDE DEF f
  <2> QED BY <1>1, <1>2, <1>a, <1>b, <1>c, <1>d, <1>e, SMTT(40) DEF Counts
<1>11. GroupStep(v, w)
  BY <1>1, <1>2, <1>3, <1>4, <1>5, FnNames DEF GroupStep, Fields, P2PPhases, RingPhases
<1>t. w.n["OnP2PFwdComplete"] = v.n["OnP2PFwdComplete"] /\ w.n["OnP2PBwdComplete"] = v.n["OnP2PBwdComplete"]
  BY <1>3, FnNames
<1>12. SameLinks(v, w, s)
  <2>1. One(Act(w) \in BwdPhases) = One(Act(v) \in BwdPhases)
    BY <1>1, <1>2, <1>5 DEF BwdPhases, One
  <2>2. v.n["OnP2PFwdRecv"] \in Nat /\ v.n["OnP2PBwdRecv"] \in Nat /\ v.n["OnP2PFwdComplete"] \in Nat /\ v.n["OnP2PBwdComplete"] \in Nat /\ One(Act(v) \in BwdPhases) \in 0..1
    BY <1>1, FnNames DEF Types, One
  <2> QED BY <1>2, <1>a, <1>b, <1>c, <1>d, <1>e, <1>t, <2>1, <2>2 DEF SameLinks, FwdIn, FwdOut, BwdIn, BwdOut
<1> QED BY <1>6, <1>7, <1>8, <1>9, <1>10, <1>11, <1>12 DEF RankStep, RankOK, w

LEMMA IdleRank ==
  ASSUME NEW c \in EventConf, NEW s \in Stages, NEW i \in 0..1, NEW v, RankOK(v, s, i, c),
         v.n["ScheduleNext_EventDriven"] # 0
  PROVE  RankStep(v, Held(v, "ScheduleNext_EventDriven", v.h, "None"), s, i, c)
<1> DEFINE f == "ScheduleNext_EventDriven"
           w == Held(v, f, v.h, "None")
<1>1. Types(v, c) /\ Tokens(v) /\ Notes(v, s, c) /\ RingOK(v, i) /\ Counts(v, s, c)
  BY DEF RankOK
<1>e. /\ c.chunks \in Nat
      /\ v.h.fwdIdx \in Nat /\ v.h.bwdIdx \in Nat /\ v.h.fwdReady \in Nat /\ v.h.bwdReady \in Nat
      /\ v.n["OnP2PFwdRecv_EventDriven"] \in Nat /\ v.n["OnP2PBwdRecv_EventDriven"] \in Nat
      /\ v.n["ScheduleNext_EventDriven"] \in Nat
      /\ One(Act(v) \in FwdPhases) \in 0..1
  BY <1>1, FnNames DEF Types, One, EventConf
<1>2. TRUE
  BY <1>1, <1>e DEF Counts
<1>3. /\ w.n \in [Fns -> Nat] /\ w.n[f] = v.n[f] - 1
      /\ \A g \in Fns : g # f => w.n[g] = v.n[g]
  <2>1. w.n = [g \in Fns |-> v.n[g] - One(g = f) + One(g = "None")]
    BY DEF Frees, Held, Moved, Collects, Posts
  <2>2. f \in Fns /\ v.n[f] >= 1
    BY <1>1, <1>e, FnNames
  <2>3. "None" \notin Fns
    BY FnNames
  <2> HIDE DEF w
  <2> QED BY <1>1, <2>1, <2>2, <2>3 DEF Types, One
<1>4. /\ w.h = v.h
      /\ w.cc = v.cc /\ w.rq = v.rq /\ w.pq = v.pq
  BY <1>1, <1>2, Dec DEF Types, Frees, Held, Moved, Collects, Posts, IsHybridCC, Fields
<1> HIDE DEF w
<1>5. /\ IsHybridCC(w.h) /\ Act(w) = Act(v)
      /\ w.h = v.h
  BY <1>1, <1>2, <1>4 DEF Types, IsHybridCC, Fields, Act
<1>p. w.h.phase \in Phases
  BY <1>1, <1>5 DEF Types, Fields, Phases, FwdPhases, BwdPhases
<1>6. Types(w, c)
  BY <1>1, <1>2, <1>3, <1>4, <1>5, <1>p DEF Types, Fields, EventConf
<1>7. Tokens(w)
  BY <1>1, <1>2, <1>3, <1>4, <1>5, FnNames DEF Types, Tokens, One, P2PPhases, FwdPhases, BwdPhases, Fields
<1>8. Notes(w, s, c)
  BY <1>1, <1>2, <1>5 DEF Notes, BwdPhases, FwdPhases, One, Fields
<1>9. RingOK(w, i)
  BY <1>1, <1>2, <1>3, <1>4, <1>5, FnNames DEF Types, RingOK, RingPhases
<1>a. w.h.fwdIdx = v.h.fwdIdx /\ w.h.fwdReady = v.h.fwdReady /\ w.h.bwdIdx = v.h.bwdIdx /\ w.h.bwdReady = v.h.bwdReady
  BY <1>5 DEF Fields
<1>b. w.n["OnP2PFwdRecv_EventDriven"] = v.n["OnP2PFwdRecv_EventDriven"] /\ w.n["OnP2PBwdRecv_EventDriven"] = v.n["OnP2PBwdRecv_EventDriven"] /\ w.n["OnP2PFwdRecv"] = v.n["OnP2PFwdRecv"] /\ w.n["OnP2PBwdRecv"] = v.n["OnP2PBwdRecv"] /\ w.n["StartApplication"] = v.n["StartApplication"]
  BY <1>3, FnNames
<1>c. One(Act(w) \in FwdPhases) = One(Act(v) \in FwdPhases)
  BY <1>1, <1>2, <1>5 DEF FwdPhases, One, Notes, Counts
<1>10. Counts(w, s, c)
  BY <1>1, <1>2, <1>a, <1>b, <1>c, CountsFrame
<1>11. GroupStep(v, w)
  BY <1>1, <1>2, <1>3, <1>4, <1>5, FnNames DEF GroupStep, Fields, P2PPhases, RingPhases
<1>t. w.n["OnP2PFwdComplete"] = v.n["OnP2PFwdComplete"] /\ w.n["OnP2PBwdComplete"] = v.n["OnP2PBwdComplete"]
  BY <1>3, FnNames
<1>12. SameLinks(v, w, s)
  <2>1. One(Act(w) \in BwdPhases) = One(Act(v) \in BwdPhases)
    BY <1>1, <1>2, <1>5 DEF BwdPhases, One
  <2>2. v.n["OnP2PFwdRecv"] \in Nat /\ v.n["OnP2PBwdRecv"] \in Nat /\ v.n["OnP2PFwdComplete"] \in Nat /\ v.n["OnP2PBwdComplete"] \in Nat /\ One(Act(v) \in BwdPhases) \in 0..1
    BY <1>1, FnNames DEF Types, One
  <2> QED BY <1>2, <1>a, <1>b, <1>c, <1>e, <1>t, <2>1, <2>2 DEF SameLinks, FwdIn, FwdOut, BwdIn, BwdOut
<1> QED BY <1>6, <1>7, <1>8, <1>9, <1>10, <1>11, <1>12 DEF RankStep, RankOK, w

LEMMA DoneRank ==
  ASSUME NEW c \in EventConf, NEW s \in Stages, NEW i \in 0..1, NEW v, RankOK(v, s, i, c),
         v.n["ScheduleNext_EventDriven"] # 0,
         ~v.h.busy
  PROVE  RankStep(v, Held(v, "ScheduleNext_EventDriven", [v.h EXCEPT !.phase = "DONE"], "None"), s, i, c)
<1> DEFINE f == "ScheduleNext_EventDriven"
           w == Held(v, f, [v.h EXCEPT !.phase = "DONE"], "None")
<1>1. Types(v, c) /\ Tokens(v) /\ Notes(v, s, c) /\ RingOK(v, i) /\ Counts(v, s, c)
  BY DEF RankOK
<1>e. /\ c.chunks \in Nat
      /\ v.h.fwdIdx \in Nat /\ v.h.bwdIdx \in Nat /\ v.h.fwdReady \in Nat /\ v.h.bwdReady \in Nat
      /\ v.n["OnP2PFwdRecv_EventDriven"] \in Nat /\ v.n["OnP2PBwdRecv_EventDriven"] \in Nat
      /\ v.n["ScheduleNext_EventDriven"] \in Nat
      /\ One(Act(v) \in FwdPhases) \in 0..1
  BY <1>1, FnNames DEF Types, One, EventConf
<1>2. Act(v) = "IDLE"
  BY <1>1, <1>e DEF Act
<1>3. /\ w.n \in [Fns -> Nat] /\ w.n[f] = v.n[f] - 1
      /\ \A g \in Fns : g # f => w.n[g] = v.n[g]
  <2>1. w.n = [g \in Fns |-> v.n[g] - One(g = f) + One(g = "None")]
    BY DEF Frees, Held, Moved, Collects, Posts
  <2>2. f \in Fns /\ v.n[f] >= 1
    BY <1>1, <1>e, FnNames
  <2>3. "None" \notin Fns
    BY FnNames
  <2> HIDE DEF w
  <2> QED BY <1>1, <2>1, <2>2, <2>3 DEF Types, One
<1>4. /\ w.h = [v.h EXCEPT !.phase = "DONE"]
      /\ w.cc = v.cc /\ w.rq = v.rq /\ w.pq = v.pq
  BY <1>1, <1>2, Dec DEF Types, Frees, Held, Moved, Collects, Posts, IsHybridCC, Fields
<1> HIDE DEF w
<1>5. /\ IsHybridCC(w.h) /\ Act(w) = "IDLE"
      /\ \A k \in Fields : k # "phase" => w.h[k] = v.h[k]
      /\ w.h.phase = "DONE"
  BY <1>1, <1>2, <1>4 DEF Types, IsHybridCC, Fields, Act
<1>p. w.h.phase \in Phases
  BY <1>1, <1>5 DEF Types, Fields, Phases, FwdPhases, BwdPhases
<1>6. Types(w, c)
  BY <1>1, <1>2, <1>3, <1>4, <1>5, <1>p DEF Types, Fields, EventConf
<1>7. Tokens(w)
  BY <1>1, <1>2, <1>3, <1>4, <1>5, FnNames DEF Types, Tokens, One, P2PPhases, FwdPhases, BwdPhases, Fields
<1>8. Notes(w, s, c)
  BY <1>1, <1>2, <1>5 DEF Notes, BwdPhases, FwdPhases, One, Fields
<1>9. RingOK(w, i)
  BY <1>1, <1>2, <1>3, <1>4, <1>5, FnNames DEF Types, RingOK, RingPhases
<1>a. w.h.fwdIdx = v.h.fwdIdx /\ w.h.fwdReady = v.h.fwdReady /\ w.h.bwdIdx = v.h.bwdIdx /\ w.h.bwdReady = v.h.bwdReady
  BY <1>5 DEF Fields
<1>b. w.n["OnP2PFwdRecv_EventDriven"] = v.n["OnP2PFwdRecv_EventDriven"] /\ w.n["OnP2PBwdRecv_EventDriven"] = v.n["OnP2PBwdRecv_EventDriven"] /\ w.n["OnP2PFwdRecv"] = v.n["OnP2PFwdRecv"] /\ w.n["OnP2PBwdRecv"] = v.n["OnP2PBwdRecv"] /\ w.n["StartApplication"] = v.n["StartApplication"]
  BY <1>3, FnNames
<1>c. One(Act(w) \in FwdPhases) = One(Act(v) \in FwdPhases)
  BY <1>1, <1>2, <1>5 DEF FwdPhases, One, Notes, Counts
<1>10. Counts(w, s, c)
  BY <1>1, <1>2, <1>a, <1>b, <1>c, CountsFrame
<1>11. GroupStep(v, w)
  BY <1>1, <1>2, <1>3, <1>4, <1>5, FnNames DEF GroupStep, Fields, P2PPhases, RingPhases
<1>t. w.n["OnP2PFwdComplete"] = v.n["OnP2PFwdComplete"] /\ w.n["OnP2PBwdComplete"] = v.n["OnP2PBwdComplete"]
  BY <1>3, FnNames
<1>12. SameLinks(v, w, s)
  <2>1. One(Act(w) \in BwdPhases) = One(Act(v) \in BwdPhases)
    BY <1>1, <1>2, <1>5 DEF BwdPhases, One
  <2>2. v.n["OnP2PFwdRecv"] \in Nat /\ v.n["OnP2PBwdRecv"] \in Nat /\ v.n["OnP2PFwdComplete"] \in Nat /\ v.n["OnP2PBwdComplete"] \in Nat /\ One(Act(v) \in BwdPhases) \in 0..1
    BY <1>1, FnNames DEF Types, One
  <2> QED BY <1>2, <1>a, <1>b, <1>c, <1>e, <1>t, <2>1, <2>2 DEF SameLinks, FwdIn, FwdOut, BwdIn, BwdOut
<1> QED BY <1>6, <1>7, <1>8, <1>9, <1>10, <1>11, <1>12 DEF RankStep, RankOK, w

LEMMA BackwardRank ==
  ASSUME NEW c \in EventConf, NEW s \in Stages, NEW i \in 0..1, NEW v, RankOK(v, s, i, c),
         v.n["ScheduleNext_EventDriven"] # 0,
         ~v.h.busy, CanBackwardC(v.h, c)
  PROVE  RankStep(v, Collects(v, "ScheduleNext_EventDriven", i, [v.h EXCEPT !.bwdReady = @ - 1, !.bwdIdx = @ + 1, !.chunk = v.h.bwdIdx,
                                     !.phase = "BWD_AG", !.busy = TRUE, !.cb = "OnBwdAGComplete"]), s, i, c)
<1> DEFINE f == "ScheduleNext_EventDriven"
           w == Collects(v, f, i, [v.h EXCEPT !.bwdReady = @ - 1, !.bwdIdx = @ + 1, !.chunk = v.h.bwdIdx,
                                     !.phase = "BWD_AG", !.busy = TRUE, !.cb = "OnBwdAGComplete"])
<1>1. Types(v, c) /\ Tokens(v) /\ Notes(v, s, c) /\ RingOK(v, i) /\ Counts(v, s, c)
  BY DEF RankOK
<1>e. /\ c.chunks \in Nat
      /\ v.h.fwdIdx \in Nat /\ v.h.bwdIdx \in Nat /\ v.h.fwdReady \in Nat /\ v.h.bwdReady \in Nat
      /\ v.n["OnP2PFwdRecv_EventDriven"] \in Nat /\ v.n["OnP2PBwdRecv_EventDriven"] \in Nat
      /\ v.n["ScheduleNext_EventDriven"] \in Nat
      /\ One(Act(v) \in FwdPhases) \in 0..1
  BY <1>1, FnNames DEF Types, One, EventConf
<1>2. Act(v) = "IDLE" /\ v.h.bwdReady > 0 /\ v.h.bwdIdx < c.chunks /\ c.train
  BY <1>1, <1>e DEF Act, CanBackwardC
<1>3. /\ w.n \in [Fns -> Nat] /\ w.n[f] = v.n[f] - 1 /\ w.n["RdmaStart"] = v.n["RdmaStart"] + 1
      /\ \A g \in Fns : g # f /\ g # "RdmaStart" => w.n[g] = v.n[g]
  <2>1. w.n = [g \in Fns |-> v.n[g] - One(g = f) + One(g = "RdmaStart")]
    BY DEF Frees, Held, Moved, Collects, Posts
  <2>2. f \in Fns /\ "RdmaStart" \in Fns /\ v.n[f] >= 1
    BY <1>1, <1>e, FnNames
  <2>3. f # "RdmaStart"
    BY FnNames
  <2> HIDE DEF w
  <2> QED BY <1>1, <2>1, <2>2, <2>3 DEF Types, One
<1>4. /\ w.h = [v.h EXCEPT !.bwdReady = v.h.bwdReady - 1, !.bwdIdx = v.h.bwdIdx + 1, !.chunk = v.h.bwdIdx, !.phase = "BWD_AG", !.busy = TRUE, !.cb = "OnBwdAGComplete"]
      /\ w.cc = Ring(i, 2, 1) /\ w.rq = v.rq /\ w.pq = v.pq
  BY <1>1, <1>2, Dec DEF Types, Frees, Held, Moved, Collects, Posts, IsHybridCC, Fields
<1> HIDE DEF w
<1>5. /\ IsHybridCC(w.h) /\ Act(w) = "BWD_AG"
      /\ \A k \in Fields : k # "bwdReady" /\ k # "bwdIdx" /\ k # "chunk" /\ k # "phase" /\ k # "busy" /\ k # "cb" => w.h[k] = v.h[k]
      /\ w.h.bwdReady = v.h.bwdReady - 1 /\ w.h.bwdIdx = v.h.bwdIdx + 1 /\ w.h.chunk = v.h.bwdIdx /\ w.h.phase = "BWD_AG" /\ w.h.busy = TRUE /\ w.h.cb = "OnBwdAGComplete"
  BY <1>1, <1>2, <1>4 DEF Types, IsHybridCC, Fields, Act
<1>p. w.h.phase \in Phases
  BY <1>1, <1>5 DEF Types, Fields, Phases, FwdPhases, BwdPhases
<1>6. Types(w, c)
  BY <1>1, <1>2, <1>3, <1>4, <1>5, <1>p DEF Types, Fields, EventConf, Ring
<1>7. Tokens(w)
  BY <1>1, <1>2, <1>3, <1>4, <1>5, FnNames DEF Types, Tokens, One, P2PPhases, FwdPhases, BwdPhases, Fields
<1>8. Notes(w, s, c)
  BY <1>1, <1>2, <1>5 DEF Notes, BwdPhases, FwdPhases, One, Fields
<1>9. RingOK(w, i)
  BY <1>1, <1>2, <1>3, <1>4, <1>5, FnNames DEF Types, RingOK, RingPhases
<1>a. w.h.fwdIdx = v.h.fwdIdx /\ w.h.fwdReady = v.h.fwdReady
  BY <1>5 DEF Fields
<1>b. w.n["OnP2PFwdRecv_EventDriven"] = v.n["OnP2PFwdRecv_EventDriven"] /\ w.n["OnP2PBwdRecv_EventDriven"] = v.n["OnP2PBwdRecv_EventDriven"] /\ w.n["OnP2PFwdRecv"] = v.n["OnP2PFwdRecv"] /\ w.n["OnP2PBwdRecv"] = v.n["OnP2PBwdRecv"] /\ w.n["StartApplication"] = v.n["StartApplication"]
  BY <1>3, FnNames
<1>c. One(Act(w) \in FwdPhases) = One(Act(v) \in FwdPhases)
  BY <1>1, <1>2, <1>5 DEF FwdPhases, One, Notes, Counts
<1>d. w.h.bwdIdx = v.h.bwdIdx + 1 /\ w.h.bwdReady = v.h.bwdReady - 1
  BY <1>3, <1>5
<1>10. Counts(w, s, c)
  <2> HIDE DEF f
  <2> QED BY <1>1, <1>2, <1>a, <1>b, <1>c, <1>d, <1>e, SMTT(40) DEF Counts
<1>11. GroupStep(v, w)
  BY <1>1, <1>2, <1>3, <1>4, <1>5, FnNames DEF GroupStep, Fields, P2PPhases, RingPhases
<1>t. w.n["OnP2PFwdComplete"] = v.n["OnP2PFwdComplete"] /\ w.n["OnP2PBwdComplete"] = v.n["OnP2PBwdComplete"]
  BY <1>3, FnNames
<1>12. SameLinks(v, w, s)
  <2>1. One(Act(w) \in BwdPhases) = One(Act(v) \in BwdPhases) + 1
    BY <1>1, <1>2, <1>5 DEF BwdPhases, One
  <2>2. v.n["OnP2PFwdRecv"] \in Nat /\ v.n["OnP2PBwdRecv"] \in Nat /\ v.n["OnP2PFwdComplete"] \in Nat /\ v.n["OnP2PBwdComplete"] \in Nat /\ One(Act(v) \in BwdPhases) \in 0..1
    BY <1>1, FnNames DEF Types, One
  <2> QED BY <1>2, <1>a, <1>b, <1>c, <1>d, <1>e, <1>t, <2>1, <2>2 DEF SameLinks, FwdIn, FwdOut, BwdIn, BwdOut
<1> QED BY <1>6, <1>7, <1>8, <1>9, <1>10, <1>11, <1>12 DEF RankStep, RankOK, w

LEMMA ForwardRank ==
  ASSUME NEW c \in EventConf, NEW s \in Stages, NEW i \in 0..1, NEW v, RankOK(v, s, i, c),
         v.n["ScheduleNext_EventDriven"] # 0,
         ~v.h.busy, CanForwardC(v.h, c)
  PROVE  RankStep(v, Collects(v, "ScheduleNext_EventDriven", i, [v.h EXCEPT !.fwdReady = @ - 1, !.inflight = @ + 1, !.fwdIdx = @ + 1,
                                     !.chunk = v.h.fwdIdx,
                                     !.phase = "FWD_AG", !.busy = TRUE, !.cb = "OnFwdAGComplete"]), s, i, c)
<1> DEFINE f == "ScheduleNext_EventDriven"
           w == Collects(v, f, i, [v.h EXCEPT !.fwdReady = @ - 1, !.inflight = @ + 1, !.fwdIdx = @ + 1,
                                     !.chunk = v.h.fwdIdx,
                                     !.phase = "FWD_AG", !.busy = TRUE, !.cb = "OnFwdAGComplete"])
<1>1. Types(v, c) /\ Tokens(v) /\ Notes(v, s, c) /\ RingOK(v, i) /\ Counts(v, s, c)
  BY DEF RankOK
<1>e. /\ c.chunks \in Nat
      /\ v.h.fwdIdx \in Nat /\ v.h.bwdIdx \in Nat /\ v.h.fwdReady \in Nat /\ v.h.bwdReady \in Nat
      /\ v.n["OnP2PFwdRecv_EventDriven"] \in Nat /\ v.n["OnP2PBwdRecv_EventDriven"] \in Nat
      /\ v.n["ScheduleNext_EventDriven"] \in Nat
      /\ One(Act(v) \in FwdPhases) \in 0..1
  BY <1>1, FnNames DEF Types, One, EventConf
<1>2. Act(v) = "IDLE" /\ v.h.inflight = 0 /\ v.h.fwdReady > 0 /\ v.h.fwdIdx < c.chunks
  BY <1>1, <1>e DEF Act, CanForwardC, Notes, One, FwdPhases
<1>3. /\ w.n \in [Fns -> Nat] /\ w.n[f] = v.n[f] - 1 /\ w.n["RdmaStart"] = v.n["RdmaStart"] + 1
      /\ \A g \in Fns : g # f /\ g # "RdmaStart" => w.n[g] = v.n[g]
  <2>1. w.n = [g \in Fns |-> v.n[g] - One(g = f) + One(g = "RdmaStart")]
    BY DEF Frees, Held, Moved, Collects, Posts
  <2>2. f \in Fns /\ "RdmaStart" \in Fns /\ v.n[f] >= 1
    BY <1>1, <1>e, FnNames
  <2>3. f # "RdmaStart"
    BY FnNames
  <2> HIDE DEF w
  <2> QED BY <1>1, <2>1, <2>2, <2>3 DEF Types, One
<1>4. /\ w.h = [v.h EXCEPT !.fwdReady = v.h.fwdReady - 1, !.inflight = v.h.inflight + 1, !.fwdIdx = v.h.fwdIdx + 1, !.chunk = v.h.fwdIdx, !.phase = "FWD_AG", !.busy = TRUE, !.cb = "OnFwdAGComplete"]
      /\ w.cc = Ring(i, 2, 1) /\ w.rq = v.rq /\ w.pq = v.pq
  BY <1>1, <1>2, Dec DEF Types, Frees, Held, Moved, Collects, Posts, IsHybridCC, Fields
<1> HIDE DEF w
<1>5. /\ IsHybridCC(w.h) /\ Act(w) = "FWD_AG"
      /\ \A k \in Fields : k # "fwdReady" /\ k # "inflight" /\ k # "fwdIdx" /\ k # "chunk" /\ k # "phase" /\ k # "busy" /\ k # "cb" => w.h[k] = v.h[k]
      /\ w.h.fwdReady = v.h.fwdReady - 1 /\ w.h.inflight = v.h.inflight + 1 /\ w.h.fwdIdx = v.h.fwdIdx + 1 /\ w.h.chunk = v.h.fwdIdx /\ w.h.phase = "FWD_AG" /\ w.h.busy = TRUE /\ w.h.cb = "OnFwdAGComplete"
  BY <1>1, <1>2, <1>4 DEF Types, IsHybridCC, Fields, Act
<1>p. w.h.phase \in Phases
  BY <1>1, <1>5 DEF Types, Fields, Phases, FwdPhases, BwdPhases
<1>6. Types(w, c)
  BY <1>1, <1>2, <1>3, <1>4, <1>5, <1>p DEF Types, Fields, EventConf, Ring
<1>7. Tokens(w)
  BY <1>1, <1>2, <1>3, <1>4, <1>5, FnNames DEF Types, Tokens, One, P2PPhases, FwdPhases, BwdPhases, Fields
<1>8. Notes(w, s, c)
  BY <1>1, <1>2, <1>5 DEF Notes, BwdPhases, FwdPhases, One, Fields
<1>9. RingOK(w, i)
  BY <1>1, <1>2, <1>3, <1>4, <1>5, FnNames DEF Types, RingOK, RingPhases
<1>a. w.h.bwdIdx = v.h.bwdIdx /\ w.h.bwdReady = v.h.bwdReady
  BY <1>5 DEF Fields
<1>b. w.n["OnP2PFwdRecv_EventDriven"] = v.n["OnP2PFwdRecv_EventDriven"] /\ w.n["OnP2PBwdRecv_EventDriven"] = v.n["OnP2PBwdRecv_EventDriven"] /\ w.n["OnP2PFwdRecv"] = v.n["OnP2PFwdRecv"] /\ w.n["OnP2PBwdRecv"] = v.n["OnP2PBwdRecv"] /\ w.n["StartApplication"] = v.n["StartApplication"]
  BY <1>3, FnNames
<1>c. One(Act(w) \in FwdPhases) = One(Act(v) \in FwdPhases) + 1
  BY <1>1, <1>2, <1>5 DEF FwdPhases, One, Notes, Counts
<1>d. w.h.fwdIdx = v.h.fwdIdx + 1 /\ w.h.fwdReady = v.h.fwdReady - 1
  BY <1>3, <1>5
<1>10. Counts(w, s, c)
  <2>1. w.h.fwdIdx + w.h.fwdReady = v.h.fwdIdx + v.h.fwdReady
    BY <1>d, <1>e
  <2>2. w.h.fwdIdx - One(Act(w) \in FwdPhases) = v.h.fwdIdx - One(Act(v) \in FwdPhases)
    BY <1>c, <1>d, <1>e
  <2> QED BY <1>1, <1>a, <1>b, <2>1, <2>2 DEF Counts
<1>11. GroupStep(v, w)
  BY <1>1, <1>2, <1>3, <1>4, <1>5, FnNames DEF GroupStep, Fields, P2PPhases, RingPhases
<1>t. w.n["OnP2PFwdComplete"] = v.n["OnP2PFwdComplete"] /\ w.n["OnP2PBwdComplete"] = v.n["OnP2PBwdComplete"]
  BY <1>3, FnNames
<1>12. SameLinks(v, w, s)
  <2>1. One(Act(w) \in BwdPhases) = One(Act(v) \in BwdPhases)
    BY <1>1, <1>2, <1>5 DEF BwdPhases, One
  <2>2. v.n["OnP2PFwdRecv"] \in Nat /\ v.n["OnP2PBwdRecv"] \in Nat /\ v.n["OnP2PFwdComplete"] \in Nat /\ v.n["OnP2PBwdComplete"] \in Nat /\ One(Act(v) \in BwdPhases) \in 0..1
    BY <1>1, FnNames DEF Types, One
  <2> QED BY <1>2, <1>a, <1>b, <1>c, <1>d, <1>e, <1>t, <2>1, <2>2 DEF SameLinks, FwdIn, FwdOut, BwdIn, BwdOut
<1> QED BY <1>6, <1>7, <1>8, <1>9, <1>10, <1>11, <1>12 DEF RankStep, RankOK, w

LEMMA AfterRank ==
  ASSUME NEW c \in EventConf, NEW s \in Stages, NEW i \in 0..1, NEW v, RankOK(v, s, i, c),
         NEW f \in Paired, v.n[f] # 0
  PROVE  RankStep(v, After(f, v, s, i, c), s, i, c)
<1>1. CASE f = "StartApplication"
  BY <1>1, StartRank, StartLater DEF After
<1>2. CASE f = "ScheduleNext"
  BY <1>2, ScheduleRank DEF After
<1>3. CASE f = "ScheduleNext_EventDriven"
  <2>1. After(f, v, s, i, c) = Schedules(v, i, c)
    BY <1>3 DEF After
  <2>2. RankStep(v, Schedules(v, i, c), s, i, c)
    BY <1>3, IdleRank, DoneRank, BackwardRank, ForwardRank DEF Schedules
  <2> QED BY <2>1, <2>2
<1>4. CASE f = "RdmaStart"
  BY <1>4, RdmaStartRank DEF After
<1>5. CASE f = "OnFwdComputeDone"
  BY <1>5, FwdComputedRank, FwdComputedLast DEF After
<1>6. CASE f = "OnBwdCompute1Done"
  BY <1>6, Bwd1ComputedRank DEF After
<1>7. CASE f = "OnBwdCompute2Done"
  BY <1>7, Bwd2ComputedRank, Bwd2ComputedFirst DEF After
<1>8. CASE f = "OnP2PFwdComplete"
  BY <1>8, FwdCompleteRank DEF After
<1>9. CASE f = "OnP2PBwdComplete"
  BY <1>9, BwdCompleteRank DEF After
<1>10. CASE f = "OnP2PFwdRecv_EventDriven"
  BY <1>10, FwdRecvRank DEF After
<1>11. CASE f = "OnP2PBwdRecv_EventDriven"
  BY <1>11, BwdRecvRank DEF After
<1> QED
  BY <1>1, <1>2, <1>3, <1>4, <1>5, <1>6, <1>7, <1>8, <1>9, <1>10, <1>11 DEF Paired

LEMMA HeldPair ==
  ASSUME NEW v, NEW w, PairOK(v, w), NEW a, NEW b, Alike(a, b), NEW f, NEW out,
         v.n["RdmaStart"] \in Nat, f # "RdmaStart", out # "RdmaStart",
         NEW x, x = Held(v, f, a, out), NEW y, y = Held(w, f, b, out),
         Act(x) \in RingPhases => Act(v) \in RingPhases
  PROVE  PairOK(x, y)
<1>1. x.h = a /\ x.cc = v.cc /\ y.h = b /\ y.cc = w.cc
  BY DEF Held, Moved
<1>2. \A g \in Paired : x.n[g] = y.n[g]
  BY DEF Held, Moved, PairOK, Fns
<1>3. x.n["RdmaStart"] = v.n["RdmaStart"] - 0 + 0
  BY FnNames DEF Held, Moved, One
<1> QED BY <1>1, <1>2, <1>3 DEF PairOK

LEMMA CollectsPair ==
  ASSUME NEW v, NEW w, PairOK(v, w), NEW a, NEW b, Alike(a, b), NEW f, f # "RdmaStart",
         v.n["RdmaStart"] \in Nat,
         NEW x, x = Collects(v, f, 0, a), NEW y, y = Collects(w, f, 1, b)
  PROVE  PairOK(x, y)
<1>1. /\ x.h = a /\ x.cc = Ring(0, 2, 1) /\ y.h = b /\ y.cc = Ring(1, 2, 1)
  BY DEF Collects, Moved
<1>2. \A g \in Paired : x.n[g] = y.n[g]
  BY DEF Collects, Moved, PairOK, Fns
<1>3. x.n["RdmaStart"] = v.n["RdmaStart"] - 0 + 1
  BY FnNames DEF Collects, Moved, One
<1> QED BY <1>1, <1>2, <1>3 DEF PairOK, Ring

LEMMA PostsPair ==
  ASSUME NEW v, NEW w, PairOK(v, w), IsHybridCC(v.h), IsHybridCC(w.h),
         NEW f, NEW phase \in P2PPhases, NEW forward,
         NEW x, x = Posts(v, f, phase, forward), NEW y, y = Posts(w, f, phase, forward)
  PROVE  PairOK(x, y)
<1>1. /\ x.cc = v.cc /\ y.cc = w.cc /\ Alike(x.h, y.h) /\ x.h.phase = phase
  BY DEF Posts, Moved, PairOK, Alike, IsHybridCC, Fields
<1>2. \A g \in Paired : x.n[g] = y.n[g]
  BY DEF Posts, Moved, PairOK, Fns
<1>3. Act(x) \notin RingPhases
  BY <1>1 DEF Act, RingPhases, P2PPhases
<1> QED BY <1>1, <1>2, <1>3 DEF PairOK

LEMMA RdmaStartPair ==
  ASSUME NEW v, NEW w, PairOK(v, w), 
         NEW x, x = Moved(v, "RdmaStart", v.h, At(v.cc, 1, 1, 0), v.rq + 1, v.pq, "None"),
         NEW y, y = Moved(w, "RdmaStart", w.h, At(w.cc, 1, 1, 0), w.rq + 1, w.pq, "None")
  PROVE  PairOK(x, y)
<1>1. /\ x.h = v.h /\ x.cc = At(v.cc, 1, 1, 0) /\ y.h = w.h /\ y.cc = At(w.cc, 1, 1, 0)
  BY DEF Moved
<1>2. \A g \in Paired : x.n[g] = y.n[g]
  BY DEF Moved, PairOK, Fns
<1>3. /\ x.cc.recvStep = 1 /\ x.cc.sendStep = 1 /\ x.cc.stepStu = 0
      /\ y.cc.recvStep = 1 /\ y.cc.sendStep = 1 /\ y.cc.stepStu = 0
  BY <1>1 DEF At
<1>4. Alike(x.h, y.h)
  BY <1>1 DEF PairOK
<1> QED BY <1>2, <1>3, <1>4 DEF PairOK

LEMMA FreesPair ==
  ASSUME NEW v, NEW w, PairOK(v, w), NEW f, f # "RdmaStart", NEW a, NEW b, Alike(a, b),
         v.n["RdmaStart"] \in Nat,
         IsHybridCC(a), IsHybridCC(b),
         NEW x, x = Frees(v, f, a), NEW y, y = Frees(w, f, b)
  PROVE  PairOK(x, y)
<1> DEFINE a1 == [a EXCEPT !.busy = FALSE]
           b1 == [b EXCEPT !.busy = FALSE]
<1>1. Alike(a1, b1) /\ a1.busy = FALSE
  BY DEF Alike, IsHybridCC, Fields
<1>2. x = Held(v, f, a1, "ScheduleNext") /\ y = Held(w, f, b1, "ScheduleNext")
  BY DEF Frees
<1>3. Act(x) \notin RingPhases
  <2>1. x.h = a1 BY <1>2 DEF Held, Moved
  <2> HIDE DEF a1
  <2> QED BY <1>1, <2>1 DEF Act, RingPhases
<1> HIDE DEF a1, b1
<1> QED BY <1>1, <1>2, <1>3, HeldPair

LEMMA AfterPair ==
  ASSUME NEW c \in EventConf, NEW s \in Stages, NEW v, NEW w,
         RankOK(v, s, 0, c), RankOK(w, s, 1, c), PairOK(v, w), NEW f \in Paired
  PROVE  PairOK(After(f, v, s, 0, c), After(f, w, s, 1, c))
<1> DEFINE x == After(f, v, s, 0, c)
           y == After(f, w, s, 1, c)
<1> SUFFICES PairOK(x, y)
  OBVIOUS
<1>x. x = After(f, v, s, 0, c)
  OBVIOUS
<1>y. y = After(f, w, s, 1, c)
  OBVIOUS
<1> HIDE DEF x, y
<1>0. /\ IsHybridCC(v.h) /\ IsHybridCC(w.h) /\ Alike(v.h, w.h) /\ v.n["RdmaStart"] \in Nat
  BY FnNames DEF RankOK, Types, PairOK
<1>1. CASE f \in {"StartApplication", "ScheduleNext", "OnP2PFwdRecv_EventDriven",
                  "OnP2PBwdRecv_EventDriven"}
  <2> DEFINE H(hr) ==
        CASE f = "StartApplication" -> IF s = 0 THEN [hr EXCEPT !.fwdReady = c.chunks] ELSE hr
          [] f = "ScheduleNext" -> hr
          [] f = "OnP2PFwdRecv_EventDriven" -> [hr EXCEPT !.fwdReady = @ + 1]
          [] f = "OnP2PBwdRecv_EventDriven" -> [hr EXCEPT !.bwdReady = @ + 1]
  <2>1. x = Held(v, f, H(v.h), "ScheduleNext_EventDriven")
    BY <1>x, <1>y, <1>1 DEF After
  <2>2. y = Held(w, f, H(w.h), "ScheduleNext_EventDriven")
    BY <1>x, <1>y, <1>1 DEF After
  <2>3. Alike(H(v.h), H(w.h)) /\ H(v.h).busy = v.h.busy /\ H(v.h).phase = v.h.phase
    BY <1>0, <1>1 DEF Alike, IsHybridCC, Fields
  <2> HIDE DEF H
  <2>4. Act(x) = Act(v)
    BY <2>1, <2>3 DEF Held, Moved, Act
  <2> QED BY <1>0, <1>1, <2>1, <2>2, <2>3, <2>4, HeldPair
<1>2. CASE f = "RdmaStart"
  BY <1>x, <1>y, <1>2, RdmaStartPair DEF After
<1>3. CASE f = "ScheduleNext_EventDriven"
  <2>1. /\ v.h.busy = w.h.busy /\ AllDoneC(v.h, c) = AllDoneC(w.h, c)
        /\ CanBackwardC(v.h, c) = CanBackwardC(w.h, c) /\ CanForwardC(v.h, c) = CanForwardC(w.h, c)
    BY <1>0 DEF Alike, AllDoneC, CanBackwardC, CanForwardC
  <2>2. x = Schedules(v, 0, c) /\ y = Schedules(w, 1, c)
    BY <1>x, <1>y, <1>3 DEF After
  <2>3. CASE \/ v.h.busy
             \/ ~AllDoneC(v.h, c) /\ ~CanBackwardC(v.h, c) /\ ~CanForwardC(v.h, c)
    <3>1. x = Held(v, f, v.h, "None") /\ y = Held(w, f, w.h, "None")
      BY <1>3, <2>1, <2>2, <2>3 DEF Schedules
    <3>2. Act(x) = Act(v)
      BY <3>1 DEF Held, Moved, Act
    <3> QED BY <1>0, <1>3, <3>1, <3>2, HeldPair
  <2>4. CASE ~v.h.busy /\ AllDoneC(v.h, c)
    <3> DEFINE a == [v.h EXCEPT !.phase = "DONE"]
               b == [w.h EXCEPT !.phase = "DONE"]
    <3>1. x = Held(v, f, a, "None") /\ y = Held(w, f, b, "None")
      BY <1>3, <2>1, <2>2, <2>4 DEF Schedules
    <3>2. Alike(a, b) /\ a.busy = v.h.busy
      BY <1>0 DEF Alike, IsHybridCC, Fields
    <3> HIDE DEF a, b
    <3>3. Act(x) = "IDLE"
      BY <2>4, <3>1, <3>2 DEF Held, Moved, Act
    <3> QED BY <1>0, <1>3, <3>1, <3>2, <3>3, HeldPair DEF RingPhases
  <2>5. CASE ~v.h.busy /\ ~AllDoneC(v.h, c) /\ CanBackwardC(v.h, c)
    <3> DEFINE Go(hr) ==
          [hr EXCEPT !.bwdReady = @ - 1, !.bwdIdx = @ + 1, !.chunk = hr.bwdIdx,
                     !.phase = "BWD_AG", !.busy = TRUE, !.cb = "OnBwdAGComplete"]
    <3>1. x = Collects(v, f, 0, Go(v.h)) /\ y = Collects(w, f, 1, Go(w.h))
      BY <1>3, <2>1, <2>2, <2>5 DEF Schedules
    <3>2. Alike(Go(v.h), Go(w.h))
      BY <1>0 DEF Alike, IsHybridCC, Fields
    <3> HIDE DEF Go
    <3> QED BY <1>0, <1>3, <3>1, <3>2, CollectsPair
  <2>6. CASE ~v.h.busy /\ ~AllDoneC(v.h, c) /\ ~CanBackwardC(v.h, c) /\ CanForwardC(v.h, c)
    <3> DEFINE Go(hr) ==
          [hr EXCEPT !.fwdReady = @ - 1, !.inflight = @ + 1, !.fwdIdx = @ + 1, !.chunk = hr.fwdIdx,
                     !.phase = "FWD_AG", !.busy = TRUE, !.cb = "OnFwdAGComplete"]
    <3>1. x = Collects(v, f, 0, Go(v.h)) /\ y = Collects(w, f, 1, Go(w.h))
      BY <1>3, <2>1, <2>2, <2>6 DEF Schedules
    <3>2. Alike(Go(v.h), Go(w.h))
      BY <1>0 DEF Alike, IsHybridCC, Fields
    <3> HIDE DEF Go
    <3> QED BY <1>0, <1>3, <3>1, <3>2, CollectsPair
  <2> QED BY <2>3, <2>4, <2>5, <2>6
<1>4. CASE f = "OnBwdCompute1Done"
  <2> DEFINE Go(hr) == [hr EXCEPT !.phase = "BWD_RS", !.cb = "OnBwdRSComplete"]
  <2>1. x = Collects(v, f, 0, Go(v.h)) /\ y = Collects(w, f, 1, Go(w.h))
    BY <1>x, <1>y, <1>4 DEF After
  <2>2. Alike(Go(v.h), Go(w.h))
    BY <1>0 DEF Alike, IsHybridCC, Fields
  <2> HIDE DEF Go
  <2> QED BY <1>0, <1>4, <2>1, <2>2, CollectsPair
<1>5. CASE f = "OnFwdComputeDone" /\ s # PP - 1
  <2>1. x = Posts(v, f, "FWD_P2P", TRUE) /\ y = Posts(w, f, "FWD_P2P", TRUE)
    BY <1>x, <1>y, <1>5 DEF After
  <2> QED BY <1>0, <2>1, PostsPair DEF P2PPhases
<1>6. CASE f = "OnBwdCompute2Done" /\ s # 0
  <2>1. x = Posts(v, f, "BWD_P2P", FALSE) /\ y = Posts(w, f, "BWD_P2P", FALSE)
    BY <1>x, <1>y, <1>6 DEF After
  <2> QED BY <1>0, <2>1, PostsPair DEF P2PPhases
<1>7. CASE \/ f = "OnFwdComputeDone" /\ s = PP - 1
           \/ f = "OnBwdCompute2Done" /\ s = 0
           \/ f \in {"OnP2PFwdComplete", "OnP2PBwdComplete"}
  <2> DEFINE H(hr) ==
        CASE f = "OnFwdComputeDone" -> [hr EXCEPT !.inflight = Dec16(@),
                                                  !.bwdReady = IF c.train THEN @ + 1 ELSE @]
          [] f = "OnP2PFwdComplete" -> [hr EXCEPT !.inflight = Dec16(@)]
          [] f \in {"OnBwdCompute2Done", "OnP2PBwdComplete"} -> hr
  <2>1. x = Frees(v, f, H(v.h))
    BY <1>x, <1>y, <1>7 DEF After
  <2>2. y = Frees(w, f, H(w.h))
    BY <1>x, <1>y, <1>7 DEF After
  <2>3. Alike(H(v.h), H(w.h))
    BY <1>0, <1>7 DEF Alike, IsHybridCC, Fields
  <2>4. IsHybridCC(H(v.h)) /\ IsHybridCC(H(w.h))
    BY <1>0, <1>7 DEF IsHybridCC
  <2> HIDE DEF H
  <2> QED BY <1>0, <1>7, <2>1, <2>2, <2>3, <2>4, FreesPair
<1> QED
  BY <1>1, <1>2, <1>3, <1>4, <1>5, <1>6, <1>7 DEF Paired

\* The numbers that GroupOK relates.
LEMMA GroupNumbers ==
  ASSUME NEW v, NEW s, NEW i, NEW c, RankOK(v, s, i, c)
  PROVE  /\ v.pq \in Nat /\ v.h.fwdCount \in Nat /\ v.h.bwdCount \in Nat
         /\ v.n["OnP2PSendComplete"] \in Nat
         /\ v.n["OnP2PFwdComplete"] \in Nat /\ v.n["OnP2PBwdComplete"] \in Nat
         /\ v.n["OnP2PFwdStep"] \in Nat /\ v.n["OnP2PBwdStep"] \in Nat
BY FnNames DEF RankOK, Types

LEMMA NoneLeft ==
  ASSUME NEW a \in Nat, NEW b \in Nat, NEW d \in Nat, NEW e \in Nat, a + b + d + e = 0
  PROVE  a = 0 /\ b = 0 /\ d = 0 /\ e = 0
OBVIOUS

LEMMA NoPosts ==
  ASSUME NEW v, NEW s, NEW i, NEW c, RankOK(v, s, i, c), Act(v) \notin P2PPhases
  PROVE  /\ v.pq = 0 /\ v.n["OnP2PSendComplete"] = 0
         /\ v.n["OnP2PFwdComplete"] = 0 /\ v.n["OnP2PBwdComplete"] = 0
<1>1. v.pq + v.n["OnP2PSendComplete"] + v.n["OnP2PFwdComplete"] + v.n["OnP2PBwdComplete"] <= 0
  BY DEF RankOK, Tokens, One
<1> QED BY SMTT(30), <1>1, GroupNumbers

LEMMA NoReports ==
  ASSUME NEW v, NEW w, NEW s, NEW c, RankOK(v, s, 0, c), RankOK(w, s, 1, c), GroupOK(v, w)
  PROVE  /\ Act(v) # "FWD_P2P" \/ v.n["OnP2PFwdComplete"] # 0
              => v.h.fwdCount = 0 /\ v.n["OnP2PFwdStep"] = 0
         /\ Act(v) # "BWD_P2P" \/ v.n["OnP2PBwdComplete"] # 0
              => v.h.bwdCount = 0 /\ v.n["OnP2PBwdStep"] = 0
<1> DEFINE fr == Reporting(v, w, "FWD_P2P")
           br == Reporting(v, w, "BWD_P2P")
<1>1. fr \in Nat /\ br \in Nat
  BY GroupNumbers DEF Reporting
<1>2. v.h.fwdCount + v.n["OnP2PFwdStep"] + fr
       = IF Act(v) = "FWD_P2P" /\ v.n["OnP2PFwdComplete"] = 0 THEN 2 ELSE 0
  BY DEF GroupOK
<1>3. v.h.bwdCount + v.n["OnP2PBwdStep"] + br
       = IF Act(v) = "BWD_P2P" /\ v.n["OnP2PBwdComplete"] = 0 THEN 2 ELSE 0
  BY DEF GroupOK
<1> HIDE DEF fr, br
<1>4. ASSUME Act(v) # "FWD_P2P" \/ v.n["OnP2PFwdComplete"] # 0
      PROVE  v.h.fwdCount = 0 /\ v.n["OnP2PFwdStep"] = 0
  <2>1. v.h.fwdCount + v.n["OnP2PFwdStep"] + fr = 0
    BY <1>2, <1>4
  <2> QED BY <1>1, <2>1, GroupNumbers
<1>5. ASSUME Act(v) # "BWD_P2P" \/ v.n["OnP2PBwdComplete"] # 0
      PROVE  v.h.bwdCount = 0 /\ v.n["OnP2PBwdStep"] = 0
  <2>1. v.h.bwdCount + v.n["OnP2PBwdStep"] + br = 0
    BY <1>3, <1>5
  <2> QED BY <1>1, <2>1, GroupNumbers
<1> QED BY <1>4, <1>5

LEMMA AfterGroup ==
  ASSUME NEW v, NEW w, NEW s, NEW c, StageOK(v, w, s, c),
         NEW x, NEW y, RankStep(v, x, s, 0, c), RankStep(w, y, s, 1, c), PairOK(x, y)
  PROVE  GroupOK(x, y)
<1>1. /\ RankOK(v, s, 0, c) /\ RankOK(w, s, 1, c) /\ PairOK(v, w) /\ GroupOK(v, w)
      /\ RankOK(x, s, 0, c) /\ RankOK(y, s, 1, c) /\ GroupStep(v, x) /\ GroupStep(w, y)
  BY DEF StageOK, RankStep
<1>2. Act(v) = Act(w) /\ Act(x) = Act(y)
  BY <1>1 DEF PairOK, Alike, Act
<1>3. /\ x.h.fwdCount = v.h.fwdCount /\ x.h.bwdCount = v.h.bwdCount
      /\ y.h.fwdCount = 0 /\ y.h.bwdCount = 0 /\ v.h.fwdCount < 2 /\ v.h.bwdCount < 2
      /\ x.n["OnP2PFwdStep"] = v.n["OnP2PFwdStep"] /\ x.n["OnP2PBwdStep"] = v.n["OnP2PBwdStep"]
  BY <1>1 DEF GroupOK, GroupStep
<1>4. CASE Act(x) \notin P2PPhases
  <2>1. v.h.fwdCount = 0 /\ v.n["OnP2PFwdStep"] = 0 /\ v.h.bwdCount = 0 /\ v.n["OnP2PBwdStep"] = 0
    <3>1. \/ Act(v) \notin P2PPhases
          \/ v.n["OnP2PFwdComplete"] # 0 \/ v.n["OnP2PBwdComplete"] # 0
      BY <1>1, <1>4 DEF GroupStep
    <3>2. /\ v.n["OnP2PFwdComplete"] # 0 => Act(v) = "FWD_P2P"
          /\ v.n["OnP2PBwdComplete"] # 0 => Act(v) = "BWD_P2P"
      BY <1>1 DEF RankOK, Tokens
    <3> QED BY <1>1, <3>1, <3>2, NoReports DEF P2PPhases
  <2> QED BY <1>3, <1>4, <2>1 DEF GroupOK, Reporting, P2PPhases
<1>5. CASE Act(x) \in P2PPhases /\ Act(v) \in P2PPhases
  <2>1. /\ Act(v) = Act(x) /\ x.pq = v.pq /\ y.pq = w.pq
        /\ x.n["OnP2PSendComplete"] = v.n["OnP2PSendComplete"]
        /\ y.n["OnP2PSendComplete"] = w.n["OnP2PSendComplete"]
        /\ x.n["OnP2PFwdComplete"] = v.n["OnP2PFwdComplete"]
        /\ x.n["OnP2PBwdComplete"] = v.n["OnP2PBwdComplete"]
    BY <1>1, <1>2, <1>5 DEF GroupStep
  <2> QED BY <1>1, <1>3, <2>1 DEF GroupOK, Reporting
<1>6. CASE Act(x) \in P2PPhases /\ Act(v) \notin P2PPhases
  <2>1. /\ x.pq = v.pq + 1 /\ y.pq = w.pq + 1
        /\ x.n["OnP2PSendComplete"] = v.n["OnP2PSendComplete"]
        /\ y.n["OnP2PSendComplete"] = w.n["OnP2PSendComplete"]
        /\ x.n["OnP2PFwdComplete"] = v.n["OnP2PFwdComplete"]
        /\ x.n["OnP2PBwdComplete"] = v.n["OnP2PBwdComplete"]
    BY <1>1, <1>2, <1>6 DEF GroupStep
  <2>2. /\ x.pq = 1 /\ y.pq = 1
        /\ x.n["OnP2PSendComplete"] = 0 /\ y.n["OnP2PSendComplete"] = 0
        /\ x.n["OnP2PFwdComplete"] = 0 /\ x.n["OnP2PBwdComplete"] = 0
    BY <1>1, <1>2, <1>6, <2>1, NoPosts
  <2>3. v.h.fwdCount = 0 /\ v.n["OnP2PFwdStep"] = 0 /\ v.h.bwdCount = 0 /\ v.n["OnP2PBwdStep"] = 0
    BY <1>1, <1>6, NoReports DEF P2PPhases
  <2> QED BY <1>3, <1>6, <2>2, <2>3 DEF GroupOK, Reporting, P2PPhases
<1> QED BY <1>4, <1>5, <1>6

\* The two ranks of a group run the handlers of a pair of events.
LEMMA PairStep ==
  ASSUME NEW c \in EventConf, NEW s \in Stages, NEW v, NEW w, StageOK(v, w, s, c),
         NEW f \in Paired, v.n[f] # 0, w.n[f] # 0,
         NEW x, x = After(f, v, s, 0, c), NEW y, y = After(f, w, s, 1, c)
  PROVE  StageOK(x, y, s, c) /\ SameLinks(v, x, s)
<1>1. RankStep(v, x, s, 0, c) /\ RankStep(w, y, s, 1, c)
  BY AfterRank DEF StageOK
<1>2. PairOK(x, y)
  BY AfterPair DEF StageOK
<1>3. GroupOK(x, y)
  BY <1>1, <1>2, AfterGroup
<1> QED BY <1>1, <1>2, <1>3 DEF StageOK, RankStep

\* A view with other tokens, but for those that Tokens, RingOK and Counts tell apart.
LEMMA SameRank ==
  ASSUME NEW v, NEW s, NEW i, NEW c, RankOK(v, s, i, c),
         NEW x, x.cc = v.cc, x.rq = v.rq, x.pq = v.pq, IsHybridCC(x.h),
         \A k \in Fields : k \notin {"fwdCount", "bwdCount"} => x.h[k] = v.h[k],
         x.h.fwdCount \in Nat, x.h.bwdCount \in Nat, x.n \in [Fns -> Nat],
         \A g \in {"RdmaStart", "SendChunkFinish", "OnFwdComputeDone", "OnBwdCompute1Done",
                   "OnBwdCompute2Done"} : x.n[g] = v.n[g],
         x.pq + x.n["OnP2PSendComplete"] + x.n["OnP2PFwdComplete"] + x.n["OnP2PBwdComplete"]
           <= One(Act(v) \in P2PPhases),
         x.n["OnP2PFwdComplete"] # 0 => Act(v) = "FWD_P2P",
         x.n["OnP2PBwdComplete"] # 0 => Act(v) = "BWD_P2P",
         Counts(x, s, c)
  PROVE  RankOK(x, s, i, c) /\ Act(x) = Act(v)
<1>1. /\ x.h.phase = v.h.phase /\ x.h.busy = v.h.busy /\ x.h.chunk = v.h.chunk
      /\ x.h.cb = v.h.cb /\ x.h.fwdReady = v.h.fwdReady /\ x.h.bwdReady = v.h.bwdReady
      /\ x.h.fwdIdx = v.h.fwdIdx /\ x.h.bwdIdx = v.h.bwdIdx /\ x.h.inflight = v.h.inflight
      /\ x.h.pendChunk = v.h.pendChunk /\ x.h.pendFwd = v.h.pendFwd
      /\ x.h.fwdRecv = v.h.fwdRecv /\ x.h.bwdRecv = v.h.bwdRecv
  BY DEF Fields
<1>2. Act(x) = Act(v)
  BY <1>1 DEF Act
<1>3. Types(x, c)
  BY <1>1 DEF RankOK, Types
<1>4. Tokens(x)
  BY <1>1, <1>2 DEF RankOK, Tokens
<1>5. Notes(x, s, c)
  BY <1>1, <1>2 DEF RankOK, Notes
<1>6. RingOK(x, i)
  BY <1>2 DEF RankOK, RingOK
<1> QED BY <1>2, <1>3, <1>4, <1>5, <1>6 DEF RankOK

\* One event, f, runs, and g is scheduled; "None" stands for no event.
LEMMA HeldTokens ==
  ASSUME NEW v, v.n \in [Fns -> Nat], NEW f \in Fns \cup {"None"}, NEW g \in Fns \cup {"None"},
         f \in Fns => v.n[f] # 0, f # g, NEW hr, NEW x, x = Held(v, f, hr, g)
  PROVE  /\ x.h = hr /\ x.cc = v.cc /\ x.rq = v.rq /\ x.pq = v.pq /\ x.n \in [Fns -> Nat]
         /\ f \in Fns => x.n[f] = v.n[f] - 1
         /\ g \in Fns => x.n[g] = v.n[g] + 1
         /\ \A k \in Fns : k # f /\ k # g => x.n[k] = v.n[k]
<1>1. x.n = [k \in Fns |-> v.n[k] - One(k = f) + One(k = g)]
  BY DEF Held, Moved
<1>2. x.h = hr /\ x.cc = v.cc /\ x.rq = v.rq /\ x.pq = v.pq
  BY DEF Held, Moved
<1> QED BY <1>1, <1>2 DEF One

\* The same with no event run, and with none scheduled.
LEMMA GotTokens ==
  ASSUME NEW v, v.n \in [Fns -> Nat], NEW g \in Fns, NEW hr, NEW x, x = Held(v, "None", hr, g)
  PROVE  /\ x.h = hr /\ x.cc = v.cc /\ x.rq = v.rq /\ x.pq = v.pq /\ x.n \in [Fns -> Nat]
         /\ x.n[g] = v.n[g] + 1
         /\ \A k \in Fns : k # g => x.n[k] = v.n[k]
<1> DEFINE f == "None"
<1>1. /\ f \notin Fns /\ f \in Fns \cup {"None"} /\ f # g /\ x = Held(v, f, hr, g)
      /\ \A k \in Fns : k # f
  BY FnNames
<1> HIDE DEF f
<1> QED BY <1>1, HeldTokens

LEMMA GoneTokens ==
  ASSUME NEW v, v.n \in [Fns -> Nat], NEW f \in Fns, v.n[f] # 0, NEW hr,
         NEW x, x = Held(v, f, hr, "None")
  PROVE  /\ x.h = hr /\ x.cc = v.cc /\ x.rq = v.rq /\ x.pq = v.pq /\ x.n \in [Fns -> Nat]
         /\ x.n[f] = v.n[f] - 1
         /\ \A k \in Fns : k # f => x.n[k] = v.n[k]
<1> DEFINE g == "None"
<1>1. /\ g \notin Fns /\ g \in Fns \cup {"None"} /\ f # g /\ x = Held(v, f, hr, g)
      /\ \A k \in Fns : k # g
  BY FnNames
<1> HIDE DEF g
<1> QED BY <1>1, HeldTokens

Gone(v, f) == Held(v, f, v.h, "None")
Got(v, g)  == Held(v, "None", v.h, g)

SameStep(v, x, s) == /\ FwdIn(x) = FwdIn(v) /\ FwdOut(x) = FwdOut(v)
                     /\ BwdIn(x) = BwdIn(v) /\ BwdOut(x) = BwdOut(v)

\* OnP2PSendComplete at the leading rank of a group.
LEMMA LeaderSent ==
  ASSUME NEW c \in EventConf, NEW s \in Stages, NEW v, NEW w, StageOK(v, w, s, c),
         v.n["OnP2PSendComplete"] # 0,
         NEW g, g = IF v.h.pendFwd THEN "OnP2PFwdStep" ELSE "OnP2PBwdStep",
         NEW x, x = Held(v, "OnP2PSendComplete", v.h, g)
  PROVE  StageOK(x, w, s, c) /\ SameStep(v, x, s)
<1>1. RankOK(v, s, 0, c) /\ RankOK(w, s, 1, c) /\ PairOK(v, w) /\ GroupOK(v, w)
  BY DEF StageOK
<1>2. v.n \in [Fns -> Nat] /\ IsHybridCC(v.h) /\ g \in {"OnP2PFwdStep", "OnP2PBwdStep"} /\ g \in Fns
      /\ v.h.fwdCount \in Nat /\ v.h.bwdCount \in Nat
  BY <1>1, FnNames DEF RankOK, Types
<1>3. /\ x.h = v.h /\ x.cc = v.cc /\ x.rq = v.rq /\ x.pq = v.pq /\ x.n \in [Fns -> Nat]
      /\ x.n["OnP2PSendComplete"] = v.n["OnP2PSendComplete"] - 1
      /\ x.n[g] = v.n[g] + 1
      /\ \A k \in Fns : k # "OnP2PSendComplete" /\ k # g => x.n[k] = v.n[k]
  <2>1. "OnP2PSendComplete" \in Fns BY FnNames
  <2>2. "OnP2PSendComplete" # g BY <1>2
  <2> QED BY <1>2, <2>1, <2>2, HeldTokens
<1>4. Act(v) \in P2PPhases /\ Act(v) = Act(w)
  BY <1>1, NoPosts DEF PairOK, Alike, Act
<1>5. Act(x) = Act(v)
  BY <1>3 DEF Act
<1>6. /\ x.n["OnP2PFwdRecv_EventDriven"] = v.n["OnP2PFwdRecv_EventDriven"]
      /\ x.n["OnP2PBwdRecv_EventDriven"] = v.n["OnP2PBwdRecv_EventDriven"]
      /\ x.n["OnP2PFwdRecv"] = v.n["OnP2PFwdRecv"] /\ x.n["OnP2PBwdRecv"] = v.n["OnP2PBwdRecv"]
      /\ x.n["StartApplication"] = v.n["StartApplication"]
      /\ x.n["OnP2PFwdComplete"] = v.n["OnP2PFwdComplete"]
      /\ x.n["OnP2PBwdComplete"] = v.n["OnP2PBwdComplete"]
      /\ x.n["RdmaStart"] = v.n["RdmaStart"]
      /\ \A k \in Paired : x.n[k] = v.n[k]
  BY <1>2, <1>3, FnNames DEF Fns, Paired
<1>7. RankOK(x, s, 0, c)
  <2>1. Counts(x, s, c)
    BY <1>1, <1>3, <1>5, <1>6, CountsFrame DEF RankOK
  <2>2. \A k \in {"RdmaStart", "SendChunkFinish", "OnFwdComputeDone", "OnBwdCompute1Done",
                  "OnBwdCompute2Done"} : x.n[k] = v.n[k]
    BY <1>2, <1>3, FnNames
  <2>3. x.pq + x.n["OnP2PSendComplete"] + x.n["OnP2PFwdComplete"] + x.n["OnP2PBwdComplete"]
          <= One(Act(v) \in P2PPhases)
    BY <1>1, <1>3, <1>4, <1>6, GroupNumbers DEF RankOK, Tokens, One
  <2>4. /\ x.n["OnP2PFwdComplete"] # 0 => Act(v) = "FWD_P2P"
        /\ x.n["OnP2PBwdComplete"] # 0 => Act(v) = "BWD_P2P"
    BY <1>1, <1>6 DEF RankOK, Tokens
  <2> QED BY <1>1, <1>2, <1>3, <2>1, <2>2, <2>3, <2>4, SameRank
<1>8. PairOK(x, w)
  BY <1>1, <1>3, <1>5, <1>6 DEF PairOK
<1>9. GroupOK(x, w)
  <2>1. CASE Act(v) = "FWD_P2P"
    <3>1. g = "OnP2PFwdStep"
      BY <1>1, <2>1 DEF RankOK, Notes
    <3>2. x.n["OnP2PBwdStep"] = v.n["OnP2PBwdStep"] /\ x.n["OnP2PFwdStep"] = v.n["OnP2PFwdStep"] + 1
      BY <1>3, <3>1, FnNames
    <3> QED BY <1>1, <1>3, <1>5, <1>6, <2>1, <3>2, GroupNumbers DEF GroupOK, Reporting
  <2>2. CASE Act(v) = "BWD_P2P"
    <3>1. g = "OnP2PBwdStep"
      BY <1>1, <2>2 DEF RankOK, Notes
    <3>2. x.n["OnP2PFwdStep"] = v.n["OnP2PFwdStep"] /\ x.n["OnP2PBwdStep"] = v.n["OnP2PBwdStep"] + 1
      BY <1>3, <3>1, FnNames
    <3>3. /\ Reporting(v, w, "BWD_P2P")
               = v.pq + v.n["OnP2PSendComplete"] + w.pq + w.n["OnP2PSendComplete"]
          /\ Reporting(x, w, "BWD_P2P")
               = v.pq + (v.n["OnP2PSendComplete"] - 1) + w.pq + w.n["OnP2PSendComplete"]
          /\ Reporting(x, w, "FWD_P2P") = 0 /\ Reporting(v, w, "FWD_P2P") = 0
      BY <1>3, <1>5, <2>2 DEF Reporting
    <3>4. v.h.bwdCount + v.n["OnP2PBwdStep"] + Reporting(v, w, "BWD_P2P")
            = x.h.bwdCount + x.n["OnP2PBwdStep"] + Reporting(x, w, "BWD_P2P")
      BY <1>1, <1>3, <3>2, <3>3, GroupNumbers
    <3> QED BY <1>1, <1>3, <1>5, <1>6, <2>2, <3>2, <3>3, <3>4 DEF GroupOK
  <2> QED BY <1>4, <2>1, <2>2 DEF P2PPhases
<1>10. SameStep(v, x, s)
  BY <1>3, <1>5, <1>6 DEF SameStep, FwdIn, FwdOut, BwdIn, BwdOut
<1> QED BY <1>1, <1>7, <1>8, <1>9, <1>10 DEF StageOK

\* OnP2PSendComplete at the other rank.
LEMMA MateSent ==
  ASSUME NEW c \in EventConf, NEW s \in Stages, NEW v, NEW w, StageOK(v, w, s, c),
         w.n["OnP2PSendComplete"] # 0,
         NEW g, g = IF w.h.pendFwd THEN "OnP2PFwdStep" ELSE "OnP2PBwdStep",
         NEW x, x = Got(v, g), NEW y, y = Gone(w, "OnP2PSendComplete")
  PROVE  StageOK(x, y, s, c) /\ SameStep(v, x, s)
<1>1. RankOK(v, s, 0, c) /\ RankOK(w, s, 1, c) /\ PairOK(v, w) /\ GroupOK(v, w)
  BY DEF StageOK
<1>2. /\ v.n \in [Fns -> Nat] /\ IsHybridCC(v.h) /\ v.h.fwdCount \in Nat /\ v.h.bwdCount \in Nat
      /\ w.n \in [Fns -> Nat] /\ IsHybridCC(w.h) /\ w.h.fwdCount \in Nat /\ w.h.bwdCount \in Nat
      /\ g \in {"OnP2PFwdStep", "OnP2PBwdStep"} /\ g \in Fns
  BY <1>1, FnNames DEF RankOK, Types
<1>3. /\ x.h = v.h /\ x.cc = v.cc /\ x.rq = v.rq /\ x.pq = v.pq /\ x.n \in [Fns -> Nat]
      /\ x.n[g] = v.n[g] + 1
      /\ \A k \in Fns : k # g => x.n[k] = v.n[k]
  <2>1. v.n \in [Fns -> Nat] /\ g \in Fns
    BY <1>2
  <2>2. x = Held(v, "None", v.h, g)
    BY DEF Got
  <2> QED BY <2>1, <2>2, GotTokens
<1>4. /\ y.h = w.h /\ y.cc = w.cc /\ y.rq = w.rq /\ y.pq = w.pq /\ y.n \in [Fns -> Nat]
      /\ y.n["OnP2PSendComplete"] = w.n["OnP2PSendComplete"] - 1
      /\ \A k \in Fns : k # "OnP2PSendComplete" => y.n[k] = w.n[k]
  <2>1. "OnP2PSendComplete" \in Fns
    BY FnNames
  <2> QED BY <1>2, <2>1, GoneTokens DEF Gone
<1>5. /\ Act(v) \in P2PPhases /\ Act(v) = Act(w) /\ Act(x) = Act(v) /\ Act(y) = Act(w)
      /\ v.h.pendFwd = w.h.pendFwd
  BY <1>1, <1>3, <1>4, NoPosts DEF PairOK, Alike, Act
<1>6. /\ x.n["OnP2PFwdRecv_EventDriven"] = v.n["OnP2PFwdRecv_EventDriven"]
      /\ x.n["OnP2PBwdRecv_EventDriven"] = v.n["OnP2PBwdRecv_EventDriven"]
      /\ x.n["OnP2PFwdRecv"] = v.n["OnP2PFwdRecv"] /\ x.n["OnP2PBwdRecv"] = v.n["OnP2PBwdRecv"]
      /\ x.n["StartApplication"] = v.n["StartApplication"]
      /\ x.n["OnP2PFwdComplete"] = v.n["OnP2PFwdComplete"]
      /\ x.n["OnP2PBwdComplete"] = v.n["OnP2PBwdComplete"]
      /\ x.n["OnP2PSendComplete"] = v.n["OnP2PSendComplete"]
      /\ x.n["RdmaStart"] = v.n["RdmaStart"]
      /\ \A k \in Paired : x.n[k] = v.n[k]
  BY <1>2, <1>3, FnNames DEF Fns, Paired
<1>7. /\ y.n["OnP2PFwdRecv_EventDriven"] = w.n["OnP2PFwdRecv_EventDriven"]
      /\ y.n["OnP2PBwdRecv_EventDriven"] = w.n["OnP2PBwdRecv_EventDriven"]
      /\ y.n["OnP2PFwdRecv"] = w.n["OnP2PFwdRecv"] /\ y.n["OnP2PBwdRecv"] = w.n["OnP2PBwdRecv"]
      /\ y.n["StartApplication"] = w.n["StartApplication"]
      /\ y.n["OnP2PFwdComplete"] = w.n["OnP2PFwdComplete"]
      /\ y.n["OnP2PBwdComplete"] = w.n["OnP2PBwdComplete"]
      /\ \A k \in Paired : y.n[k] = w.n[k]
  BY <1>2, <1>4, FnNames DEF Fns, Paired
<1>8. RankOK(x, s, 0, c)
  <2>1. Counts(x, s, c)
    BY <1>1, <1>3, <1>5, <1>6, CountsFrame DEF RankOK
  <2>2. \A k \in {"RdmaStart", "SendChunkFinish", "OnFwdComputeDone", "OnBwdCompute1Done",
                  "OnBwdCompute2Done"} : x.n[k] = v.n[k]
    BY <1>2, <1>3, FnNames
  <2>3. x.pq + x.n["OnP2PSendComplete"] + x.n["OnP2PFwdComplete"] + x.n["OnP2PBwdComplete"]
          <= One(Act(v) \in P2PPhases)
    BY <1>1, <1>3, <1>6 DEF RankOK, Tokens
  <2>4. /\ x.n["OnP2PFwdComplete"] # 0 => Act(v) = "FWD_P2P"
        /\ x.n["OnP2PBwdComplete"] # 0 => Act(v) = "BWD_P2P"
    BY <1>1, <1>6 DEF RankOK, Tokens
  <2> QED BY <1>1, <1>2, <1>3, <2>1, <2>2, <2>3, <2>4, SameRank
<1>9. RankOK(y, s, 1, c)
  <2>1. Counts(y, s, c)
    BY <1>1, <1>4, <1>5, <1>7, CountsFrame DEF RankOK
  <2>2. \A k \in {"RdmaStart", "SendChunkFinish", "OnFwdComputeDone", "OnBwdCompute1Done",
                  "OnBwdCompute2Done"} : y.n[k] = w.n[k]
    BY <1>4, FnNames
  <2>3. y.pq + y.n["OnP2PSendComplete"] + y.n["OnP2PFwdComplete"] + y.n["OnP2PBwdComplete"]
          <= One(Act(w) \in P2PPhases)
    BY <1>1, <1>4, <1>5, <1>7, GroupNumbers DEF RankOK, Tokens, One
  <2>4. /\ y.n["OnP2PFwdComplete"] # 0 => Act(w) = "FWD_P2P"
        /\ y.n["OnP2PBwdComplete"] # 0 => Act(w) = "BWD_P2P"
    BY <1>1, <1>7 DEF RankOK, Tokens
  <2> QED BY <1>1, <1>2, <1>4, <2>1, <2>2, <2>3, <2>4, SameRank
<1>10. PairOK(x, y)
  BY <1>1, <1>3, <1>4, <1>5, <1>6, <1>7 DEF PairOK
<1>11. GroupOK(x, y)
  <2>1. \/ g = "OnP2PFwdStep" /\ Act(v) = "FWD_P2P"
        \/ g = "OnP2PBwdStep" /\ Act(v) = "BWD_P2P"
    BY <1>1, <1>5 DEF RankOK, Notes, P2PPhases
  <2>2. /\ v.pq + v.n["OnP2PSendComplete"] + w.pq + w.n["OnP2PSendComplete"]
             = 1 + (x.pq + x.n["OnP2PSendComplete"] + y.pq + y.n["OnP2PSendComplete"])
        /\ v.pq + v.n["OnP2PSendComplete"] + w.pq + w.n["OnP2PSendComplete"] \in Nat
        /\ x.pq + x.n["OnP2PSendComplete"] + y.pq + y.n["OnP2PSendComplete"] \in Nat
    <3>1. /\ v.pq \in Nat /\ v.n["OnP2PSendComplete"] \in Nat /\ w.pq \in Nat
          /\ w.n["OnP2PSendComplete"] \in Nat /\ y.n["OnP2PSendComplete"] \in Nat
      BY <1>1, <1>4, FnNames DEF RankOK, Types
    <3>2. /\ x.pq = v.pq /\ x.n["OnP2PSendComplete"] = v.n["OnP2PSendComplete"] /\ y.pq = w.pq
          /\ y.n["OnP2PSendComplete"] = w.n["OnP2PSendComplete"] - 1
      BY <1>3, <1>4, <1>6
    <3> QED BY <3>1, <3>2
  <2> DEFINE a == v.pq + v.n["OnP2PSendComplete"] + w.pq + w.n["OnP2PSendComplete"]
             b == x.pq + x.n["OnP2PSendComplete"] + y.pq + y.n["OnP2PSendComplete"]
  <2>3. /\ Reporting(v, w, "FWD_P2P") = IF Act(v) = "FWD_P2P" THEN a ELSE 0
        /\ Reporting(v, w, "BWD_P2P") = IF Act(v) = "BWD_P2P" THEN a ELSE 0
        /\ Reporting(x, y, "FWD_P2P") = IF Act(v) = "FWD_P2P" THEN b ELSE 0
        /\ Reporting(x, y, "BWD_P2P") = IF Act(v) = "BWD_P2P" THEN b ELSE 0
    BY <1>5 DEF Reporting
  <2> HIDE DEF a, b
  <2>4. a = 1 + b /\ a \in Nat /\ b \in Nat
    BY <2>2 DEF a, b
  <2>5. CASE g = "OnP2PFwdStep" /\ Act(v) = "FWD_P2P"
    <3>1. x.n["OnP2PBwdStep"] = v.n["OnP2PBwdStep"] /\ x.n["OnP2PFwdStep"] = v.n["OnP2PFwdStep"] + 1
      BY <1>3, <2>5, FnNames
    <3>2. v.h.fwdCount + v.n["OnP2PFwdStep"] + a = v.h.fwdCount + x.n["OnP2PFwdStep"] + b
      BY <1>1, <2>4, <3>1, GroupNumbers
    <3> QED BY <1>1, <1>3, <1>4, <1>5, <1>6, <2>3, <2>5, <3>1, <3>2 DEF GroupOK
  <2>6. CASE g = "OnP2PBwdStep" /\ Act(v) = "BWD_P2P"
    <3>1. x.n["OnP2PFwdStep"] = v.n["OnP2PFwdStep"] /\ x.n["OnP2PBwdStep"] = v.n["OnP2PBwdStep"] + 1
      BY <1>3, <2>6, FnNames
    <3>2. v.h.bwdCount + v.n["OnP2PBwdStep"] + a = v.h.bwdCount + x.n["OnP2PBwdStep"] + b
      BY <1>1, <2>4, <3>1, GroupNumbers
    <3> QED BY <1>1, <1>3, <1>4, <1>5, <1>6, <2>3, <2>6, <3>1, <3>2 DEF GroupOK
  <2> QED BY <2>1, <2>5, <2>6
<1>12. SameStep(v, x, s)
  BY <1>3, <1>5, <1>6 DEF SameStep, FwdIn, FwdOut, BwdIn, BwdOut
<1> QED BY <1>8, <1>9, <1>10, <1>11, <1>12 DEF StageOK

\* OnP2PFwdStep at the leading rank of a group, but for the last report.
LEMMA FwdReport ==
  ASSUME NEW c \in EventConf, NEW s \in Stages, NEW v, NEW w, StageOK(v, w, s, c),
         v.n["OnP2PFwdStep"] # 0, v.h.fwdCount + 1 < 2,
         NEW x, x = Held(v, "OnP2PFwdStep", [v.h EXCEPT !.fwdCount = @ + 1], "None")
  PROVE  StageOK(x, w, s, c) /\ SameStep(v, x, s)
<1>1. RankOK(v, s, 0, c) /\ RankOK(w, s, 1, c) /\ PairOK(v, w) /\ GroupOK(v, w)
  BY DEF StageOK
<1>2. /\ v.n \in [Fns -> Nat] /\ IsHybridCC(v.h) /\ v.h.fwdCount \in Nat /\ v.h.bwdCount \in Nat
  BY <1>1 DEF RankOK, Types
<1> DEFINE hr == [v.h EXCEPT !.fwdCount = @ + 1]
<1>h. /\ IsHybridCC(hr) /\ hr.fwdCount = v.h.fwdCount + 1 /\ hr.bwdCount = v.h.bwdCount
      /\ \A k \in Fields : k # "fwdCount" => hr[k] = v.h[k]
  BY <1>2 DEF IsHybridCC, Fields
<1>x. x = Held(v, "OnP2PFwdStep", hr, "None")
  OBVIOUS
<1> HIDE DEF hr
<1>3. /\ x.h = hr /\ x.cc = v.cc /\ x.rq = v.rq /\ x.pq = v.pq /\ x.n \in [Fns -> Nat]
      /\ x.n["OnP2PFwdStep"] = v.n["OnP2PFwdStep"] - 1
      /\ \A k \in Fns : k # "OnP2PFwdStep" => x.n[k] = v.n[k]
  <2>1. "OnP2PFwdStep" \in Fns
    BY FnNames
  <2> QED BY <1>2, <1>x, <2>1, GoneTokens
<1>4. /\ x.n["OnP2PFwdRecv_EventDriven"] = v.n["OnP2PFwdRecv_EventDriven"]
      /\ x.n["OnP2PBwdRecv_EventDriven"] = v.n["OnP2PBwdRecv_EventDriven"]
      /\ x.n["OnP2PFwdRecv"] = v.n["OnP2PFwdRecv"] /\ x.n["OnP2PBwdRecv"] = v.n["OnP2PBwdRecv"]
      /\ x.n["StartApplication"] = v.n["StartApplication"]
      /\ x.n["OnP2PFwdComplete"] = v.n["OnP2PFwdComplete"]
      /\ x.n["OnP2PBwdComplete"] = v.n["OnP2PBwdComplete"]
      /\ x.n["OnP2PSendComplete"] = v.n["OnP2PSendComplete"]
      /\ x.n["OnP2PBwdStep"] = v.n["OnP2PBwdStep"] /\ x.n["RdmaStart"] = v.n["RdmaStart"]
      /\ \A k \in Paired : x.n[k] = v.n[k]
  BY <1>3, FnNames DEF Fns, Paired
<1>5. /\ x.h.phase = v.h.phase /\ x.h.busy = v.h.busy /\ x.h.fwdIdx = v.h.fwdIdx
      /\ x.h.fwdReady = v.h.fwdReady /\ x.h.bwdIdx = v.h.bwdIdx /\ x.h.bwdReady = v.h.bwdReady
      /\ Alike(x.h, v.h) /\ Act(x) = Act(v)
  BY <1>3, <1>h DEF Fields, Alike, Act
<1>6. RankOK(x, s, 0, c)
  <2>1. Counts(x, s, c)
    BY <1>1, <1>4, <1>5, CountsFrame DEF RankOK
  <2>2. \A k \in {"RdmaStart", "SendChunkFinish", "OnFwdComputeDone", "OnBwdCompute1Done",
                  "OnBwdCompute2Done"} : x.n[k] = v.n[k]
    BY <1>3, FnNames
  <2>3. x.pq + x.n["OnP2PSendComplete"] + x.n["OnP2PFwdComplete"] + x.n["OnP2PBwdComplete"]
          <= One(Act(v) \in P2PPhases)
    BY <1>1, <1>3, <1>4 DEF RankOK, Tokens
  <2>4. /\ x.n["OnP2PFwdComplete"] # 0 => Act(v) = "FWD_P2P"
        /\ x.n["OnP2PBwdComplete"] # 0 => Act(v) = "BWD_P2P"
    BY <1>1, <1>4 DEF RankOK, Tokens
  <2>5. /\ x.h.fwdCount \in Nat /\ x.h.bwdCount \in Nat /\ IsHybridCC(x.h)
        /\ \A k \in Fields : k \notin {"fwdCount", "bwdCount"} => x.h[k] = v.h[k]
    BY <1>2, <1>3, <1>h
  <2> QED BY <1>1, <1>3, <2>1, <2>2, <2>3, <2>4, <2>5, SameRank
<1>7. PairOK(x, w)
  BY SMTT(30), <1>1, <1>3, <1>4, <1>5 DEF PairOK, Alike
<1>8. GroupOK(x, w)
  <2>1. Reporting(x, w, "FWD_P2P") = Reporting(v, w, "FWD_P2P")
        /\ Reporting(x, w, "BWD_P2P") = Reporting(v, w, "BWD_P2P")
    BY <1>3, <1>4, <1>5 DEF Reporting
  <2>2. x.h.fwdCount + x.n["OnP2PFwdStep"] = v.h.fwdCount + v.n["OnP2PFwdStep"]
    BY <1>1, <1>3, <1>h, GroupNumbers
  <2> QED BY <1>1, <1>3, <1>4, <1>5, <1>h, <2>1, <2>2 DEF GroupOK
<1>9. SameStep(v, x, s)
  BY <1>4, <1>5 DEF SameStep, FwdIn, FwdOut, BwdIn, BwdOut
<1> QED BY <1>1, <1>6, <1>7, <1>8, <1>9 DEF StageOK

\* The last report: both ranks of the group are told to go on.
LEMMA FwdOpens ==
  ASSUME NEW c \in EventConf, NEW s \in Stages, NEW v, NEW w, StageOK(v, w, s, c),
         v.n["OnP2PFwdStep"] # 0, v.h.fwdCount + 1 >= 2,
         NEW x, x = Held(v, "OnP2PFwdStep", [v.h EXCEPT !.fwdCount = 0], "OnP2PFwdComplete"),
         NEW y, y = Got(w, "OnP2PFwdComplete")
  PROVE  /\ StageOK(x, y, s, c) /\ s # PP - 1
         /\ FwdIn(x) = FwdIn(v) /\ BwdIn(x) = BwdIn(v)
         /\ BwdOut(x) = BwdOut(v) /\ FwdOut(x) = FwdOut(v) + 1
<1>1. RankOK(v, s, 0, c) /\ RankOK(w, s, 1, c) /\ PairOK(v, w) /\ GroupOK(v, w)
  BY DEF StageOK
<1>2. /\ v.n \in [Fns -> Nat] /\ IsHybridCC(v.h) /\ v.h.fwdCount \in Nat /\ v.h.bwdCount \in Nat
      /\ w.n \in [Fns -> Nat] /\ IsHybridCC(w.h) /\ w.h.fwdCount \in Nat /\ w.h.bwdCount \in Nat
  BY <1>1 DEF RankOK, Types
<1> DEFINE hr == [v.h EXCEPT !.fwdCount = 0]
<1>h. /\ IsHybridCC(hr) /\ hr.fwdCount = 0 /\ hr.bwdCount = v.h.bwdCount
      /\ \A k \in Fields : k # "fwdCount" => hr[k] = v.h[k]
  BY <1>2 DEF IsHybridCC, Fields
<1>x. x = Held(v, "OnP2PFwdStep", hr, "OnP2PFwdComplete")
  OBVIOUS
<1> HIDE DEF hr
<1>3. /\ x.h = hr /\ x.cc = v.cc /\ x.rq = v.rq /\ x.pq = v.pq /\ x.n \in [Fns -> Nat]
      /\ x.n["OnP2PFwdStep"] = v.n["OnP2PFwdStep"] - 1
      /\ x.n["OnP2PFwdComplete"] = v.n["OnP2PFwdComplete"] + 1
      /\ \A k \in Fns : k # "OnP2PFwdStep" /\ k # "OnP2PFwdComplete" => x.n[k] = v.n[k]
  <2>1. "OnP2PFwdStep" \in Fns /\ "OnP2PFwdComplete" \in Fns
    BY FnNames
  <2>2. "OnP2PFwdStep" # "OnP2PFwdComplete"
    OBVIOUS
  <2> QED BY SMTT(30), <1>2, <1>x, <2>1, <2>2, HeldTokens
<1>4. /\ y.h = w.h /\ y.cc = w.cc /\ y.rq = w.rq /\ y.pq = w.pq /\ y.n \in [Fns -> Nat]
      /\ y.n["OnP2PFwdComplete"] = w.n["OnP2PFwdComplete"] + 1
      /\ \A k \in Fns : k # "OnP2PFwdComplete" => y.n[k] = w.n[k]
  <2>1. "OnP2PFwdComplete" \in Fns
    BY FnNames
  <2> QED BY <1>2, <2>1, GotTokens DEF Got
<1>5. /\ x.n["OnP2PFwdRecv_EventDriven"] = v.n["OnP2PFwdRecv_EventDriven"]
      /\ x.n["OnP2PBwdRecv_EventDriven"] = v.n["OnP2PBwdRecv_EventDriven"]
      /\ x.n["OnP2PFwdRecv"] = v.n["OnP2PFwdRecv"] /\ x.n["OnP2PBwdRecv"] = v.n["OnP2PBwdRecv"]
      /\ x.n["StartApplication"] = v.n["StartApplication"]
      /\ x.n["OnP2PBwdComplete"] = v.n["OnP2PBwdComplete"]
      /\ x.n["OnP2PSendComplete"] = v.n["OnP2PSendComplete"]
      /\ x.n["OnP2PBwdStep"] = v.n["OnP2PBwdStep"] /\ x.n["RdmaStart"] = v.n["RdmaStart"]
      /\ \A k \in Paired : k # "OnP2PFwdComplete" => x.n[k] = v.n[k]
  BY <1>3, FnNames DEF Fns, Paired
<1>6. /\ y.n["OnP2PFwdRecv_EventDriven"] = w.n["OnP2PFwdRecv_EventDriven"]
      /\ y.n["OnP2PBwdRecv_EventDriven"] = w.n["OnP2PBwdRecv_EventDriven"]
      /\ y.n["OnP2PFwdRecv"] = w.n["OnP2PFwdRecv"] /\ y.n["OnP2PBwdRecv"] = w.n["OnP2PBwdRecv"]
      /\ y.n["StartApplication"] = w.n["StartApplication"]
      /\ y.n["OnP2PBwdComplete"] = w.n["OnP2PBwdComplete"]
      /\ y.n["OnP2PSendComplete"] = w.n["OnP2PSendComplete"]
      /\ \A k \in Paired : k # "OnP2PFwdComplete" => y.n[k] = w.n[k]
  BY <1>4, FnNames DEF Fns, Paired
<1>7. /\ x.h.phase = v.h.phase /\ x.h.busy = v.h.busy /\ x.h.fwdIdx = v.h.fwdIdx
      /\ x.h.fwdReady = v.h.fwdReady /\ x.h.bwdIdx = v.h.bwdIdx /\ x.h.bwdReady = v.h.bwdReady
      /\ Alike(x.h, v.h) /\ Act(x) = Act(v) /\ Act(y) = Act(w) /\ Act(w) = Act(v)
  BY <1>1, <1>3, <1>4, <1>h DEF Fields, Alike, Act, PairOK
<1> DEFINE rv == Reporting(v, w, "FWD_P2P")
<1>8. /\ Act(v) = "FWD_P2P" /\ v.n["OnP2PFwdComplete"] = 0 /\ v.h.fwdCount = 1
      /\ v.n["OnP2PFwdStep"] = 1 /\ rv = 0
  <2>1. v.h.fwdCount + v.n["OnP2PFwdStep"] + rv
          = IF Act(v) = "FWD_P2P" /\ v.n["OnP2PFwdComplete"] = 0 THEN 2 ELSE 0
    BY <1>1 DEF GroupOK
  <2>2. rv \in Nat
    BY <1>1, GroupNumbers DEF Reporting
  <2> HIDE DEF rv
  <2>3. v.h.fwdCount >= 1 /\ v.n["OnP2PFwdStep"] >= 1 /\ v.h.fwdCount \in Nat /\ v.n["OnP2PFwdStep"] \in Nat
    BY <1>1, GroupNumbers
  <2> QED BY <2>1, <2>2, <2>3
<1>9. /\ v.pq = 0 /\ w.pq = 0 /\ v.n["OnP2PSendComplete"] = 0 /\ w.n["OnP2PSendComplete"] = 0
      /\ w.n["OnP2PFwdComplete"] = 0 /\ v.n["OnP2PBwdComplete"] = 0 /\ w.n["OnP2PBwdComplete"] = 0
  <2>1. v.pq + v.n["OnP2PSendComplete"] + w.pq + w.n["OnP2PSendComplete"] = 0
    BY <1>8 DEF Reporting
  <2>2. w.n["OnP2PFwdComplete"] = v.n["OnP2PFwdComplete"]
    BY <1>1 DEF PairOK, Paired
  <2>3. v.n["OnP2PBwdComplete"] = 0 /\ w.n["OnP2PBwdComplete"] = 0
    BY <1>1, <1>7, <1>8 DEF RankOK, Tokens
  <2>4. /\ v.pq \in Nat /\ w.pq \in Nat
        /\ v.n["OnP2PSendComplete"] \in Nat /\ w.n["OnP2PSendComplete"] \in Nat
    BY <1>1, GroupNumbers
  <2>5. /\ v.pq = 0 /\ w.pq = 0 /\ v.n["OnP2PSendComplete"] = 0 /\ w.n["OnP2PSendComplete"] = 0
    BY <2>1, <2>4, NoneLeft
  <2> QED BY <1>8, <2>2, <2>3, <2>5
<1>10. RankOK(x, s, 0, c)
  <2>1. Counts(x, s, c)
    BY <1>1, <1>5, <1>7, CountsFrame DEF RankOK
  <2>2. \A k \in {"RdmaStart", "SendChunkFinish", "OnFwdComputeDone", "OnBwdCompute1Done",
                  "OnBwdCompute2Done"} : x.n[k] = v.n[k]
    BY <1>3, FnNames
  <2>3. x.pq + x.n["OnP2PSendComplete"] + x.n["OnP2PFwdComplete"] + x.n["OnP2PBwdComplete"]
          <= One(Act(v) \in P2PPhases)
    BY <1>3, <1>5, <1>8, <1>9 DEF One, P2PPhases
  <2>4. /\ x.n["OnP2PFwdComplete"] # 0 => Act(v) = "FWD_P2P"
        /\ x.n["OnP2PBwdComplete"] # 0 => Act(v) = "BWD_P2P"
    BY <1>5, <1>8, <1>9
  <2>5. /\ x.h.fwdCount \in Nat /\ x.h.bwdCount \in Nat /\ IsHybridCC(x.h)
        /\ \A k \in Fields : k \notin {"fwdCount", "bwdCount"} => x.h[k] = v.h[k]
    BY <1>2, <1>3, <1>h
  <2> QED BY <1>1, <1>3, <2>1, <2>2, <2>3, <2>4, <2>5, SameRank
<1>11. RankOK(y, s, 1, c)
  <2>1. Counts(y, s, c)
    BY <1>1, <1>4, <1>6, <1>7, CountsFrame DEF RankOK
  <2>2. \A k \in {"RdmaStart", "SendChunkFinish", "OnFwdComputeDone", "OnBwdCompute1Done",
                  "OnBwdCompute2Done"} : y.n[k] = w.n[k]
    BY <1>4, FnNames
  <2>3. y.pq + y.n["OnP2PSendComplete"] + y.n["OnP2PFwdComplete"] + y.n["OnP2PBwdComplete"]
          <= One(Act(w) \in P2PPhases)
    BY <1>4, <1>6, <1>7, <1>8, <1>9 DEF One, P2PPhases
  <2>4. /\ y.n["OnP2PFwdComplete"] # 0 => Act(w) = "FWD_P2P"
        /\ y.n["OnP2PBwdComplete"] # 0 => Act(w) = "BWD_P2P"
    BY <1>6, <1>7, <1>8, <1>9
  <2> QED BY <1>1, <1>2, <1>4, <2>1, <2>2, <2>3, <2>4, SameRank
<1>12. PairOK(x, y)
  <2>1. \A k \in Paired : x.n[k] = y.n[k]
    BY <1>1, <1>3, <1>4, <1>5, <1>6, <1>8, <1>9 DEF PairOK
  <2> QED BY <1>1, <1>3, <1>4, <1>5, <1>7, <2>1 DEF PairOK, Alike
<1>13. GroupOK(x, y)
  <2>1. Reporting(x, y, "FWD_P2P") = 0 /\ Reporting(x, y, "BWD_P2P") = 0
    BY <1>3, <1>4, <1>5, <1>6, <1>9 DEF Reporting
  <2>2. v.h.bwdCount = 0 /\ v.n["OnP2PBwdStep"] = 0
    BY <1>1, <1>8, NoReports
  <2>3. w.h.fwdCount = 0 /\ w.h.bwdCount = 0
    BY <1>1 DEF GroupOK
  <2> QED BY <1>3, <1>4, <1>5, <1>7, <1>8, <1>h, <2>1, <2>2, <2>3 DEF GroupOK
<1>14. s # PP - 1
  BY <1>1, <1>8 DEF RankOK, Notes
<1>15. /\ FwdIn(x) = FwdIn(v) /\ BwdIn(x) = BwdIn(v)
       /\ BwdOut(x) = BwdOut(v) /\ FwdOut(x) = FwdOut(v) + 1
  <2>1. /\ v.h.fwdIdx \in Nat /\ v.h.bwdIdx \in Nat
        /\ One(Act(v) \in FwdPhases) \in Nat /\ One(Act(v) \in BwdPhases) \in Nat
    BY <1>1 DEF RankOK, Types, One
  <2> QED BY <1>3, <1>5, <1>7, <1>8, <2>1 DEF FwdIn, FwdOut, BwdIn, BwdOut
<1> QED BY <1>10, <1>11, <1>12, <1>13, <1>14, <1>15 DEF StageOK

\* The leading rank of the neighbour is told.
LEMMA FwdTold ==
  ASSUME NEW c \in EventConf, NEW s \in Stages, NEW v, NEW w, StageOK(v, w, s, c),
         s # 0, NEW x, x = Got(v, "OnP2PFwdRecv")
  PROVE  /\ StageOK(x, w, s, c)
         /\ FwdOut(x) = FwdOut(v) /\ BwdOut(x) = BwdOut(v)
         /\ BwdIn(x) = BwdIn(v) /\ FwdIn(x) = FwdIn(v) + 1
<1>1. RankOK(v, s, 0, c) /\ RankOK(w, s, 1, c) /\ PairOK(v, w) /\ GroupOK(v, w)
  BY DEF StageOK
<1>2. /\ v.n \in [Fns -> Nat] /\ IsHybridCC(v.h) /\ v.h.fwdCount \in Nat /\ v.h.bwdCount \in Nat
  BY <1>1 DEF RankOK, Types
<1>3. /\ x.h = v.h /\ x.cc = v.cc /\ x.rq = v.rq /\ x.pq = v.pq /\ x.n \in [Fns -> Nat]
      /\ x.n["OnP2PFwdRecv"] = v.n["OnP2PFwdRecv"] + 1
      /\ \A k \in Fns : k # "OnP2PFwdRecv" => x.n[k] = v.n[k]
  <2>1. "OnP2PFwdRecv" \in Fns
    BY FnNames
  <2> QED BY <1>2, <2>1, GotTokens DEF Got
<1>4. /\ x.n["OnP2PFwdRecv_EventDriven"] = v.n["OnP2PFwdRecv_EventDriven"]
      /\ x.n["OnP2PBwdRecv_EventDriven"] = v.n["OnP2PBwdRecv_EventDriven"]
      /\ x.n["OnP2PBwdRecv"] = v.n["OnP2PBwdRecv"]
      /\ x.n["StartApplication"] = v.n["StartApplication"]
      /\ x.n["OnP2PFwdComplete"] = v.n["OnP2PFwdComplete"]
      /\ x.n["OnP2PBwdComplete"] = v.n["OnP2PBwdComplete"]
      /\ x.n["OnP2PSendComplete"] = v.n["OnP2PSendComplete"]
      /\ x.n["OnP2PFwdStep"] = v.n["OnP2PFwdStep"] /\ x.n["OnP2PBwdStep"] = v.n["OnP2PBwdStep"]
      /\ x.n["RdmaStart"] = v.n["RdmaStart"]
      /\ \A k \in Paired : x.n[k] = v.n[k]
  BY <1>3, FnNames DEF Fns, Paired
<1>5. Act(x) = Act(v)
  BY <1>3 DEF Act
<1>6. RankOK(x, s, 0, c)
  <2>1. Counts(x, s, c)
    BY <1>1, <1>3, <1>4, <1>5 DEF RankOK, Counts
  <2>2. \A k \in {"RdmaStart", "SendChunkFinish", "OnFwdComputeDone", "OnBwdCompute1Done",
                  "OnBwdCompute2Done"} : x.n[k] = v.n[k]
    BY <1>3, FnNames
  <2>3. x.pq + x.n["OnP2PSendComplete"] + x.n["OnP2PFwdComplete"] + x.n["OnP2PBwdComplete"]
          <= One(Act(v) \in P2PPhases)
    BY <1>1, <1>3, <1>4 DEF RankOK, Tokens
  <2>4. /\ x.n["OnP2PFwdComplete"] # 0 => Act(v) = "FWD_P2P"
        /\ x.n["OnP2PBwdComplete"] # 0 => Act(v) = "BWD_P2P"
    BY <1>1, <1>4 DEF RankOK, Tokens
  <2> QED BY <1>1, <1>2, <1>3, <2>1, <2>2, <2>3, <2>4, SameRank
<1>7. PairOK(x, w)
  BY <1>1, <1>3, <1>4, <1>5 DEF PairOK
<1>8. GroupOK(x, w)
  BY <1>1, <1>3, <1>4, <1>5 DEF GroupOK, Reporting
<1>9. /\ FwdOut(x) = FwdOut(v) /\ BwdOut(x) = BwdOut(v)
      /\ BwdIn(x) = BwdIn(v) /\ FwdIn(x) = FwdIn(v) + 1
  <2>1. /\ v.h.fwdIdx \in Nat /\ v.h.fwdReady \in Nat
        /\ v.n["OnP2PFwdRecv_EventDriven"] \in Nat /\ v.n["OnP2PFwdRecv"] \in Nat
    BY <1>1, FnNames DEF RankOK, Types
  <2> QED BY <1>3, <1>4, <1>5, <2>1 DEF FwdIn, FwdOut, BwdIn, BwdOut
<1> QED BY <1>1, <1>6, <1>7, <1>8, <1>9 DEF StageOK

\* OnP2PFwdRecv: the leading rank tells its group.
LEMMA FwdSpreads ==
  ASSUME NEW c \in EventConf, NEW s \in Stages, NEW v, NEW w, StageOK(v, w, s, c),
         v.n["OnP2PFwdRecv"] # 0, FwdIn(v) <= c.chunks,
         NEW x, x = Held(v, "OnP2PFwdRecv", v.h, "OnP2PFwdRecv_EventDriven"),
         NEW y, y = Got(w, "OnP2PFwdRecv_EventDriven")
  PROVE  StageOK(x, y, s, c) /\ SameStep(v, x, s)
<1>1. RankOK(v, s, 0, c) /\ RankOK(w, s, 1, c) /\ PairOK(v, w) /\ GroupOK(v, w)
  BY DEF StageOK
<1>2. /\ v.n \in [Fns -> Nat] /\ IsHybridCC(v.h) /\ v.h.fwdCount \in Nat /\ v.h.bwdCount \in Nat
      /\ w.n \in [Fns -> Nat] /\ IsHybridCC(w.h) /\ w.h.fwdCount \in Nat /\ w.h.bwdCount \in Nat
  BY <1>1 DEF RankOK, Types
<1>3. /\ x.h = v.h /\ x.cc = v.cc /\ x.rq = v.rq /\ x.pq = v.pq /\ x.n \in [Fns -> Nat]
      /\ x.n["OnP2PFwdRecv"] = v.n["OnP2PFwdRecv"] - 1
      /\ x.n["OnP2PFwdRecv_EventDriven"] = v.n["OnP2PFwdRecv_EventDriven"] + 1
      /\ \A k \in Fns : k # "OnP2PFwdRecv" /\ k # "OnP2PFwdRecv_EventDriven" => x.n[k] = v.n[k]
  <2>1. "OnP2PFwdRecv" \in Fns /\ "OnP2PFwdRecv_EventDriven" \in Fns
    BY FnNames
  <2>2. "OnP2PFwdRecv" # "OnP2PFwdRecv_EventDriven"
    OBVIOUS
  <2> QED BY <1>2, <2>1, <2>2, HeldTokens
<1>4. /\ y.h = w.h /\ y.cc = w.cc /\ y.rq = w.rq /\ y.pq = w.pq /\ y.n \in [Fns -> Nat]
      /\ y.n["OnP2PFwdRecv_EventDriven"] = w.n["OnP2PFwdRecv_EventDriven"] + 1
      /\ \A k \in Fns : k # "OnP2PFwdRecv_EventDriven" => y.n[k] = w.n[k]
  <2>1. "OnP2PFwdRecv_EventDriven" \in Fns
    BY FnNames
  <2> QED BY <1>2, <2>1, GotTokens DEF Got
<1>5. /\ x.n["OnP2PBwdRecv_EventDriven"] = v.n["OnP2PBwdRecv_EventDriven"]
      /\ x.n["OnP2PBwdRecv"] = v.n["OnP2PBwdRecv"]
      /\ x.n["StartApplication"] = v.n["StartApplication"]
      /\ x.n["OnP2PFwdComplete"] = v.n["OnP2PFwdComplete"]
      /\ x.n["OnP2PBwdComplete"] = v.n["OnP2PBwdComplete"]
      /\ x.n["OnP2PSendComplete"] = v.n["OnP2PSendComplete"]
      /\ x.n["OnP2PFwdStep"] = v.n["OnP2PFwdStep"] /\ x.n["OnP2PBwdStep"] = v.n["OnP2PBwdStep"]
      /\ x.n["RdmaStart"] = v.n["RdmaStart"]
      /\ \A k \in Paired : k # "OnP2PFwdRecv_EventDriven" => x.n[k] = v.n[k]
  BY <1>3, FnNames DEF Fns, Paired
<1>6. /\ y.n["OnP2PBwdRecv_EventDriven"] = w.n["OnP2PBwdRecv_EventDriven"]
      /\ y.n["OnP2PFwdRecv"] = w.n["OnP2PFwdRecv"] /\ y.n["OnP2PBwdRecv"] = w.n["OnP2PBwdRecv"]
      /\ y.n["StartApplication"] = w.n["StartApplication"]
      /\ y.n["OnP2PFwdComplete"] = w.n["OnP2PFwdComplete"]
      /\ y.n["OnP2PBwdComplete"] = w.n["OnP2PBwdComplete"]
      /\ y.n["OnP2PSendComplete"] = w.n["OnP2PSendComplete"]
      /\ \A k \in Paired : k # "OnP2PFwdRecv_EventDriven" => y.n[k] = w.n[k]
  BY <1>4, FnNames DEF Fns, Paired
<1>7. /\ Act(x) = Act(v) /\ Act(y) = Act(w) /\ Act(w) = Act(v)
  BY <1>1, <1>3, <1>4 DEF Alike, Act, PairOK
<1>8. /\ v.h.fwdIdx \in Nat /\ v.h.fwdReady \in Nat
      /\ v.n["OnP2PFwdRecv_EventDriven"] \in Nat /\ v.n["OnP2PFwdRecv"] \in Nat
      /\ w.h.fwdIdx = v.h.fwdIdx /\ w.h.fwdReady = v.h.fwdReady
      /\ w.n["OnP2PFwdRecv_EventDriven"] = v.n["OnP2PFwdRecv_EventDriven"]
  BY <1>1, FnNames DEF RankOK, Types, PairOK, Alike, Paired
<1>9. s # 0
  BY <1>1 DEF RankOK, Counts
<1>10. v.h.fwdIdx + v.h.fwdReady + (v.n["OnP2PFwdRecv_EventDriven"] + 1) <= c.chunks
  <2>1. v.h.fwdIdx + v.h.fwdReady + v.n["OnP2PFwdRecv_EventDriven"] + v.n["OnP2PFwdRecv"] <= c.chunks
    BY DEF FwdIn
  <2>2. v.n["OnP2PFwdRecv"] >= 1 /\ c.chunks \in Nat
    BY <1>8 DEF EventConf
  <2> QED BY <1>8, <2>1, <2>2
<1>11. RankOK(x, s, 0, c)
  <2>1. Counts(x, s, c)
    BY <1>1, <1>3, <1>5, <1>7, <1>8, <1>9, <1>10 DEF RankOK, Counts, EventConf
  <2>2. \A k \in {"RdmaStart", "SendChunkFinish", "OnFwdComputeDone", "OnBwdCompute1Done",
                  "OnBwdCompute2Done"} : x.n[k] = v.n[k]
    BY <1>3, FnNames
  <2>3. x.pq + x.n["OnP2PSendComplete"] + x.n["OnP2PFwdComplete"] + x.n["OnP2PBwdComplete"]
          <= One(Act(v) \in P2PPhases)
    BY <1>1, <1>3, <1>5 DEF RankOK, Tokens
  <2>4. /\ x.n["OnP2PFwdComplete"] # 0 => Act(v) = "FWD_P2P"
        /\ x.n["OnP2PBwdComplete"] # 0 => Act(v) = "BWD_P2P"
    BY <1>1, <1>5 DEF RankOK, Tokens
  <2> QED BY <1>1, <1>2, <1>3, <2>1, <2>2, <2>3, <2>4, SameRank
<1>12. RankOK(y, s, 1, c)
  <2>1. Counts(y, s, c)
    BY <1>1, <1>4, <1>6, <1>7, <1>8, <1>9, <1>10 DEF RankOK, Counts, EventConf
  <2>2. \A k \in {"RdmaStart", "SendChunkFinish", "OnFwdComputeDone", "OnBwdCompute1Done",
                  "OnBwdCompute2Done"} : y.n[k] = w.n[k]
    BY <1>4, FnNames
  <2>3. y.pq + y.n["OnP2PSendComplete"] + y.n["OnP2PFwdComplete"] + y.n["OnP2PBwdComplete"]
          <= One(Act(w) \in P2PPhases)
    BY <1>1, <1>4, <1>6 DEF RankOK, Tokens
  <2>4. /\ y.n["OnP2PFwdComplete"] # 0 => Act(w) = "FWD_P2P"
        /\ y.n["OnP2PBwdComplete"] # 0 => Act(w) = "BWD_P2P"
    BY <1>1, <1>6 DEF RankOK, Tokens
  <2> QED BY <1>1, <1>2, <1>4, <2>1, <2>2, <2>3, <2>4, SameRank
<1>13. PairOK(x, y)
  <2>1. \A k \in Paired : x.n[k] = y.n[k]
    BY <1>1, <1>3, <1>4, <1>5, <1>6, <1>8 DEF PairOK
  <2> QED BY <1>1, <1>3, <1>4, <1>5, <1>7, <2>1 DEF PairOK
<1>14. GroupOK(x, y)
  BY <1>1, <1>3, <1>4, <1>5, <1>6, <1>7 DEF GroupOK, Reporting
<1>15. SameStep(v, x, s)
  <2>1. FwdIn(x) = FwdIn(v)
    BY <1>3, <1>8 DEF FwdIn
  <2> QED BY <1>3, <1>5, <1>7, <2>1 DEF SameStep, FwdIn, FwdOut, BwdIn, BwdOut
<1> QED BY <1>11, <1>12, <1>13, <1>14, <1>15 DEF StageOK

\* OnP2PBwdStep at the leading rank of a group, but for the last report.
LEMMA BwdReport ==
  ASSUME NEW c \in EventConf, NEW s \in Stages, NEW v, NEW w, StageOK(v, w, s, c),
         v.n["OnP2PBwdStep"] # 0, v.h.bwdCount + 1 < 2,
         NEW x, x = Held(v, "OnP2PBwdStep", [v.h EXCEPT !.bwdCount = @ + 1], "None")
  PROVE  StageOK(x, w, s, c) /\ SameStep(v, x, s)
<1>1. RankOK(v, s, 0, c) /\ RankOK(w, s, 1, c) /\ PairOK(v, w) /\ GroupOK(v, w)
  BY DEF StageOK
<1>2. /\ v.n \in [Fns -> Nat] /\ IsHybridCC(v.h) /\ v.h.fwdCount \in Nat /\ v.h.bwdCount \in Nat
  BY <1>1 DEF RankOK, Types
<1> DEFINE hr == [v.h EXCEPT !.bwdCount = @ + 1]
<1>h. /\ IsHybridCC(hr) /\ hr.bwdCount = v.h.bwdCount + 1 /\ hr.fwdCount = v.h.fwdCount
      /\ \A k \in Fields : k # "bwdCount" => hr[k] = v.h[k]
  BY <1>2 DEF IsHybridCC, Fields
<1>x. x = Held(v, "OnP2PBwdStep", hr, "None")
  OBVIOUS
<1> HIDE DEF hr
<1>3. /\ x.h = hr /\ x.cc = v.cc /\ x.rq = v.rq /\ x.pq = v.pq /\ x.n \in [Fns -> Nat]
      /\ x.n["OnP2PBwdStep"] = v.n["OnP2PBwdStep"] - 1
      /\ \A k \in Fns : k # "OnP2PBwdStep" => x.n[k] = v.n[k]
  <2>1. "OnP2PBwdStep" \in Fns
    BY FnNames
  <2> QED BY <1>2, <1>x, <2>1, GoneTokens
<1>4. /\ x.n["OnP2PFwdRecv_EventDriven"] = v.n["OnP2PFwdRecv_EventDriven"]
      /\ x.n["OnP2PBwdRecv_EventDriven"] = v.n["OnP2PBwdRecv_EventDriven"]
      /\ x.n["OnP2PFwdRecv"] = v.n["OnP2PFwdRecv"] /\ x.n["OnP2PBwdRecv"] = v.n["OnP2PBwdRecv"]
      /\ x.n["StartApplication"] = v.n["StartApplication"]
      /\ x.n["OnP2PFwdComplete"] = v.n["OnP2PFwdComplete"]
      /\ x.n["OnP2PBwdComplete"] = v.n["OnP2PBwdComplete"]
      /\ x.n["OnP2PSendComplete"] = v.n["OnP2PSendComplete"]
      /\ x.n["OnP2PFwdStep"] = v.n["OnP2PFwdStep"] /\ x.n["RdmaStart"] = v.n["RdmaStart"]
      /\ \A k \in Paired : x.n[k] = v.n[k]
  BY <1>3, FnNames DEF Fns, Paired
<1>5. /\ x.h.phase = v.h.phase /\ x.h.busy = v.h.busy /\ x.h.fwdIdx = v.h.fwdIdx
      /\ x.h.fwdReady = v.h.fwdReady /\ x.h.bwdIdx = v.h.bwdIdx /\ x.h.bwdReady = v.h.bwdReady
      /\ Alike(x.h, v.h) /\ Act(x) = Act(v)
  BY <1>3, <1>h DEF Fields, Alike, Act
<1>6. RankOK(x, s, 0, c)
  <2>1. Counts(x, s, c)
    BY <1>1, <1>4, <1>5, CountsFrame DEF RankOK
  <2>2. \A k \in {"RdmaStart", "SendChunkFinish", "OnFwdComputeDone", "OnBwdCompute1Done",
                  "OnBwdCompute2Done"} : x.n[k] = v.n[k]
    BY <1>3, FnNames
  <2>3. x.pq + x.n["OnP2PSendComplete"] + x.n["OnP2PFwdComplete"] + x.n["OnP2PBwdComplete"]
          <= One(Act(v) \in P2PPhases)
    BY <1>1, <1>3, <1>4 DEF RankOK, Tokens
  <2>4. /\ x.n["OnP2PFwdComplete"] # 0 => Act(v) = "FWD_P2P"
        /\ x.n["OnP2PBwdComplete"] # 0 => Act(v) = "BWD_P2P"
    BY <1>1, <1>4 DEF RankOK, Tokens
  <2>5. /\ x.h.fwdCount \in Nat /\ x.h.bwdCount \in Nat /\ IsHybridCC(x.h)
        /\ \A k \in Fields : k \notin {"fwdCount", "bwdCount"} => x.h[k] = v.h[k]
    BY <1>2, <1>3, <1>h
  <2> QED BY <1>1, <1>3, <2>1, <2>2, <2>3, <2>4, <2>5, SameRank
<1>7. PairOK(x, w)
  BY SMTT(30), <1>1, <1>3, <1>4, <1>5 DEF PairOK, Alike
<1>8. GroupOK(x, w)
  <2>1. Reporting(x, w, "FWD_P2P") = Reporting(v, w, "FWD_P2P")
        /\ Reporting(x, w, "BWD_P2P") = Reporting(v, w, "BWD_P2P")
    BY <1>3, <1>4, <1>5 DEF Reporting
  <2>2. x.h.bwdCount + x.n["OnP2PBwdStep"] = v.h.bwdCount + v.n["OnP2PBwdStep"]
    BY <1>1, <1>3, <1>h, GroupNumbers
  <2> QED BY <1>1, <1>3, <1>4, <1>5, <1>h, <2>1, <2>2 DEF GroupOK
<1>9. SameStep(v, x, s)
  BY <1>4, <1>5 DEF SameStep, FwdIn, FwdOut, BwdIn, BwdOut
<1> QED BY <1>1, <1>6, <1>7, <1>8, <1>9 DEF StageOK

\* The last report: both ranks of the group are told to go on.
LEMMA BwdOpens ==
  ASSUME NEW c \in EventConf, NEW s \in Stages, NEW v, NEW w, StageOK(v, w, s, c),
         v.n["OnP2PBwdStep"] # 0, v.h.bwdCount + 1 >= 2,
         NEW x, x = Held(v, "OnP2PBwdStep", [v.h EXCEPT !.bwdCount = 0], "OnP2PBwdComplete"),
         NEW y, y = Got(w, "OnP2PBwdComplete")
  PROVE  /\ StageOK(x, y, s, c) /\ s # 0
         /\ FwdIn(x) = FwdIn(v) /\ BwdIn(x) = BwdIn(v)
         /\ FwdOut(x) = FwdOut(v) /\ BwdOut(x) = BwdOut(v) + 1
<1>1. RankOK(v, s, 0, c) /\ RankOK(w, s, 1, c) /\ PairOK(v, w) /\ GroupOK(v, w)
  BY DEF StageOK
<1>2. /\ v.n \in [Fns -> Nat] /\ IsHybridCC(v.h) /\ v.h.fwdCount \in Nat /\ v.h.bwdCount \in Nat
      /\ w.n \in [Fns -> Nat] /\ IsHybridCC(w.h) /\ w.h.fwdCount \in Nat /\ w.h.bwdCount \in Nat
  BY <1>1 DEF RankOK, Types
<1> DEFINE hr == [v.h EXCEPT !.bwdCount = 0]
<1>h. /\ IsHybridCC(hr) /\ hr.bwdCount = 0 /\ hr.fwdCount = v.h.fwdCount
      /\ \A k \in Fields : k # "bwdCount" => hr[k] = v.h[k]
  BY <1>2 DEF IsHybridCC, Fields
<1>x. x = Held(v, "OnP2PBwdStep", hr, "OnP2PBwdComplete")
  OBVIOUS
<1> HIDE DEF hr
<1>3. /\ x.h = hr /\ x.cc = v.cc /\ x.rq = v.rq /\ x.pq = v.pq /\ x.n \in [Fns -> Nat]
      /\ x.n["OnP2PBwdStep"] = v.n["OnP2PBwdStep"] - 1
      /\ x.n["OnP2PBwdComplete"] = v.n["OnP2PBwdComplete"] + 1
      /\ \A k \in Fns : k # "OnP2PBwdStep" /\ k # "OnP2PBwdComplete" => x.n[k] = v.n[k]
  <2>1. "OnP2PBwdStep" \in Fns /\ "OnP2PBwdComplete" \in Fns
    BY FnNames
  <2>2. "OnP2PBwdStep" # "OnP2PBwdComplete"
    OBVIOUS
  <2> QED BY SMTT(30), <1>2, <1>x, <2>1, <2>2, HeldTokens
<1>4. /\ y.h = w.h /\ y.cc = w.cc /\ y.rq = w.rq /\ y.pq = w.pq /\ y.n \in [Fns -> Nat]
      /\ y.n["OnP2PBwdComplete"] = w.n["OnP2PBwdComplete"] + 1
      /\ \A k \in Fns : k # "OnP2PBwdComplete" => y.n[k] = w.n[k]
  <2>1. "OnP2PBwdComplete" \in Fns
    BY FnNames
  <2> QED BY <1>2, <2>1, GotTokens DEF Got
<1>5. /\ x.n["OnP2PFwdRecv_EventDriven"] = v.n["OnP2PFwdRecv_EventDriven"]
      /\ x.n["OnP2PBwdRecv_EventDriven"] = v.n["OnP2PBwdRecv_EventDriven"]
      /\ x.n["OnP2PFwdRecv"] = v.n["OnP2PFwdRecv"] /\ x.n["OnP2PBwdRecv"] = v.n["OnP2PBwdRecv"]
      /\ x.n["StartApplication"] = v.n["StartApplication"]
      /\ x.n["OnP2PFwdComplete"] = v.n["OnP2PFwdComplete"]
      /\ x.n["OnP2PSendComplete"] = v.n["OnP2PSendComplete"]
      /\ x.n["OnP2PFwdStep"] = v.n["OnP2PFwdStep"] /\ x.n["RdmaStart"] = v.n["RdmaStart"]
      /\ \A k \in Paired : k # "OnP2PBwdComplete" => x.n[k] = v.n[k]
  BY <1>3, FnNames DEF Fns, Paired
<1>6. /\ y.n["OnP2PFwdRecv_EventDriven"] = w.n["OnP2PFwdRecv_EventDriven"]
      /\ y.n["OnP2PBwdRecv_EventDriven"] = w.n["OnP2PBwdRecv_EventDriven"]
      /\ y.n["OnP2PFwdRecv"] = w.n["OnP2PFwdRecv"] /\ y.n["OnP2PBwdRecv"] = w.n["OnP2PBwdRecv"]
      /\ y.n["StartApplication"] = w.n["StartApplication"]
      /\ y.n["OnP2PFwdComplete"] = w.n["OnP2PFwdComplete"]
      /\ y.n["OnP2PSendComplete"] = w.n["OnP2PSendComplete"]
      /\ \A k \in Paired : k # "OnP2PBwdComplete" => y.n[k] = w.n[k]
  BY <1>4, FnNames DEF Fns, Paired
<1>7. /\ x.h.phase = v.h.phase /\ x.h.busy = v.h.busy /\ x.h.fwdIdx = v.h.fwdIdx
      /\ x.h.fwdReady = v.h.fwdReady /\ x.h.bwdIdx = v.h.bwdIdx /\ x.h.bwdReady = v.h.bwdReady
      /\ Alike(x.h, v.h) /\ Act(x) = Act(v) /\ Act(y) = Act(w) /\ Act(w) = Act(v)
  BY <1>1, <1>3, <1>4, <1>h DEF Fields, Alike, Act, PairOK
<1> DEFINE rv == Reporting(v, w, "BWD_P2P")
<1>8. /\ Act(v) = "BWD_P2P" /\ v.n["OnP2PBwdComplete"] = 0 /\ v.h.bwdCount = 1
      /\ v.n["OnP2PBwdStep"] = 1 /\ rv = 0
  <2>1. v.h.bwdCount + v.n["OnP2PBwdStep"] + rv
          = IF Act(v) = "BWD_P2P" /\ v.n["OnP2PBwdComplete"] = 0 THEN 2 ELSE 0
    BY <1>1 DEF GroupOK
  <2>2. rv \in Nat
    BY <1>1, GroupNumbers DEF Reporting
  <2> HIDE DEF rv
  <2>3. v.h.bwdCount >= 1 /\ v.n["OnP2PBwdStep"] >= 1 /\ v.h.bwdCount \in Nat /\ v.n["OnP2PBwdStep"] \in Nat
    BY <1>1, GroupNumbers
  <2> QED BY <2>1, <2>2, <2>3
<1>9. /\ v.pq = 0 /\ w.pq = 0 /\ v.n["OnP2PSendComplete"] = 0 /\ w.n["OnP2PSendComplete"] = 0
      /\ w.n["OnP2PBwdComplete"] = 0 /\ v.n["OnP2PFwdComplete"] = 0 /\ w.n["OnP2PFwdComplete"] = 0
  <2>1. v.pq + v.n["OnP2PSendComplete"] + w.pq + w.n["OnP2PSendComplete"] = 0
    BY <1>8 DEF Reporting
  <2>2. w.n["OnP2PBwdComplete"] = v.n["OnP2PBwdComplete"]
    BY <1>1 DEF PairOK, Paired
  <2>3. v.n["OnP2PFwdComplete"] = 0 /\ w.n["OnP2PFwdComplete"] = 0
    BY <1>1, <1>7, <1>8 DEF RankOK, Tokens
  <2>4. /\ v.pq \in Nat /\ w.pq \in Nat
        /\ v.n["OnP2PSendComplete"] \in Nat /\ w.n["OnP2PSendComplete"] \in Nat
    BY <1>1, GroupNumbers
  <2>5. /\ v.pq = 0 /\ w.pq = 0 /\ v.n["OnP2PSendComplete"] = 0 /\ w.n["OnP2PSendComplete"] = 0
    BY <2>1, <2>4, NoneLeft
  <2> QED BY <1>8, <2>2, <2>3, <2>5
<1>10. RankOK(x, s, 0, c)
  <2>1. Counts(x, s, c)
    BY <1>1, <1>5, <1>7, CountsFrame DEF RankOK
  <2>2. \A k \in {"RdmaStart", "SendChunkFinish", "OnFwdComputeDone", "OnBwdCompute1Done",
                  "OnBwdCompute2Done"} : x.n[k] = v.n[k]
    BY <1>3, FnNames
  <2>3. x.pq + x.n["OnP2PSendComplete"] + x.n["OnP2PFwdComplete"] + x.n["OnP2PBwdComplete"]
          <= One(Act(v) \in P2PPhases)
    BY <1>3, <1>5, <1>8, <1>9 DEF One, P2PPhases
  <2>4. /\ x.n["OnP2PFwdComplete"] # 0 => Act(v) = "FWD_P2P"
        /\ x.n["OnP2PBwdComplete"] # 0 => Act(v) = "BWD_P2P"
    BY <1>5, <1>8, <1>9
  <2>5. /\ x.h.fwdCount \in Nat /\ x.h.bwdCount \in Nat /\ IsHybridCC(x.h)
        /\ \A k \in Fields : k \notin {"fwdCount", "bwdCount"} => x.h[k] = v.h[k]
    BY <1>2, <1>3, <1>h
  <2> QED BY <1>1, <1>3, <2>1, <2>2, <2>3, <2>4, <2>5, SameRank
<1>11. RankOK(y, s, 1, c)
  <2>1. Counts(y, s, c)
    BY <1>1, <1>4, <1>6, <1>7, CountsFrame DEF RankOK
  <2>2. \A k \in {"RdmaStart", "SendChunkFinish", "OnFwdComputeDone", "OnBwdCompute1Done",
                  "OnBwdCompute2Done"} : y.n[k] = w.n[k]
    BY <1>4, FnNames
  <2>3. y.pq + y.n["OnP2PSendComplete"] + y.n["OnP2PFwdComplete"] + y.n["OnP2PBwdComplete"]
          <= One(Act(w) \in P2PPhases)
    BY <1>4, <1>6, <1>7, <1>8, <1>9 DEF One, P2PPhases
  <2>4. /\ y.n["OnP2PFwdComplete"] # 0 => Act(w) = "FWD_P2P"
        /\ y.n["OnP2PBwdComplete"] # 0 => Act(w) = "BWD_P2P"
    BY <1>6, <1>7, <1>8, <1>9
  <2> QED BY <1>1, <1>2, <1>4, <2>1, <2>2, <2>3, <2>4, SameRank
<1>12. PairOK(x, y)
  <2>1. \A k \in Paired : x.n[k] = y.n[k]
    BY <1>1, <1>3, <1>4, <1>5, <1>6, <1>8, <1>9 DEF PairOK
  <2> QED BY <1>1, <1>3, <1>4, <1>5, <1>7, <2>1 DEF PairOK, Alike
<1>13. GroupOK(x, y)
  <2>1. Reporting(x, y, "FWD_P2P") = 0 /\ Reporting(x, y, "BWD_P2P") = 0
    BY <1>3, <1>4, <1>5, <1>6, <1>9 DEF Reporting
  <2>2. v.h.fwdCount = 0 /\ v.n["OnP2PFwdStep"] = 0
    BY <1>1, <1>8, NoReports
  <2>3. w.h.fwdCount = 0 /\ w.h.bwdCount = 0
    BY <1>1 DEF GroupOK
  <2> QED BY <1>3, <1>4, <1>5, <1>7, <1>8, <1>h, <2>1, <2>2, <2>3 DEF GroupOK
<1>14. s # 0
  BY <1>1, <1>8 DEF RankOK, Notes
<1>15. /\ FwdIn(x) = FwdIn(v) /\ BwdIn(x) = BwdIn(v)
       /\ FwdOut(x) = FwdOut(v) /\ BwdOut(x) = BwdOut(v) + 1
  <2>1. /\ v.h.fwdIdx \in Nat /\ v.h.bwdIdx \in Nat
        /\ One(Act(v) \in FwdPhases) \in Nat /\ One(Act(v) \in BwdPhases) \in Nat
    BY <1>1 DEF RankOK, Types, One
  <2> QED BY <1>3, <1>5, <1>7, <1>8, <2>1 DEF FwdIn, FwdOut, BwdIn, BwdOut
<1> QED BY <1>10, <1>11, <1>12, <1>13, <1>14, <1>15 DEF StageOK

\* The leading rank of the neighbour is told.
LEMMA BwdTold ==
  ASSUME NEW c \in EventConf, NEW s \in Stages, NEW v, NEW w, StageOK(v, w, s, c),
         s # PP - 1, NEW x, x = Got(v, "OnP2PBwdRecv")
  PROVE  /\ StageOK(x, w, s, c)
         /\ FwdOut(x) = FwdOut(v) /\ BwdOut(x) = BwdOut(v)
         /\ FwdIn(x) = FwdIn(v) /\ BwdIn(x) = BwdIn(v) + 1
<1>1. RankOK(v, s, 0, c) /\ RankOK(w, s, 1, c) /\ PairOK(v, w) /\ GroupOK(v, w)
  BY DEF StageOK
<1>2. /\ v.n \in [Fns -> Nat] /\ IsHybridCC(v.h) /\ v.h.fwdCount \in Nat /\ v.h.bwdCount \in Nat
  BY <1>1 DEF RankOK, Types
<1>3. /\ x.h = v.h /\ x.cc = v.cc /\ x.rq = v.rq /\ x.pq = v.pq /\ x.n \in [Fns -> Nat]
      /\ x.n["OnP2PBwdRecv"] = v.n["OnP2PBwdRecv"] + 1
      /\ \A k \in Fns : k # "OnP2PBwdRecv" => x.n[k] = v.n[k]
  <2>1. "OnP2PBwdRecv" \in Fns
    BY FnNames
  <2> QED BY <1>2, <2>1, GotTokens DEF Got
<1>4. /\ x.n["OnP2PFwdRecv_EventDriven"] = v.n["OnP2PFwdRecv_EventDriven"]
      /\ x.n["OnP2PBwdRecv_EventDriven"] = v.n["OnP2PBwdRecv_EventDriven"]
      /\ x.n["OnP2PFwdRecv"] = v.n["OnP2PFwdRecv"]
      /\ x.n["StartApplication"] = v.n["StartApplication"]
      /\ x.n["OnP2PFwdComplete"] = v.n["OnP2PFwdComplete"]
      /\ x.n["OnP2PBwdComplete"] = v.n["OnP2PBwdComplete"]
      /\ x.n["OnP2PSendComplete"] = v.n["OnP2PSendComplete"]
      /\ x.n["OnP2PFwdStep"] = v.n["OnP2PFwdStep"] /\ x.n["OnP2PBwdStep"] = v.n["OnP2PBwdStep"]
      /\ x.n["RdmaStart"] = v.n["RdmaStart"]
      /\ \A k \in Paired : x.n[k] = v.n[k]
  BY <1>3, FnNames DEF Fns, Paired
<1>5. Act(x) = Act(v)
  BY <1>3 DEF Act
<1>6. RankOK(x, s, 0, c)
  <2>1. Counts(x, s, c)
    BY <1>1, <1>3, <1>4, <1>5 DEF RankOK, Counts
  <2>2. \A k \in {"RdmaStart", "SendChunkFinish", "OnFwdComputeDone", "OnBwdCompute1Done",
                  "OnBwdCompute2Done"} : x.n[k] = v.n[k]
    BY <1>3, FnNames
  <2>3. x.pq + x.n["OnP2PSendComplete"] + x.n["OnP2PFwdComplete"] + x.n["OnP2PBwdComplete"]
          <= One(Act(v) \in P2PPhases)
    BY <1>1, <1>3, <1>4 DEF RankOK, Tokens
  <2>4. /\ x.n["OnP2PFwdComplete"] # 0 => Act(v) = "FWD_P2P"
        /\ x.n["OnP2PBwdComplete"] # 0 => Act(v) = "BWD_P2P"
    BY <1>1, <1>4 DEF RankOK, Tokens
  <2> QED BY <1>1, <1>2, <1>3, <2>1, <2>2, <2>3, <2>4, SameRank
<1>7. PairOK(x, w)
  BY <1>1, <1>3, <1>4, <1>5 DEF PairOK
<1>8. GroupOK(x, w)
  BY <1>1, <1>3, <1>4, <1>5 DEF GroupOK, Reporting
<1>9. /\ FwdOut(x) = FwdOut(v) /\ BwdOut(x) = BwdOut(v)
      /\ FwdIn(x) = FwdIn(v) /\ BwdIn(x) = BwdIn(v) + 1
  <2>1. /\ v.h.bwdIdx \in Nat /\ v.h.bwdReady \in Nat
        /\ v.n["OnP2PBwdRecv_EventDriven"] \in Nat /\ v.n["OnP2PBwdRecv"] \in Nat
    BY <1>1, FnNames DEF RankOK, Types
  <2> QED BY <1>3, <1>4, <1>5, <2>1 DEF FwdIn, FwdOut, BwdIn, BwdOut
<1> QED BY <1>1, <1>6, <1>7, <1>8, <1>9 DEF StageOK

\* OnP2PBwdRecv: the leading rank tells its group.
LEMMA BwdSpreads ==
  ASSUME NEW c \in EventConf, NEW s \in Stages, NEW v, NEW w, StageOK(v, w, s, c),
         v.n["OnP2PBwdRecv"] # 0, BwdIn(v) <= c.chunks, c.train,
         NEW x, x = Held(v, "OnP2PBwdRecv", v.h, "OnP2PBwdRecv_EventDriven"),
         NEW y, y = Got(w, "OnP2PBwdRecv_EventDriven")
  PROVE  StageOK(x, y, s, c) /\ SameStep(v, x, s)
<1>1. RankOK(v, s, 0, c) /\ RankOK(w, s, 1, c) /\ PairOK(v, w) /\ GroupOK(v, w)
  BY DEF StageOK
<1>2. /\ v.n \in [Fns -> Nat] /\ IsHybridCC(v.h) /\ v.h.fwdCount \in Nat /\ v.h.bwdCount \in Nat
      /\ w.n \in [Fns -> Nat] /\ IsHybridCC(w.h) /\ w.h.fwdCount \in Nat /\ w.h.bwdCount \in Nat
  BY <1>1 DEF RankOK, Types
<1>3. /\ x.h = v.h /\ x.cc = v.cc /\ x.rq = v.rq /\ x.pq = v.pq /\ x.n \in [Fns -> Nat]
      /\ x.n["OnP2PBwdRecv"] = v.n["OnP2PBwdRecv"] - 1
      /\ x.n["OnP2PBwdRecv_EventDriven"] = v.n["OnP2PBwdRecv_EventDriven"] + 1
      /\ \A k \in Fns : k # "OnP2PBwdRecv" /\ k # "OnP2PBwdRecv_EventDriven" => x.n[k] = v.n[k]
  <2>1. "OnP2PBwdRecv" \in Fns /\ "OnP2PBwdRecv_EventDriven" \in Fns
    BY FnNames
  <2>2. "OnP2PBwdRecv" # "OnP2PBwdRecv_EventDriven"
    OBVIOUS
  <2> QED BY <1>2, <2>1, <2>2, HeldTokens
<1>4. /\ y.h = w.h /\ y.cc = w.cc /\ y.rq = w.rq /\ y.pq = w.pq /\ y.n \in [Fns -> Nat]
      /\ y.n["OnP2PBwdRecv_EventDriven"] = w.n["OnP2PBwdRecv_EventDriven"] + 1
      /\ \A k \in Fns : k # "OnP2PBwdRecv_EventDriven" => y.n[k] = w.n[k]
  <2>1. "OnP2PBwdRecv_EventDriven" \in Fns
    BY FnNames
  <2> QED BY <1>2, <2>1, GotTokens DEF Got
<1>5. /\ x.n["OnP2PFwdRecv_EventDriven"] = v.n["OnP2PFwdRecv_EventDriven"]
      /\ x.n["OnP2PFwdRecv"] = v.n["OnP2PFwdRecv"]
      /\ x.n["StartApplication"] = v.n["StartApplication"]
      /\ x.n["OnP2PFwdComplete"] = v.n["OnP2PFwdComplete"]
      /\ x.n["OnP2PBwdComplete"] = v.n["OnP2PBwdComplete"]
      /\ x.n["OnP2PSendComplete"] = v.n["OnP2PSendComplete"]
      /\ x.n["OnP2PFwdStep"] = v.n["OnP2PFwdStep"] /\ x.n["OnP2PBwdStep"] = v.n["OnP2PBwdStep"]
      /\ x.n["RdmaStart"] = v.n["RdmaStart"]
      /\ \A k \in Paired : k # "OnP2PBwdRecv_EventDriven" => x.n[k] = v.n[k]
  BY <1>3, FnNames DEF Fns, Paired
<1>6. /\ y.n["OnP2PFwdRecv_EventDriven"] = w.n["OnP2PFwdRecv_EventDriven"]
      /\ y.n["OnP2PFwdRecv"] = w.n["OnP2PFwdRecv"] /\ y.n["OnP2PBwdRecv"] = w.n["OnP2PBwdRecv"]
      /\ y.n["StartApplication"] = w.n["StartApplication"]
      /\ y.n["OnP2PFwdComplete"] = w.n["OnP2PFwdComplete"]
      /\ y.n["OnP2PBwdComplete"] = w.n["OnP2PBwdComplete"]
      /\ y.n["OnP2PSendComplete"] = w.n["OnP2PSendComplete"]
      /\ \A k \in Paired : k # "OnP2PBwdRecv_EventDriven" => y.n[k] = w.n[k]
  BY <1>4, FnNames DEF Fns, Paired
<1>7. /\ Act(x) = Act(v) /\ Act(y) = Act(w) /\ Act(w) = Act(v)
  BY <1>1, <1>3, <1>4 DEF Alike, Act, PairOK
<1>8. /\ v.h.bwdIdx \in Nat /\ v.h.bwdReady \in Nat
      /\ v.n["OnP2PBwdRecv_EventDriven"] \in Nat /\ v.n["OnP2PBwdRecv"] \in Nat
      /\ w.h.bwdIdx = v.h.bwdIdx /\ w.h.bwdReady = v.h.bwdReady
      /\ w.n["OnP2PBwdRecv_EventDriven"] = v.n["OnP2PBwdRecv_EventDriven"]
  BY <1>1, FnNames DEF RankOK, Types, PairOK, Alike, Paired
<1>9. s # PP - 1
  BY <1>1 DEF RankOK, Counts
<1>10. v.h.bwdIdx + v.h.bwdReady + (v.n["OnP2PBwdRecv_EventDriven"] + 1) <= c.chunks
  <2>1. v.h.bwdIdx + v.h.bwdReady + v.n["OnP2PBwdRecv_EventDriven"] + v.n["OnP2PBwdRecv"] <= c.chunks
    BY DEF BwdIn
  <2>2. v.n["OnP2PBwdRecv"] >= 1 /\ c.chunks \in Nat
    BY <1>8 DEF EventConf
  <2> QED BY <1>8, <2>1, <2>2
<1>11. RankOK(x, s, 0, c)
  <2>1. Counts(x, s, c)
    BY <1>1, <1>3, <1>5, <1>7, <1>8, <1>9, <1>10 DEF RankOK, Counts, EventConf
  <2>2. \A k \in {"RdmaStart", "SendChunkFinish", "OnFwdComputeDone", "OnBwdCompute1Done",
                  "OnBwdCompute2Done"} : x.n[k] = v.n[k]
    BY <1>3, FnNames
  <2>3. x.pq + x.n["OnP2PSendComplete"] + x.n["OnP2PFwdComplete"] + x.n["OnP2PBwdComplete"]
          <= One(Act(v) \in P2PPhases)
    BY <1>1, <1>3, <1>5 DEF RankOK, Tokens
  <2>4. /\ x.n["OnP2PFwdComplete"] # 0 => Act(v) = "FWD_P2P"
        /\ x.n["OnP2PBwdComplete"] # 0 => Act(v) = "BWD_P2P"
    BY <1>1, <1>5 DEF RankOK, Tokens
  <2> QED BY <1>1, <1>2, <1>3, <2>1, <2>2, <2>3, <2>4, SameRank
<1>12. RankOK(y, s, 1, c)
  <2>1. Counts(y, s, c)
    BY <1>1, <1>4, <1>6, <1>7, <1>8, <1>9, <1>10 DEF RankOK, Counts, EventConf
  <2>2. \A k \in {"RdmaStart", "SendChunkFinish", "OnFwdComputeDone", "OnBwdCompute1Done",
                  "OnBwdCompute2Done"} : y.n[k] = w.n[k]
    BY <1>4, FnNames
  <2>3. y.pq + y.n["OnP2PSendComplete"] + y.n["OnP2PFwdComplete"] + y.n["OnP2PBwdComplete"]
          <= One(Act(w) \in P2PPhases)
    BY <1>1, <1>4, <1>6 DEF RankOK, Tokens
  <2>4. /\ y.n["OnP2PFwdComplete"] # 0 => Act(w) = "FWD_P2P"
        /\ y.n["OnP2PBwdComplete"] # 0 => Act(w) = "BWD_P2P"
    BY <1>1, <1>6 DEF RankOK, Tokens
  <2> QED BY <1>1, <1>2, <1>4, <2>1, <2>2, <2>3, <2>4, SameRank
<1>13. PairOK(x, y)
  <2>1. \A k \in Paired : x.n[k] = y.n[k]
    BY <1>1, <1>3, <1>4, <1>5, <1>6, <1>8 DEF PairOK
  <2> QED BY <1>1, <1>3, <1>4, <1>5, <1>7, <2>1 DEF PairOK
<1>14. GroupOK(x, y)
  BY <1>1, <1>3, <1>4, <1>5, <1>6, <1>7 DEF GroupOK, Reporting
<1>15. SameStep(v, x, s)
  <2>1. BwdIn(x) = BwdIn(v)
    BY <1>3, <1>8 DEF BwdIn
  <2> QED BY <1>3, <1>5, <1>7, <2>1 DEF SameStep, FwdIn, FwdOut, BwdIn, BwdOut
<1> QED BY <1>11, <1>12, <1>13, <1>14, <1>15 DEF StageOK

\* The endpoint of rank i of a group of two: one step, with the other rank.
LEMMA RingTwo ==
  ASSUME NEW i \in 0..1
  PROVE  /\ Len(Ring(i, 2, 1).prevRank) = 1 /\ Len(Ring(i, 2, 1).nextRank) = 1
         /\ Ring(i, 2, 1).prevRank[1] = 1 - i /\ Ring(i, 2, 1).nextRank[1] = 1 - i
         /\ Ring(i, 2, 1).recvStep = 0 /\ Ring(i, 2, 1).sendStep = 0
         /\ Ring(i, 2, 1).stepStu = 1
BY DEF Ring, RingPrev, RingNext

LEMMA StepPastOne ==
  ASSUME NEW list, NEW to \in {1, 2}, list[1] # None
  PROVE  /\ StepPast(list, 1, 2) = 1 /\ StepPast(list, 2, 2) = 2 /\ StepPast(list, 3, 2) = 3
<1>1. StepPast(list, 1, 2) = 1
  <2> DEFINE real == {i \in 1..(2 - 1) : list[i] # None}
  <2>1. real = {1}
    OBVIOUS
  <2>2. StepPast(list, 1, 2) = CHOOSE i \in real : \A j \in real : i <= j
    BY <2>1 DEF StepPast
  <2> QED BY <2>1, <2>2
<1>2. {i \in 2..(2 - 1) : list[i] # None} = {} /\ {i \in 3..(2 - 1) : list[i] # None} = {}
  OBVIOUS
<1> QED BY <1>1, <1>2 DEF StepPast

LEMMA SkipOne ==
  ASSUME NEW i \in 0..1, NEW e, e = Ring(i, 2, 1), NEW recv \in 1..2, NEW send \in 0..1,
         NEW stu
  PROVE  SkipIdleSteps(At(e, recv, send, stu)) = At(e, recv, send, stu)
<1> DEFINE c == At(e, recv, send, stu)
<1>1. /\ c.prevRank = e.prevRank /\ c.nextRank = e.nextRank
      /\ c.recvStep = recv /\ c.sendStep = send /\ c.stepStu = stu
  BY DEF At
<1>2. e.prevRank[1] # None /\ e.nextRank[1] # None /\ Len(e.nextRank) = 1
  BY RingTwo DEF None
<1>l. Len(c.nextRank) = 1
  BY <1>1, <1>2, Zenon
<1> DEFINE len == Len(c.nextRank)
<1>n. len = 1
  BY <1>l, Zenon
<1> HIDE DEF c, len
<1>m. len = 1 /\ len + 1 = 2
  BY <1>n
<1>3. StepPast(c.prevRank, c.recvStep, Len(c.nextRank) + 1) = recv
  <2>1. Len(c.nextRank) + 1 = 2
    BY <1>m DEF len
  <2>2. CASE recv = 1
    BY <1>1, <1>2, <2>1, <2>2, StepPastOne
  <2>3. CASE recv = 2
    BY <1>1, <1>2, <2>1, <2>3, StepPastOne
  <2> QED BY <2>2, <2>3
<1>4. (IF recv < Len(c.nextRank) THEN recv ELSE Len(c.nextRank)) = 1
  <2>1. (IF recv < len THEN recv ELSE len) = 1
    BY <1>m
  <2> QED BY <2>1 DEF len
<1>5. StepPast(c.nextRank, c.sendStep + 1, 1 + 1) - 1 = send
  <2>1. CASE send = 0
    <3>1. c.sendStep + 1 = 1 /\ 1 + 1 = 2
      BY <1>1, <2>1
    <3>2. StepPast(c.nextRank, 1, 2) = 1
      BY <1>1, <1>2, StepPastOne
    <3> QED BY <2>1, <3>1, <3>2
  <2>2. CASE send = 1
    <3>1. c.sendStep + 1 = 2 /\ 1 + 1 = 2
      BY <1>1, <2>2
    <3>2. StepPast(c.nextRank, 2, 2) = 2
      BY <1>1, <1>2, StepPastOne
    <3> QED BY <2>2, <3>1, <3>2
  <2> QED BY <2>1, <2>2
<1>6. SkipIdleSteps(c) = At(c, recv, send, stu)
  BY <1>1, <1>3, <1>4, <1>5 DEF SkipIdleSteps
<1> QED BY <1>6 DEF c, At

LEMMA SendStepTwo ==
  ASSUME NEW i \in 0..1, NEW e, e = Ring(i, 2, 1), NEW recv \in 1..2, NEW send \in 0..1,
         NEW stu \in 0..1
  PROVE  SendStep(At(e, recv, send, stu)) =
           IF stu = 1 /\ recv > send
           THEN Outcome(At(e, recv, send + 1, 0), 1 - send, send)
           ELSE Outcome(At(e, recv, send, stu), 0, 0)
<1> DEFINE c == At(e, recv, send, stu)
<1>1. /\ c.recvStep = recv /\ c.sendStep = send /\ c.stepStu = stu
      /\ c.nextRank = e.nextRank
      /\ \A a, b, d : At(c, a, b, d) = At(e, a, b, d)
  BY DEF At
<1>2. Len(c.nextRank) = 1
  BY <1>1, RingTwo
<1>3. SkipIdleSteps(c) = c
  BY SkipOne
<1> HIDE DEF c
<1>4. SendStep(c) = IF stu = 1 /\ recv > send
                    THEN IF send + 1 <= 1 THEN Outcome(At(c, recv, send + 1, 0), 1, 0)
                         ELSE Outcome(At(c, recv, send + 1, 0), 0, 1)
                    ELSE Outcome(c, 0, 0)
  <2>1. SendStep(c) = LET len == Len(c.nextRank) IN
                      IF send > len THEN Outcome(c, 0, 1)
                      ELSE IF stu = 1 /\ recv > send
                      THEN IF send + 1 <= len THEN Outcome(At(c, recv, send + 1, 0), 1, 0)
                           ELSE Outcome(At(c, recv, send + 1, 0), 0, 1)
                      ELSE Outcome(c, 0, 0)
    BY <1>1, <1>3, Zenon DEF SendStep
  <2> DEFINE len == Len(c.nextRank)
  <2>2. len = 1
    BY <1>2
  <2>3. ~(send > 1)
    OBVIOUS
  <2> QED BY <2>1, <2>2, <2>3, Zenon
<1>5. CASE send = 0
  BY <1>1, <1>4, <1>5 DEF c
<1>6. CASE send = 1
  BY <1>1, <1>4, <1>6 DEF c
<1> QED BY <1>5, <1>6

\* The steps of an endpoint of a group of two.
LEMMA EndpointTwo ==
  ASSUME NEW i \in 0..1, NEW e, e = Ring(i, 2, 1)
  PROVE  /\ StartApplication(e) = Outcome(At(e, 1, 1, 0), 1, 0)
         /\ FinishRecvStep(At(e, 1, 1, 0)) = Outcome(At(e, 2, 1, 0), 0, 0)
         /\ FinishRecvStep(At(e, 1, 1, 1)) = Outcome(At(e, 2, 2, 0), 0, 1)
         /\ FinishSend(At(e, 1, 1, 0)) = Outcome(At(e, 1, 1, 1), 0, 0)
         /\ FinishSend(At(e, 2, 1, 0)) = Outcome(At(e, 2, 2, 0), 0, 1)
         /\ \A recv, stu : SendTarget(At(e, recv, 1, stu)) = 1 - i
<1>1. /\ \A a, b, d, k, m, n : At(At(e, a, b, d), k, m, n) = At(e, k, m, n)
      /\ \A a, b, d : /\ At(e, a, b, d).nextRank = e.nextRank
                      /\ At(e, a, b, d).recvStep = a /\ At(e, a, b, d).sendStep = b
                      /\ At(e, a, b, d).stepStu = d
  BY DEF At
<1>2. Len(e.nextRank) = 1 /\ e.nextRank # << >> /\ e.nextRank[1] = 1 - i /\ e.stepStu = 1
  BY RingTwo
<1>3. StartApplication(e) = Outcome(At(e, 1, 1, 0), 1, 0)
  <2>1. SendStep(At(e, 1, 0, 1)) = Outcome(At(e, 1, 0 + 1, 0), 1 - 0, 0)
    BY SendStepTwo
  <2> QED BY <1>2, <2>1 DEF StartApplication
<1>4. SendStep(At(e, 2, 1, 0)) = Outcome(At(e, 2, 1, 0), 0, 0)
  BY SendStepTwo
<1>5. SendStep(At(e, 2, 1, 1)) = Outcome(At(e, 2, 2, 0), 0, 1)
  <2>1. SendStep(At(e, 2, 1, 1)) = Outcome(At(e, 2, 1 + 1, 0), 1 - 1, 1)
    BY SendStepTwo
  <2> QED BY <2>1
<1>6. SendStep(At(e, 1, 1, 1)) = Outcome(At(e, 1, 1, 1), 0, 0)
  BY SendStepTwo
<1>7. FinishRecvStep(At(e, 1, 1, 0)) = SendStep(At(e, 2, 1, 0))
  BY <1>1, <1>2 DEF FinishRecvStep
<1>8. FinishRecvStep(At(e, 1, 1, 1)) = SendStep(At(e, 2, 1, 1))
  BY <1>1, <1>2 DEF FinishRecvStep
<1>9. FinishSend(At(e, 1, 1, 0)) = SendStep(At(e, 1, 1, 1))
  BY <1>1 DEF FinishSend
<1>10. FinishSend(At(e, 2, 1, 0)) = SendStep(At(e, 2, 1, 1))
  BY <1>1 DEF FinishSend
<1>11. \A recv, stu : SendTarget(At(e, recv, 1, stu)) = 1 - i
  BY <1>1, <1>2 DEF SendTarget
<1> QED BY <1>3, <1>4, <1>5, <1>6, <1>7, <1>8, <1>9, <1>10, <1>11

\* The views of the two ends of a queue pair of the ring after SendChunkFinish:
\* the destination still waits for its own, or both have completed.
Sent(v) == Moved(v, "SendChunkFinish", v.h, At(v.cc, 1, 1, 1), v.rq, v.pq, "None")
Received(w) == Moved(w, "None", w.h, At(w.cc, 2, 1, 0), w.rq, w.pq, "None")
Completes(v, f) ==
  Moved(v, f, [v.h EXCEPT !.phase = CbPhase[v.h.cb]], At(v.cc, 2, 2, 0), v.rq, v.pq,
        CbEvent[v.h.cb])

\* Where the ends stand when a queue pair of the ring finishes.
LEMMA RingEnds ==
  ASSUME NEW c \in EventConf, NEW s \in Stages, NEW i \in 0..1, NEW j, j = 1 - i, NEW v, NEW w,
         RankOK(v, s, i, c), RankOK(w, s, j, c), PairOK(v, w), v.n["SendChunkFinish"] # 0
  PROVE  /\ Act(v) \in RingPhases /\ v.n["RdmaStart"] = 0 /\ w.n["RdmaStart"] = 0
         /\ v.rq = 0 /\ v.n["SendChunkFinish"] = 1
         /\ \/ /\ v.cc = At(Ring(i, 2, 1), 1, 1, 0) /\ w.cc = At(Ring(j, 2, 1), 1, 1, 0)
               /\ w.rq + w.n["SendChunkFinish"] = 1
            \/ /\ v.cc = At(Ring(i, 2, 1), 2, 1, 0) /\ w.cc = At(Ring(j, 2, 1), 1, 1, 1)
               /\ w.rq + w.n["SendChunkFinish"] = 0
<1>1. /\ v.rq \in Nat /\ v.n["SendChunkFinish"] \in Nat /\ v.n["RdmaStart"] \in Nat
      /\ w.rq \in Nat /\ w.n["SendChunkFinish"] \in Nat /\ w.n["RdmaStart"] \in Nat
      /\ RingOK(v, i) /\ RingOK(w, j)
  BY FnNames DEF RankOK, Types
<1>2. Act(v) = Act(w) /\ v.n["RdmaStart"] = w.n["RdmaStart"]
  BY DEF PairOK, Alike, Act, Paired
<1>3. Act(v) \in RingPhases /\ v.n["RdmaStart"] = 0
  BY <1>1 DEF RingOK
<1>4. PICK recv \in 1..2, stu \in 0..1 :
        v.cc = At(Ring(i, 2, 1), recv, 1, stu) /\ v.rq + v.n["SendChunkFinish"] = 1 - stu
  BY <1>1, <1>3 DEF RingOK
<1>5. PICK r2 \in 1..2, s2 \in 0..1 :
        w.cc = At(Ring(j, 2, 1), r2, 1, s2) /\ w.rq + w.n["SendChunkFinish"] = 1 - s2
  BY <1>1, <1>2, <1>3 DEF RingOK
<1>6. stu = 0 /\ v.rq = 0 /\ v.n["SendChunkFinish"] = 1
  BY <1>1, <1>4
<1>7. recv = 1 + s2 /\ r2 = 1 + stu
  <2>1. v.cc.recvStep = 1 + w.cc.stepStu /\ w.cc.recvStep = 1 + v.cc.stepStu
    BY <1>3 DEF PairOK
  <2>2. v.cc.recvStep = recv /\ v.cc.stepStu = stu /\ w.cc.recvStep = r2 /\ w.cc.stepStu = s2
    BY <1>4, <1>5 DEF At
  <2> QED BY <2>1, <2>2
<1>8. CASE s2 = 0
  BY <1>2, <1>3, <1>4, <1>5, <1>6, <1>7, <1>8
<1>9. CASE s2 = 1
  BY <1>2, <1>3, <1>4, <1>5, <1>6, <1>7, <1>9
<1> QED BY <1>8, <1>9

\* A rank that stays in its collective.
LEMMA RingFrame ==
  ASSUME NEW c \in EventConf, NEW s \in Stages, NEW i \in 0..1, NEW v, RankOK(v, s, i, c),
         Act(v) \in RingPhases, v.n["RdmaStart"] = 0,
         NEW x, x.h = v.h, x.pq = v.pq, x.rq \in Nat, x.n \in [Fns -> Nat],
         \A k \in Fns : k # "SendChunkFinish" => x.n[k] = v.n[k],
         NEW recv \in 1..2, NEW stu \in 0..1, recv = 1 \/ stu = 0,
         x.cc = At(Ring(i, 2, 1), recv, 1, stu), x.rq + x.n["SendChunkFinish"] = 1 - stu
  PROVE  RankStep(v, x, s, i, c)
<1>1. Act(x) = Act(v)
  BY DEF Act
<1>2. /\ x.n["OnP2PFwdRecv_EventDriven"] = v.n["OnP2PFwdRecv_EventDriven"]
      /\ x.n["OnP2PBwdRecv_EventDriven"] = v.n["OnP2PBwdRecv_EventDriven"]
      /\ x.n["OnP2PFwdRecv"] = v.n["OnP2PFwdRecv"] /\ x.n["OnP2PBwdRecv"] = v.n["OnP2PBwdRecv"]
      /\ x.n["StartApplication"] = v.n["StartApplication"]
      /\ x.n["OnP2PFwdComplete"] = v.n["OnP2PFwdComplete"]
      /\ x.n["OnP2PBwdComplete"] = v.n["OnP2PBwdComplete"]
      /\ x.n["OnP2PFwdStep"] = v.n["OnP2PFwdStep"] /\ x.n["OnP2PBwdStep"] = v.n["OnP2PBwdStep"]
      /\ x.n["OnP2PSendComplete"] = v.n["OnP2PSendComplete"]
      /\ x.n["OnFwdComputeDone"] = v.n["OnFwdComputeDone"]
      /\ x.n["OnBwdCompute1Done"] = v.n["OnBwdCompute1Done"]
      /\ x.n["OnBwdCompute2Done"] = v.n["OnBwdCompute2Done"]
      /\ x.n["RdmaStart"] = 0
  BY FnNames
<1>3. x.cc.recvStep = recv /\ x.cc.sendStep = 1 /\ x.cc.stepStu = stu
  BY DEF At
<1>4. Types(x, c)
  BY <1>3 DEF RankOK, Types
<1>5. Tokens(x)
  BY <1>1, <1>2 DEF RankOK, Tokens
<1>6. Notes(x, s, c)
  BY <1>1 DEF RankOK, Notes
<1>7. RingOK(x, i)
  BY <1>1, <1>2 DEF RingOK
<1>8. Counts(x, s, c)
  BY <1>1, <1>2, CountsFrame DEF RankOK
<1>9. GroupStep(v, x)
  BY <1>1, <1>2 DEF GroupStep
<1>10. SameLinks(v, x, s)
  BY <1>1, <1>2 DEF SameLinks, FwdIn, FwdOut, BwdIn, BwdOut
<1> QED BY <1>4, <1>5, <1>6, <1>7, <1>8, <1>9, <1>10 DEF RankStep, RankOK

\* A rank whose collective has completed.
LEMMA RingDone ==
  ASSUME NEW c \in EventConf, NEW s \in Stages, NEW i \in 0..1, NEW v, RankOK(v, s, i, c),
         Act(v) \in RingPhases, v.n["RdmaStart"] = 0,
         NEW g, g = CbEvent[v.h.cb],
         NEW x, x.h = [v.h EXCEPT !.phase = CbPhase[v.h.cb]], x.pq = v.pq, x.rq = 0,
         x.n \in [Fns -> Nat], x.n["SendChunkFinish"] = 0, x.n[g] = v.n[g] + 1,
         \A k \in Fns : k # "SendChunkFinish" /\ k # g => x.n[k] = v.n[k],
         x.cc = At(v.cc, 2, 2, 0)
  PROVE  /\ RankStep(v, x, s, i, c) /\ Act(x) = CbPhase[v.h.cb] /\ Act(x) \notin RingPhases
         /\ v.h.cb \in {"OnFwdAGComplete", "OnBwdAGComplete", "OnBwdRSComplete"}
<1>1. Types(v, c) /\ Tokens(v) /\ Notes(v, s, c) /\ RingOK(v, i) /\ Counts(v, s, c)
  BY DEF RankOK
<1>2. /\ \/ Act(v) = "FWD_AG" /\ v.h.cb = "OnFwdAGComplete" /\ g = "OnFwdComputeDone"
            /\ CbPhase[v.h.cb] = "FWD_COMPUTE"
         \/ Act(v) = "BWD_AG" /\ v.h.cb = "OnBwdAGComplete" /\ g = "OnBwdCompute1Done"
            /\ CbPhase[v.h.cb] = "BWD_COMPUTE_1"
         \/ Act(v) = "BWD_RS" /\ v.h.cb = "OnBwdRSComplete" /\ g = "OnBwdCompute2Done"
            /\ CbPhase[v.h.cb] = "BWD_COMPUTE_2"
      /\ v.h.busy = TRUE
  BY <1>1 DEF Notes, RingPhases, CbPhase, CbEvent, Act, Types
<1> DEFINE p == CbPhase[v.h.cb]
<1>3. /\ IsHybridCC(x.h) /\ x.h.phase = p
      /\ \A k \in Fields : k # "phase" => x.h[k] = v.h[k]
  BY <1>1 DEF Types, IsHybridCC, Fields
<1>4. Act(x) = p
  BY <1>2, <1>3 DEF Act, Fields
<1>5. /\ x.n["OnP2PFwdRecv_EventDriven"] = v.n["OnP2PFwdRecv_EventDriven"]
      /\ x.n["OnP2PBwdRecv_EventDriven"] = v.n["OnP2PBwdRecv_EventDriven"]
      /\ x.n["OnP2PFwdRecv"] = v.n["OnP2PFwdRecv"] /\ x.n["OnP2PBwdRecv"] = v.n["OnP2PBwdRecv"]
      /\ x.n["StartApplication"] = v.n["StartApplication"]
      /\ x.n["OnP2PFwdComplete"] = v.n["OnP2PFwdComplete"]
      /\ x.n["OnP2PBwdComplete"] = v.n["OnP2PBwdComplete"]
      /\ x.n["OnP2PFwdStep"] = v.n["OnP2PFwdStep"] /\ x.n["OnP2PBwdStep"] = v.n["OnP2PBwdStep"]
      /\ x.n["OnP2PSendComplete"] = v.n["OnP2PSendComplete"]
      /\ x.n["RdmaStart"] = 0
  BY <1>2, FnNames
<1>6. /\ x.n["OnFwdComputeDone"] = v.n["OnFwdComputeDone"] + One(g = "OnFwdComputeDone")
      /\ x.n["OnBwdCompute1Done"] = v.n["OnBwdCompute1Done"] + One(g = "OnBwdCompute1Done")
      /\ x.n["OnBwdCompute2Done"] = v.n["OnBwdCompute2Done"] + One(g = "OnBwdCompute2Done")
  <2>1. /\ v.n["OnFwdComputeDone"] \in Nat /\ v.n["OnBwdCompute1Done"] \in Nat
        /\ v.n["OnBwdCompute2Done"] \in Nat
    BY <1>1, FnNames DEF Types
  <2> QED BY <1>2, <2>1, FnNames DEF One
<1>7. Types(x, c)
  <2>1. x.cc.recvStep = 2 /\ x.cc.sendStep = 2 /\ x.cc.stepStu = 0
    BY DEF At
  <2>2. p \in Phases
    BY <1>2 DEF Phases, FwdPhases, BwdPhases
  <2> QED BY <1>1, <1>3, <2>1, <2>2 DEF Types, Fields
<1>8. /\ Act(v) \notin P2PPhases /\ Act(x) \notin P2PPhases /\ Act(x) \notin RingPhases
      /\ (Act(x) \in FwdPhases) = (Act(v) \in FwdPhases)
      /\ (Act(x) \in BwdPhases) = (Act(v) \in BwdPhases)
      /\ Act(x) \in FwdPhases \cup BwdPhases /\ x.h.busy = TRUE
      /\ Act(v) \notin {"FWD_COMPUTE", "BWD_COMPUTE_1", "BWD_COMPUTE_2"}
  BY <1>2, <1>3, <1>4 DEF P2PPhases, RingPhases, FwdPhases, BwdPhases, Fields
<1>9. Tokens(x)
  <2>1. /\ v.n["OnFwdComputeDone"] = 0 /\ v.n["OnBwdCompute1Done"] = 0
        /\ v.n["OnBwdCompute2Done"] = 0
    BY <1>1, <1>8 DEF Tokens, One
  <2>2. /\ x.n["OnFwdComputeDone"] = One(Act(x) = "FWD_COMPUTE")
        /\ x.n["OnBwdCompute1Done"] = One(Act(x) = "BWD_COMPUTE_1")
        /\ x.n["OnBwdCompute2Done"] = One(Act(x) = "BWD_COMPUTE_2")
    BY <1>2, <1>4, <1>6, <2>1 DEF One
  <2>3. v.pq + v.n["OnP2PSendComplete"] + v.n["OnP2PFwdComplete"] + v.n["OnP2PBwdComplete"]
          <= One(Act(x) \in P2PPhases)
    BY <1>1, <1>8 DEF Tokens, One
  <2>4. x.h.busy => x.h.phase \in FwdPhases \cup BwdPhases
    BY <1>3, <1>4, <1>8
  <2>5. x.n["OnP2PFwdComplete"] = 0 /\ x.n["OnP2PBwdComplete"] = 0
    BY <1>5, <1>8, NoPosts
  <2> QED BY <1>5, <2>2, <2>3, <2>4, <2>5 DEF Tokens
<1>10. Notes(x, s, c)
  <2>1. x.h.inflight = v.h.inflight /\ x.h.cb = v.h.cb
    BY <1>3 DEF Fields
  <2> QED BY <1>1, <1>8, <2>1 DEF Notes, RingPhases, P2PPhases, One
<1>11. RingOK(x, i)
  BY <1>5, <1>8 DEF RingOK
<1>a. /\ x.h.fwdIdx = v.h.fwdIdx /\ x.h.fwdReady = v.h.fwdReady
      /\ x.h.bwdIdx = v.h.bwdIdx /\ x.h.bwdReady = v.h.bwdReady
      /\ x.h.fwdCount = v.h.fwdCount /\ x.h.bwdCount = v.h.bwdCount
      /\ One(Act(x) \in FwdPhases) = One(Act(v) \in FwdPhases)
      /\ One(Act(x) \in BwdPhases) = One(Act(v) \in BwdPhases)
  BY <1>3, <1>8 DEF Fields
<1>12. Counts(x, s, c)
  BY <1>1, <1>5, <1>a, CountsFrame
<1>13. GroupStep(v, x)
  BY <1>5, <1>8, <1>a DEF GroupStep
<1>14. SameLinks(v, x, s)
  BY <1>5, <1>a DEF SameLinks, FwdIn, FwdOut, BwdIn, BwdOut
<1> QED BY <1>2, <1>4, <1>7, <1>8, <1>9, <1>10, <1>11, <1>12, <1>13, <1>14 DEF RankStep, RankOK

LEMMA PairSym ==
  ASSUME NEW v, NEW w, PairOK(v, w)
  PROVE  PairOK(w, v)
<1>1. Alike(w.h, v.h) /\ Act(w) = Act(v) /\ v.n["RdmaStart"] = w.n["RdmaStart"]
  BY DEF PairOK, Alike, Act, Paired
<1> QED BY <1>1 DEF PairOK

\* SendChunkFinish at rank i of a group, for the first of the two queue pairs.
LEMMA RingSent ==
  ASSUME NEW c \in EventConf, NEW s \in Stages, NEW i \in 0..1, NEW j, j = 1 - i, NEW v, NEW w,
         RankOK(v, s, i, c), RankOK(w, s, j, c), PairOK(v, w), v.n["SendChunkFinish"] # 0,
         w.cc = At(Ring(j, 2, 1), 1, 1, 0),
         NEW x, x = Sent(v), NEW y, y = Received(w)
  PROVE  RankStep(v, x, s, i, c) /\ RankStep(w, y, s, j, c) /\ PairOK(x, y)
<1>1. w.cc.stepStu = 0
  BY DEF At
<1>2. /\ Act(v) \in RingPhases /\ v.n["RdmaStart"] = 0 /\ w.n["RdmaStart"] = 0
      /\ v.rq = 0 /\ v.n["SendChunkFinish"] = 1 /\ v.cc = At(Ring(i, 2, 1), 1, 1, 0)
      /\ w.rq + w.n["SendChunkFinish"] = 1
  <2>1. At(Ring(j, 2, 1), 1, 1, 1).stepStu = 1
    BY DEF At
  <2> QED BY <1>1, <2>1, RingEnds
<1>3. /\ v.n \in [Fns -> Nat] /\ w.n \in [Fns -> Nat] /\ v.rq \in Nat /\ w.rq \in Nat
  BY DEF RankOK, Types
<1>4. Act(w) = Act(v) /\ Alike(v.h, w.h) /\ \A k \in Paired : v.n[k] = w.n[k]
  BY DEF PairOK, Alike, Act
<1> DEFINE e == At(v.cc, 1, 1, 1)
           d == At(w.cc, 2, 1, 0)
<1>5. e = At(Ring(i, 2, 1), 1, 1, 1) /\ d = At(Ring(j, 2, 1), 2, 1, 0)
  BY <1>2 DEF At
<1>6. /\ e.recvStep = 1 /\ e.sendStep = 1 /\ e.stepStu = 1
      /\ d.recvStep = 2 /\ d.sendStep = 1 /\ d.stepStu = 0
  BY DEF At
<1> HIDE DEF e, d
<1>7. /\ x.h = v.h /\ x.cc = e /\ x.rq = v.rq /\ x.pq = v.pq
      /\ x.n = [g \in Fns |-> v.n[g] - One(g = "SendChunkFinish") + One(g = "None")]
  BY DEF Sent, Moved, e
<1>8. /\ y.h = w.h /\ y.cc = d /\ y.rq = w.rq /\ y.pq = w.pq
      /\ y.n = [g \in Fns |-> w.n[g] - One(g = "None") + One(g = "None")]
  BY DEF Received, Moved, d
<1>9. /\ x.n \in [Fns -> Nat] /\ x.n["SendChunkFinish"] = 0
      /\ \A k \in Fns : k # "SendChunkFinish" => x.n[k] = v.n[k]
  BY <1>2, <1>3, <1>7, FnNames DEF One
<1>10. y.n \in [Fns -> Nat] /\ \A k \in Fns : y.n[k] = w.n[k]
  BY <1>3, <1>8, FnNames DEF One
<1>11. RankStep(v, x, s, i, c)
  <2>1. x.rq + x.n["SendChunkFinish"] = 1 - 1
    BY <1>2, <1>7, <1>9
  <2> QED BY <1>2, <1>3, <1>5, <1>7, <1>9, <2>1, RingFrame
<1>12. RankStep(w, y, s, j, c)
  <2>1. y.rq + y.n["SendChunkFinish"] = 1 - 0
    BY <1>2, <1>8, <1>10, FnNames
  <2>2. j \in 0..1
    OBVIOUS
  <2> QED BY <1>2, <1>3, <1>4, <1>5, <1>8, <1>10, <2>1, <2>2, RingFrame
<1>13. PairOK(x, y)
  <2>1. \A k \in Paired : x.n[k] = y.n[k]
    BY <1>4, <1>9, <1>10 DEF Fns, Paired
  <2> QED BY <1>4, <1>6, <1>7, <1>8, <2>1 DEF PairOK
<1> QED BY <1>11, <1>12, <1>13

\* SendChunkFinish for the second: both ends complete.
LEMMA RingCompleted ==
  ASSUME NEW c \in EventConf, NEW s \in Stages, NEW i \in 0..1, NEW j, j = 1 - i, NEW v, NEW w,
         RankOK(v, s, i, c), RankOK(w, s, j, c), PairOK(v, w), v.n["SendChunkFinish"] # 0,
         w.cc = At(Ring(j, 2, 1), 1, 1, 1),
         NEW x, x = Completes(v, "SendChunkFinish"), NEW y, y = Completes(w, "None")
  PROVE  RankStep(v, x, s, i, c) /\ RankStep(w, y, s, j, c) /\ PairOK(x, y)
<1>1. w.cc.stepStu = 1
  BY DEF At
<1>2. /\ Act(v) \in RingPhases /\ v.n["RdmaStart"] = 0 /\ w.n["RdmaStart"] = 0
      /\ v.rq = 0 /\ v.n["SendChunkFinish"] = 1
      /\ w.rq + w.n["SendChunkFinish"] = 0
  <2>1. At(Ring(j, 2, 1), 1, 1, 0).stepStu = 0
    BY DEF At
  <2> QED BY <1>1, <2>1, RingEnds
<1>3. /\ v.n \in [Fns -> Nat] /\ w.n \in [Fns -> Nat] /\ v.rq \in Nat /\ w.rq \in Nat
      /\ IsHybridCC(v.h) /\ IsHybridCC(w.h) /\ j \in 0..1
  BY DEF RankOK, Types
<1>4. Act(w) = Act(v) /\ Alike(v.h, w.h) /\ \A k \in Paired : v.n[k] = w.n[k]
  BY DEF PairOK, Alike, Act
<1>z. w.rq = 0 /\ w.n["SendChunkFinish"] = 0
  <2>1. w.n["SendChunkFinish"] \in Nat
    BY <1>3, FnNames
  <2> QED BY <1>2, <1>3, <2>1
<1> DEFINE g == CbEvent[v.h.cb]
<1>5. g = CbEvent[w.h.cb] /\ CbPhase[w.h.cb] = CbPhase[v.h.cb]
  BY <1>4 DEF Alike
<1>6. g \in {"OnFwdComputeDone", "OnBwdCompute1Done", "OnBwdCompute2Done"}
  BY <1>2 DEF RankOK, Notes, RingPhases, CbEvent
<1>7. g \in Fns /\ g # "SendChunkFinish" /\ g # "RdmaStart" /\ g # "None"
  BY <1>6, FnNames
<1> HIDE DEF g
<1>8. /\ x.h = [v.h EXCEPT !.phase = CbPhase[v.h.cb]] /\ x.cc = At(v.cc, 2, 2, 0)
      /\ x.rq = v.rq /\ x.pq = v.pq
      /\ x.n = [k \in Fns |-> v.n[k] - One(k = "SendChunkFinish") + One(k = g)]
  BY DEF Completes, Moved, g
<1>9. /\ y.h = [w.h EXCEPT !.phase = CbPhase[w.h.cb]] /\ y.cc = At(w.cc, 2, 2, 0)
      /\ y.rq = w.rq /\ y.pq = w.pq
      /\ y.n = [k \in Fns |-> w.n[k] - One(k = "None") + One(k = g)]
  BY <1>5 DEF Completes, Moved
<1>10. /\ x.n \in [Fns -> Nat] /\ x.n["SendChunkFinish"] = 0 /\ x.n[g] = v.n[g] + 1
       /\ \A k \in Fns : k # "SendChunkFinish" /\ k # g => x.n[k] = v.n[k]
  <2> DEFINE f == "SendChunkFinish"
  <2>1. f \in Fns /\ f # g /\ v.n[f] = 1
    BY <1>2, <1>7, FnNames
  <2>2. x.n = [k \in Fns |-> v.n[k] - One(k = f) + One(k = g)]
    BY <1>8
  <2> HIDE DEF f
  <2>3. /\ x.n \in [Fns -> Nat] /\ x.n[f] = v.n[f] - 1 /\ x.n[g] = v.n[g] + 1
        /\ \A k \in Fns : k # f /\ k # g => x.n[k] = v.n[k]
    BY <1>3, <1>7, <2>1, <2>2, MovedTokens
  <2>4. x.n[f] = 0
    BY <2>1, <2>3
  <2> QED BY <2>3, <2>4 DEF f
<1>11. /\ y.n \in [Fns -> Nat] /\ y.n[g] = w.n[g] + 1
       /\ \A k \in Fns : k # g => y.n[k] = w.n[k]
  BY <1>3, <1>7, <1>9, FnNames DEF One
<1>12. RankStep(v, x, s, i, c) /\ Act(x) \notin RingPhases
  BY <1>2, <1>8, <1>10, RingDone DEF g
<1>13. RankStep(w, y, s, j, c)
  <2>1. y.n["SendChunkFinish"] = 0
    BY <1>7, <1>11, <1>z, FnNames
  <2> QED BY <1>2, <1>3, <1>4, <1>5, <1>9, <1>11, <1>z, <2>1, RingDone
<1>14. PairOK(x, y)
  <2>1. \A k \in Paired : x.n[k] = y.n[k]
    BY <1>4, <1>7, <1>10, <1>11 DEF Fns, Paired
  <2>2. Alike(x.h, y.h)
    BY <1>3, <1>4, <1>5, <1>8, <1>9 DEF Alike, IsHybridCC, Fields
  <2>3. /\ x.cc.recvStep = 2 /\ x.cc.sendStep = 2 /\ x.cc.stepStu = 0
        /\ y.cc.recvStep = 2 /\ y.cc.sendStep = 2 /\ y.cc.stepStu = 0
    BY <1>8, <1>9 DEF At
  <2> QED BY <1>12, <2>1, <2>2, <2>3 DEF PairOK
<1> QED BY <1>12, <1>13, <1>14

\* Two ranks of a group that go on alike.
LEMMA GroupGoesOn ==
  ASSUME NEW c, NEW s, NEW v, NEW w, StageOK(v, w, s, c), NEW x, NEW y,
         RankStep(v, x, s, 0, c), RankStep(w, y, s, 1, c), PairOK(x, y)
  PROVE  StageOK(x, y, s, c) /\ SameLinks(v, x, s)
<1>1. GroupOK(x, y)
  BY AfterGroup
<1> QED BY <1>1 DEF StageOK, RankStep

-----------------------------------------------------------------------------
(***************************************************************************)
(* A step of one stage, and of two neighbours, leaves every stage alright. *)
(***************************************************************************)
LEMMA StageMoves ==
  ASSUME DP = 2, NEW c, NEW V, AllOK(V, c), NEW s \in Stages, NEW W,
         \A q \in Rank : q # 2*s /\ q # 2*s + 1 => W[q] = V[q],
         StageOK(W[2*s], W[2*s + 1], s, c), SameLinks(V[2*s], W[2*s], s)
  PROVE  AllOK(W, c)
<1>0. PP \in Nat /\ PP >= 1 /\ s \in Nat /\ s <= PP - 1 /\ Rank = 0 .. 2*PP - 1
  BY Groups DEF Stages, Rank
<1> SUFFICES ASSUME NEW t \in Stages
             PROVE  /\ StageOK(W[2*t], W[2*t + 1], t, c)
                    /\ t + 1 \in Stages => LinkOK(W[2*t], W[2*t + 2])
  BY DEF AllOK
<1>1. t \in Nat /\ t <= PP - 1 /\ 2*t \in Rank /\ 2*t + 1 \in Rank
  BY <1>0 DEF Stages
<1>2. /\ StageOK(V[2*t], V[2*t + 1], t, c)
      /\ t + 1 \in Stages => LinkOK(V[2*t], V[2*t + 2])
  BY DEF AllOK
<1>3. t # s => W[2*t] = V[2*t] /\ W[2*t + 1] = V[2*t + 1]
  BY <1>0, <1>1
<1>4. StageOK(W[2*t], W[2*t + 1], t, c)
  BY <1>2, <1>3
<1>5. ASSUME t + 1 \in Stages
      PROVE  LinkOK(W[2*t], W[2*t + 2])
  <2>1. 2*t + 2 \in Rank /\ t + 1 <= PP - 1
    BY <1>0, <1>1, <1>5 DEF Stages
  <2>2. CASE t = s
    <3>1. W[2*t + 2] = V[2*t + 2]
      BY <1>0, <1>1, <2>1, <2>2
    <3>2. s # PP - 1
      BY <1>0, <2>1, <2>2
    <3> QED BY <1>2, <1>5, <2>2, <3>1, <3>2 DEF SameLinks, LinkOK
  <2>3. CASE t + 1 = s
    <3>1. W[2*t] = V[2*t] /\ 2*t + 2 = 2*s /\ s # 0
      BY <1>0, <1>1, <1>3, <2>3
    <3> QED BY <1>2, <1>5, <3>1 DEF SameLinks, LinkOK
  <2>4. CASE t # s /\ t + 1 # s
    <3>1. W[2*t] = V[2*t] /\ W[2*t + 2] = V[2*t + 2]
      BY <1>0, <1>1, <1>3, <2>1, <2>4
    <3> QED BY <1>2, <1>5, <3>1
  <2> QED BY <2>2, <2>3, <2>4
<1> QED BY <1>4, <1>5

LEMMA NeighboursMove ==
  ASSUME DP = 2, NEW c, NEW V, AllOK(V, c), NEW s \in Stages, s + 1 \in Stages, NEW W,
         \A q \in Rank : q \notin 2*s .. 2*s + 3 => W[q] = V[q],
         StageOK(W[2*s], W[2*s + 1], s, c), StageOK(W[2*s + 2], W[2*s + 3], s + 1, c),
         LinkOK(W[2*s], W[2*s + 2]),
         FwdIn(W[2*s]) = FwdIn(V[2*s]), BwdOut(W[2*s]) = BwdOut(V[2*s]),
         FwdOut(W[2*s + 2]) = FwdOut(V[2*s + 2]), BwdIn(W[2*s + 2]) = BwdIn(V[2*s + 2])
  PROVE  AllOK(W, c)
<1>0. PP \in Nat /\ PP >= 1 /\ s \in Nat /\ s + 1 <= PP - 1 /\ Rank = 0 .. 2*PP - 1
  BY Groups DEF Stages, Rank
<1> SUFFICES ASSUME NEW t \in Stages
             PROVE  /\ StageOK(W[2*t], W[2*t + 1], t, c)
                    /\ t + 1 \in Stages => LinkOK(W[2*t], W[2*t + 2])
  BY DEF AllOK
<1>1. t \in Nat /\ t <= PP - 1 /\ 2*t \in Rank /\ 2*t + 1 \in Rank
  BY <1>0 DEF Stages
<1>2. /\ StageOK(V[2*t], V[2*t + 1], t, c)
      /\ t + 1 \in Stages => LinkOK(V[2*t], V[2*t + 2])
  BY DEF AllOK
<1>3. t # s /\ t # s + 1 => W[2*t] = V[2*t] /\ W[2*t + 1] = V[2*t + 1]
  BY <1>0, <1>1
<1>4. StageOK(W[2*t], W[2*t + 1], t, c)
  <2>1. t = s + 1 => 2*t = 2*s + 2 /\ 2*t + 1 = 2*s + 3
    BY SMTT(30), <1>0
  <2> QED BY <1>2, <1>3, <2>1
<1>5. ASSUME t + 1 \in Stages
      PROVE  LinkOK(W[2*t], W[2*t + 2])
  <2>1. 2*t + 2 \in Rank /\ t + 1 <= PP - 1
    BY <1>0, <1>1, <1>5 DEF Stages
  <2>2. CASE t = s
    BY <2>2
  <2>3. CASE t = s + 1
    <3>0. 2*t + 2 \notin 2*s .. 2*s + 3 /\ 2*t = 2*s + 2
      BY <1>0, <1>1, <2>3
    <3>1. W[2*t + 2] = V[2*t + 2] /\ 2*t = 2*s + 2
      BY <2>1, <3>0
    <3> QED BY <1>2, <1>5, <3>1 DEF LinkOK
  <2>4. CASE t + 1 = s
    <3>1. W[2*t] = V[2*t] /\ 2*t + 2 = 2*s
      BY <1>0, <1>1, <1>3, <2>4
    <3> QED BY <1>2, <1>5, <3>1 DEF LinkOK
  <2>5. CASE t # s /\ t # s + 1 /\ t + 1 # s
    <3>1. W[2*t] = V[2*t] /\ W[2*t + 2] = V[2*t + 2]
      BY <1>0, <1>1, <1>3, <2>1, <2>5
    <3> QED BY <1>2, <1>5, <3>1
  <2> QED BY <2>2, <2>3, <2>4, <2>5
<1> QED BY <1>4, <1>5

\* What a stage has ready or is told of is no more than there is.
LEMMA InBounds ==
  ASSUME DP = 2, NEW c \in EventConf, NEW V, AllOK(V, c), NEW s \in Stages
  PROVE  /\ V[2*s].n["OnP2PFwdRecv"] # 0 => s # 0 /\ FwdIn(V[2*s]) <= c.chunks
         /\ V[2*s].n["OnP2PBwdRecv"] # 0 => s # PP - 1 /\ c.train /\ BwdIn(V[2*s]) <= c.chunks
<1>0. PP \in Nat /\ PP >= 1 /\ s \in Nat /\ s <= PP - 1
  BY Groups DEF Stages
<1>1. /\ StageOK(V[2*s], V[2*s + 1], s, c)
      /\ s + 1 \in Stages => LinkOK(V[2*s], V[2*s + 2])
  BY DEF AllOK
<1>2. ASSUME V[2*s].n["OnP2PFwdRecv"] # 0
      PROVE  s # 0 /\ FwdIn(V[2*s]) <= c.chunks
  <2>1. s # 0
    BY <1>1, <1>2 DEF StageOK, RankOK, Counts
  <2>2. s - 1 \in Stages /\ (s - 1) + 1 \in Stages /\ 2*(s - 1) + 2 = 2*s
    BY <1>0, <2>1 DEF Stages
  <2> DEFINE v == V[2*(s - 1)]
  <2>3. StageOK(v, V[2*(s - 1) + 1], s - 1, c) /\ LinkOK(v, V[2*s])
    BY <2>2 DEF AllOK
  <2> HIDE DEF v
  <2>4. RankOK(v, s - 1, 0, c)
    BY <2>3 DEF StageOK
  <2>5. FwdIn(V[2*s]) = v.h.fwdIdx - One(Act(v) \in FwdPhases) + v.n["OnP2PFwdComplete"]
    BY <2>3 DEF LinkOK, FwdOut
  <2>6. v.h.fwdIdx + v.h.fwdReady + v.n["OnP2PFwdRecv_EventDriven"] <= c.chunks
    BY <2>4 DEF RankOK, Counts
  <2>7. /\ v.h.fwdIdx \in Nat /\ v.h.fwdReady \in Nat /\ v.n["OnP2PFwdRecv_EventDriven"] \in Nat
        /\ v.n["OnP2PFwdComplete"] \in Nat /\ c.chunks \in Nat
        /\ v.pq \in Nat /\ v.n["OnP2PSendComplete"] \in Nat /\ v.n["OnP2PBwdComplete"] \in Nat
    BY <2>4, FnNames DEF RankOK, Types, EventConf
  <2>8. v.n["OnP2PFwdComplete"] <= One(Act(v) \in FwdPhases)
    <3>1. v.pq + v.n["OnP2PSendComplete"] + v.n["OnP2PFwdComplete"] + v.n["OnP2PBwdComplete"]
            <= One(Act(v) \in P2PPhases)
      BY <2>4 DEF RankOK, Tokens
    <3>2. v.n["OnP2PFwdComplete"] # 0 => Act(v) \in FwdPhases
      BY <2>4 DEF RankOK, Tokens, FwdPhases
    <3>3. One(Act(v) \in P2PPhases) \in 0..1 /\ One(Act(v) \in FwdPhases) \in 0..1
      BY DEF One
    <3>4. CASE v.n["OnP2PFwdComplete"] = 0
      BY <3>3, <3>4
    <3>5. CASE v.n["OnP2PFwdComplete"] # 0
      <4>1. One(Act(v) \in FwdPhases) = 1
        BY <3>2, <3>5 DEF One
      <4> QED BY <2>7, <3>1, <3>3, <4>1
    <3> QED BY <3>4, <3>5
  <2>9. One(Act(v) \in FwdPhases) \in 0..1
    BY DEF One
  <2> QED BY <2>1, <2>5, <2>6, <2>7, <2>8, <2>9
<1>3. ASSUME V[2*s].n["OnP2PBwdRecv"] # 0
      PROVE  s # PP - 1 /\ c.train /\ BwdIn(V[2*s]) <= c.chunks
  <2>1. s # PP - 1
    BY <1>1, <1>3 DEF StageOK, RankOK, Counts
  <2>2. s + 1 \in Stages /\ 2*(s + 1) = 2*s + 2
    BY <1>0, <2>1 DEF Stages
  <2> DEFINE v == V[2*s + 2]
             u == V[2*s]
  <2>3. StageOK(v, V[2*(s + 1) + 1], s + 1, c) /\ LinkOK(u, v) /\ RankOK(u, s, 0, c)
    BY <1>1, <2>2 DEF AllOK, StageOK
  <2>u. u = V[2*s]
    OBVIOUS
  <2> HIDE DEF v, u
  <2>4. RankOK(v, s + 1, 0, c)
    BY <2>3 DEF StageOK
  <2>5. BwdIn(u) = v.h.bwdIdx - One(Act(v) \in BwdPhases) + v.n["OnP2PBwdComplete"]
    BY <2>3 DEF LinkOK, BwdOut
  <2>6. v.h.bwdIdx + v.h.bwdReady + v.n["OnP2PBwdRecv_EventDriven"] <= c.chunks
    BY <2>4 DEF RankOK, Counts
  <2>7. /\ v.h.bwdIdx \in Nat /\ v.h.bwdReady \in Nat /\ v.n["OnP2PBwdRecv_EventDriven"] \in Nat
        /\ v.n["OnP2PBwdComplete"] \in Nat /\ c.chunks \in Nat
        /\ v.pq \in Nat /\ v.n["OnP2PSendComplete"] \in Nat /\ v.n["OnP2PFwdComplete"] \in Nat
        /\ u.h.bwdIdx \in Nat /\ u.h.bwdReady \in Nat /\ u.n["OnP2PBwdRecv_EventDriven"] \in Nat
        /\ u.n["OnP2PBwdRecv"] \in Nat
    BY <2>3, <2>4, FnNames DEF RankOK, Types, EventConf
  <2>9. One(Act(v) \in BwdPhases) \in 0..1
    BY DEF One
  <2>8. v.n["OnP2PBwdComplete"] <= One(Act(v) \in BwdPhases)
    <3>1. v.pq + v.n["OnP2PSendComplete"] + v.n["OnP2PFwdComplete"] + v.n["OnP2PBwdComplete"]
            <= One(Act(v) \in P2PPhases)
      BY <2>4 DEF RankOK, Tokens
    <3>2. v.n["OnP2PBwdComplete"] # 0 => Act(v) \in BwdPhases
      BY <2>4 DEF RankOK, Tokens, BwdPhases
    <3>3. One(Act(v) \in P2PPhases) \in 0..1
      BY DEF One
    <3>4. CASE v.n["OnP2PBwdComplete"] = 0
      BY <2>9, <3>4
    <3>5. CASE v.n["OnP2PBwdComplete"] # 0
      <4>1. One(Act(v) \in BwdPhases) = 1
        BY <3>2, <3>5 DEF One
      <4> QED BY <2>7, <3>1, <3>3, <4>1
    <3> QED BY <3>4, <3>5
  <2>10. BwdIn(u) <= c.chunks
    BY <2>5, <2>6, <2>7, <2>8, <2>9
  <2>11. c.train
    <3> SUFFICES ASSUME ~c.train PROVE FALSE
      OBVIOUS
    <3>1. v.h.bwdIdx + v.h.bwdReady + v.n["OnP2PBwdRecv_EventDriven"] = 0
      BY <2>4 DEF RankOK, Counts
    <3>2. v.h.bwdIdx = 0
      BY <2>7, <3>1
    <3>3. BwdIn(u) <= 0
      BY <2>5, <2>7, <2>8, <2>9, <3>2
    <3>4. BwdIn(u) = u.h.bwdIdx + u.h.bwdReady + u.n["OnP2PBwdRecv_EventDriven"]
                       + u.n["OnP2PBwdRecv"]
      BY DEF BwdIn
    <3>5. u.n["OnP2PBwdRecv"] # 0
      BY <1>3, <2>u
    <3> QED BY <2>7, <3>3, <3>4, <3>5
  <2> QED BY <2>1, <2>10, <2>11, <2>u
<1> QED BY <1>2, <1>3

-----------------------------------------------------------------------------
(***************************************************************************)
(* Counting the events of a rank in a queue, and in the batches of a kind  *)
(* of timer.                                                               *)
(***************************************************************************)
Events == [fn : Fns, rank : Rank, chunk : Int]

Places(q, r, F) == {i \in 1..Len(q) : q[i].rank = r /\ q[i].fn \in F}
Cnt(q, r, F) == Cardinality(Places(q, r, F))

LEMMA PlacesFinite ==
  ASSUME NEW q \in Seq(Events), NEW r, NEW F
  PROVE  IsFiniteSet(Places(q, r, F)) /\ Cnt(q, r, F) \in Nat
<1>1. Places(q, r, F) \in SUBSET (1..Len(q)) /\ Len(q) \in Int
  BY DEF Places
<1>2. IsFiniteSet(1..Len(q))
  BY <1>1, FS_Interval
<1> QED BY <1>1, <1>2, FS_Subset, FS_CardinalityType DEF Cnt

LEMMA CntEmpty ==
  ASSUME NEW r, NEW F
  PROVE  Cnt(<< >>, r, F) = 0
<1>1. Places(<< >>, r, F) = {}
  BY DEF Places
<1> QED BY <1>1, FS_EmptySet DEF Cnt

LEMMA CntOne ==
  ASSUME NEW e \in Events, NEW r, NEW F
  PROVE  Cnt(<<e>>, r, F) = One(e.rank = r /\ e.fn \in F)
<1>1. CASE e.rank = r /\ e.fn \in F
  <2>1. Places(<<e>>, r, F) = {1}
    BY <1>1 DEF Places
  <2> QED BY <1>1, <2>1, FS_Singleton DEF Cnt, One
<1>2. CASE ~(e.rank = r /\ e.fn \in F)
  <2>1. Places(<<e>>, r, F) = {}
    BY <1>2 DEF Places
  <2> QED BY <1>2, <2>1, FS_EmptySet DEF Cnt, One
<1> QED BY <1>1, <1>2

\* Two sets put side by side.
LEMMA SideBySide ==
  ASSUME NEW A, NEW B, NEW D, IsFiniteSet(A), IsFiniteSet(B),
         NEW f \in [B -> D], \A x, y \in B : f[x] = f[y] => x = y, \A z \in D : \E x \in B : f[x] = z,
         A \cap D = {}
  PROVE  IsFiniteSet(A \cup D) /\ Cardinality(A \cup D) = Cardinality(A) + Cardinality(B)
<1>1. f \in Bijection(B, D)
  <2>1. f \in Surjection(B, D)
    BY DEF Surjection
  <2>2. f \in Injection(B, D)
    BY DEF Injection, IsInjective
  <2> QED BY <2>1, <2>2 DEF Bijection
<1>2. IsFiniteSet(D) /\ Cardinality(D) = Cardinality(B)
  BY <1>1, FS_Bijection DEF ExistsBijection
<1>3. Cardinality(A \cap D) = 0
  BY FS_EmptySet
<1>4. /\ IsFiniteSet(A \cup D)
      /\ Cardinality(A \cup D) = Cardinality(A) + Cardinality(D) - Cardinality(A \cap D)
  BY <1>2, FS_Union
<1>5. Cardinality(A) \in Nat /\ Cardinality(D) \in Nat
  BY <1>2, FS_CardinalityType
<1> QED BY <1>2, <1>3, <1>4, <1>5

LEMMA CntConcat ==
  ASSUME NEW a \in Seq(Events), NEW b \in Seq(Events), NEW r, NEW F
  PROVE  Cnt(a \o b, r, F) = Cnt(a, r, F) + Cnt(b, r, F)
<1> DEFINE A == Places(a, r, F)
           B == Places(b, r, F)
           D == {i \in Len(a) + 1 .. Len(a) + Len(b) : i - Len(a) \in B}
           f == [i \in B |-> i + Len(a)]
<1>1. /\ Len(a) \in Nat /\ Len(b) \in Nat /\ Len(a \o b) = Len(a) + Len(b)
      /\ B \subseteq 1..Len(b) /\ A \subseteq 1..Len(a)
  BY DEF Places
<1>2. /\ \A i \in 1..Len(a) : (a \o b)[i] = a[i]
      /\ \A i \in Len(a) + 1 .. Len(a) + Len(b) : (a \o b)[i] = b[i - Len(a)]
  OBVIOUS
<1>3. Places(a \o b, r, F) = A \cup D
  <2>1. ASSUME NEW i PROVE i \in Places(a \o b, r, F) <=> i \in A \cup D
    <3>1. CASE i \in 1..Len(a)
      BY <1>1, <1>2, <3>1 DEF Places
    <3>2. CASE i \in Len(a) + 1 .. Len(a) + Len(b)
      <4>1. i - Len(a) \in 1..Len(b) /\ i \in 1..Len(a \o b) /\ i \notin 1..Len(a)
        BY <1>1, <3>2
      <4> QED BY <1>1, <1>2, <3>2, <4>1 DEF Places
    <3>3. CASE i \notin 1..Len(a) /\ i \notin Len(a) + 1 .. Len(a) + Len(b)
      <4>1. i \notin 1..Len(a \o b)
        BY <1>1, <3>3
      <4> QED BY <3>3, <4>1 DEF Places
    <3> QED BY <3>1, <3>2, <3>3
  <2> QED BY <2>1
<1>4. IsFiniteSet(A) /\ IsFiniteSet(B)
  BY PlacesFinite
<1> HIDE DEF A, B
<1>5. f \in [B -> D]
  BY <1>1
<1>6. \A x, y \in B : f[x] = f[y] => x = y
  BY <1>1
<1>7. \A z \in D : \E x \in B : f[x] = z
  BY <1>1
<1>8. A \cap D = {}
  BY <1>1
<1> HIDE DEF D, f
<1>9. Cardinality(A \cup D) = Cardinality(A) + Cardinality(B)
  BY <1>4, <1>5, <1>6, <1>7, <1>8, SideBySide
<1> QED BY <1>3, <1>9 DEF Cnt, A, B

LEMMA CntTail ==
  ASSUME NEW q \in Seq(Events), q # << >>, NEW r, NEW F
  PROVE  Cnt(q, r, F) = One(Head(q).rank = r /\ Head(q).fn \in F) + Cnt(Tail(q), r, F)
<1>1. Head(q) \in Events /\ Tail(q) \in Seq(Events) /\ <<Head(q)>> \in Seq(Events)
  OBVIOUS
<1>2. q = <<Head(q)>> \o Tail(q)
  OBVIOUS
<1> DEFINE a == <<Head(q)>>
           b == Tail(q)
<1>3. Cnt(<<Head(q)>> \o Tail(q), r, F) = Cnt(<<Head(q)>>, r, F) + Cnt(Tail(q), r, F)
  <2>1. a \in Seq(Events) /\ b \in Seq(Events)
    BY <1>1
  <2> HIDE DEF a, b
  <2>2. Cnt(a \o b, r, F) = Cnt(a, r, F) + Cnt(b, r, F)
    BY <2>1, CntConcat
  <2> QED BY <2>2 DEF a, b
<1> QED BY ZenonT(40), <1>1, <1>2, <1>3, CntOne

\* Counting several names at once.
LEMMA CntSplit ==
  ASSUME NEW q \in Seq(Events), NEW r, NEW F, NEW G, F \cap G = {}
  PROVE  Cnt(q, r, F \cup G) = Cnt(q, r, F) + Cnt(q, r, G)
<1>1. Places(q, r, F \cup G) = Places(q, r, F) \cup Places(q, r, G)
  BY DEF Places
<1>2. Places(q, r, F) \cap Places(q, r, G) = {}
  BY DEF Places
<1>3. IsFiniteSet(Places(q, r, F)) /\ IsFiniteSet(Places(q, r, G))
  BY PlacesFinite
<1>4. Cnt(q, r, F) \in Nat /\ Cnt(q, r, G) \in Nat
  BY PlacesFinite
<1> DEFINE A == Places(q, r, F)
           B == Places(q, r, G)
<1>5. A \cap B = {} /\ IsFiniteSet(A) /\ IsFiniteSet(B)
  BY <1>2, <1>3
<1>6. Cardinality(A) \in Nat /\ Cardinality(B) \in Nat
  BY <1>4 DEF Cnt
<1> HIDE DEF A, B
<1>7. Cardinality(A \cup B) = Cardinality(A) + Cardinality(B)
  <2>1. Cardinality(A \cap B) = 0
    BY <1>5, FS_EmptySet
  <2>2. Cardinality(A \cup B) = Cardinality(A) + Cardinality(B) - Cardinality(A \cap B)
    BY <1>5, FS_Union
  <2> QED BY <1>6, <2>1, <2>2
<1> QED BY <1>1, <1>7 DEF Cnt, A, B

Batches == Seq(Seq(Events))
Spots(bs, r, F) == {p \in UNION {{i} \X (1..Len(bs[i])) : i \in 1..Len(bs)} :
                      bs[p[1]][p[2]].rank = r /\ bs[p[1]][p[2]].fn \in F}
Sum(bs, r, F) == Cardinality(Spots(bs, r, F))

LEMMA ArmedIs ==
  ASSUME NEW r, NEW F
  PROVE  ArmedFor(r, F) = Sum(timer.batches["fwd"], r, F) + Sum(timer.batches["bwd"], r, F)
BY DEF ArmedFor, Sum, Spots

LEMMA SpotsAre ==
  ASSUME NEW bs \in Batches, NEW r, NEW F, NEW i, NEW j
  PROVE  <<i, j>> \in Spots(bs, r, F) <=>
           i \in 1..Len(bs) /\ j \in 1..Len(bs[i]) /\ bs[i][j].rank = r /\ bs[i][j].fn \in F
BY DEF Spots

LEMMA SpotsPairs ==
  ASSUME NEW bs, NEW r, NEW F, NEW p \in Spots(bs, r, F)
  PROVE  p = <<p[1], p[2]>>
BY DEF Spots

LEMMA SpotsFinite ==
  ASSUME NEW bs \in Batches, NEW r, NEW F
  PROVE  IsFiniteSet(Spots(bs, r, F)) /\ Sum(bs, r, F) \in Nat
<1> DEFINE rows == {{i} \X (1..Len(bs[i])) : i \in 1..Len(bs)}
           f == [i \in 1..Len(bs) |-> {i} \X (1..Len(bs[i]))]
<1>1. IsFiniteSet(1..Len(bs))
  <2>1. Len(bs) \in Int BY DEF Batches
  <2> QED BY <2>1, FS_Interval
<1>2. f \in Surjection(1..Len(bs), rows)
  BY DEF Surjection
<1>3. IsFiniteSet(rows)
  <2> HIDE DEF rows, f
  <2> QED BY <1>1, <1>2, FS_Surjection
<1>4. ASSUME NEW i \in 1..Len(bs)
      PROVE  IsFiniteSet({i} \X (1..Len(bs[i])))
  <2>1. Len(bs[i]) \in Int
    BY DEF Batches
  <2>2. IsFiniteSet({i}) /\ IsFiniteSet(1..Len(bs[i]))
    <3>1. IsFiniteSet({i})
      BY FS_Singleton
    <3>2. IsFiniteSet(1..Len(bs[i]))
      BY <2>1, FS_Interval
    <3> QED BY <3>1, <3>2
  <2> QED BY <2>2, FS_Product
<1>5. IsFiniteSet(UNION rows)
  <2>1. \A R \in rows : IsFiniteSet(R)
    BY <1>4
  <2> HIDE DEF rows
  <2> QED BY <1>3, <2>1, FS_UNION
<1>6. Spots(bs, r, F) \in SUBSET (UNION rows)
  BY DEF Spots
<1> HIDE DEF rows
<1> QED BY <1>5, <1>6, FS_Subset, FS_CardinalityType DEF Sum

LEMMA SumEmpty ==
  ASSUME NEW r, NEW F
  PROVE  Sum(<< >>, r, F) = 0
<1>1. Spots(<< >>, r, F) = {}
  BY DEF Spots
<1> QED BY <1>1, FS_EmptySet DEF Sum

LEMMA SumOne ==
  ASSUME NEW b \in Seq(Events), NEW r, NEW F
  PROVE  Sum(<<b>>, r, F) = Cnt(b, r, F)
<1> DEFINE B == Places(b, r, F)
           D == Spots(<<b>>, r, F)
           f == [i \in B |-> <<1, i>>]
<1>1. <<b>> \in Batches /\ Len(<<b>>) = 1 /\ <<b>>[1] = b
  BY DEF Batches
<1>2. \A i, j : <<i, j>> \in D <=> i = 1 /\ j \in B
  <2> SUFFICES ASSUME NEW i, NEW j PROVE <<i, j>> \in D <=> i = 1 /\ j \in B
    OBVIOUS
  <2> DEFINE bs == <<b>>
  <2>0. bs \in Batches /\ Len(bs) = 1 /\ bs[1] = b
    BY <1>1
  <2> HIDE DEF bs
  <2>1. <<i, j>> \in Spots(bs, r, F) <=> i \in 1..Len(bs) /\ j \in 1..Len(bs[i])
                                        /\ bs[i][j].rank = r /\ bs[i][j].fn \in F
    BY <2>0, SpotsAre
  <2>2. <<i, j>> \in Spots(bs, r, F) <=> i = 1 /\ j \in B
    BY <2>0, <2>1 DEF Places
  <2> QED BY <2>2 DEF bs
<1>3. \A p \in D : p = <<p[1], p[2]>>
  BY SpotsPairs
<1>4. IsFiniteSet(B)
  BY PlacesFinite
<1> HIDE DEF B, D
<1>5. f \in Bijection(B, D)
  <2>1. \A z \in D : \E x \in B : z = <<1, x>>
    <3> SUFFICES ASSUME NEW z \in D PROVE \E x \in B : z = <<1, x>>
      OBVIOUS
    <3>1. z = <<z[1], z[2]>> /\ <<z[1], z[2]>> \in D
      BY <1>3
    <3>2. z[1] = 1 /\ z[2] \in B
      BY <1>2, <3>1
    <3> QED BY <3>1, <3>2
  <2>2. \A x \in B : <<1, x>> \in D
    BY <1>2
  <2>3. f \in Surjection(B, D)
    BY <2>1, <2>2 DEF Surjection
  <2>4. f \in Injection(B, D)
    BY <2>2 DEF Injection, IsInjective
  <2> QED BY <2>3, <2>4 DEF Bijection
<1> HIDE DEF f
<1>6. Cardinality(D) = Cardinality(B)
  BY <1>4, <1>5, FS_Bijection DEF ExistsBijection
<1> QED BY <1>6 DEF Sum, Cnt, B, D

LEMMA SumConcat ==
  ASSUME NEW a \in Batches, NEW b \in Batches, NEW r, NEW F
  PROVE  Sum(a \o b, r, F) = Sum(a, r, F) + Sum(b, r, F)
<1> DEFINE A == Spots(a, r, F)
           B == Spots(b, r, F)
           D == {<<p[1] + Len(a), p[2]>> : p \in B}
           f == [p \in B |-> <<p[1] + Len(a), p[2]>>]
<1>1. /\ Len(a) \in Nat /\ Len(b) \in Nat /\ Len(a \o b) = Len(a) + Len(b) /\ a \o b \in Batches
      /\ \A i \in 1..Len(a) : (a \o b)[i] = a[i]
      /\ \A i \in Len(a) + 1 .. Len(a) + Len(b) : (a \o b)[i] = b[i - Len(a)]
  BY DEF Batches
<1>2. /\ \A p \in A : p = <<p[1], p[2]>> /\ p[1] \in 1..Len(a)
      /\ \A p \in B : p = <<p[1], p[2]>> /\ p[1] \in 1..Len(b)
  BY DEF Spots
<1>3. ASSUME NEW i, NEW j
      PROVE  <<i, j>> \in Spots(a \o b, r, F) <=> <<i, j>> \in A \cup D
  <2>1. <<i, j>> \in Spots(a \o b, r, F) <=>
          /\ i \in 1..Len(a) + Len(b) /\ j \in 1..Len((a \o b)[i])
          /\ (a \o b)[i][j].rank = r /\ (a \o b)[i][j].fn \in F
    <3> DEFINE ab == a \o b
    <3>1. ab \in Batches /\ Len(ab) = Len(a) + Len(b)
      BY <1>1
    <3> HIDE DEF ab
    <3>2. <<i, j>> \in Spots(ab, r, F) <=>
            /\ i \in 1..Len(a) + Len(b) /\ j \in 1..Len(ab[i])
            /\ ab[i][j].rank = r /\ ab[i][j].fn \in F
      BY <3>1, SpotsAre
    <3> QED BY <3>2 DEF ab
  <2>2. <<i, j>> \in A <=> /\ i \in 1..Len(a) /\ j \in 1..Len(a[i])
                           /\ a[i][j].rank = r /\ a[i][j].fn \in F
    BY SpotsAre
  <2>3. <<i, j>> \in D <=> i - Len(a) \in 1..Len(b) /\ i \in Int /\ <<i - Len(a), j>> \in B
    <3>1. ASSUME <<i, j>> \in D
          PROVE  i - Len(a) \in 1..Len(b) /\ i \in Int /\ <<i - Len(a), j>> \in B
      <4>1. PICK p \in B : <<i, j>> = <<p[1] + Len(a), p[2]>>
        BY <3>1
      <4>2. i = p[1] + Len(a) /\ j = p[2] /\ p[1] \in 1..Len(b) /\ p = <<p[1], p[2]>>
        BY <1>2, <4>1
      <4>3. i - Len(a) = p[1] /\ i \in Int
        BY <1>1, <4>2
      <4> QED BY <4>2, <4>3
    <3>2. ASSUME i - Len(a) \in 1..Len(b) /\ i \in Int /\ <<i - Len(a), j>> \in B
          PROVE  <<i, j>> \in D
      <4> DEFINE p == <<i - Len(a), j>>
      <4>1. p[1] + Len(a) = i /\ p[2] = j /\ p \in B
        BY <1>1, <3>2
      <4> QED BY <4>1
    <3> QED BY <3>1, <3>2
  <2>4. <<i - Len(a), j>> \in B <=>
          /\ i - Len(a) \in 1..Len(b) /\ j \in 1..Len(b[i - Len(a)])
          /\ b[i - Len(a)][j].rank = r /\ b[i - Len(a)][j].fn \in F
    BY SpotsAre
  <2>5. CASE i \in 1..Len(a)
    <3>1. i - Len(a) \notin 1..Len(b) /\ i \in 1..Len(a) + Len(b)
      BY <1>1, <2>5
    <3>2. (a \o b)[i] = a[i]
      BY <1>1, <2>5
    <3> HIDE DEF A, B, D
    <3> QED BY <2>1, <2>2, <2>3, <2>5, <3>1, <3>2
  <2>6. CASE i \in Len(a) + 1 .. Len(a) + Len(b)
    <3>1. i - Len(a) \in 1..Len(b) /\ i \in 1..Len(a) + Len(b) /\ i \notin 1..Len(a) /\ i \in Int
      BY <1>1, <2>6
    <3>2. (a \o b)[i] = b[i - Len(a)]
      BY <1>1, <2>6
    <3> HIDE DEF A, B, D
    <3> QED BY <2>1, <2>2, <2>3, <2>4, <3>1, <3>2
  <2>7. CASE i \notin 1..Len(a) /\ i \notin Len(a) + 1 .. Len(a) + Len(b)
    <3>1. i \notin 1..Len(a) + Len(b) /\ ~(i \in Int /\ i - Len(a) \in 1..Len(b))
      BY <1>1, <2>7
    <3> HIDE DEF A, B, D
    <3> QED BY <2>1, <2>2, <2>3, <2>7, <3>1
  <2> QED BY <2>5, <2>6, <2>7
<1>4. Spots(a \o b, r, F) = A \cup D
  <2>1. \A p \in Spots(a \o b, r, F) : p = <<p[1], p[2]>>
    BY SpotsPairs
  <2>2. \A p \in A \cup D : p = <<p[1], p[2]>>
    BY <1>2
  <2> HIDE DEF A, D
  <2> QED BY <1>3, <2>1, <2>2
<1>5. IsFiniteSet(A) /\ IsFiniteSet(B)
  BY SpotsFinite
<1> HIDE DEF A, B
<1>6. f \in [B -> D]
  OBVIOUS
<1>7. \A x, y \in B : f[x] = f[y] => x = y
  <2> SUFFICES ASSUME NEW x \in B, NEW y \in B, f[x] = f[y] PROVE x = y
    OBVIOUS
  <2>1. x[1] + Len(a) = y[1] + Len(a) /\ x[2] = y[2]
    OBVIOUS
  <2>2. x[1] = y[1]
    BY <1>1, <1>2, <2>1
  <2> QED BY <1>2, <2>1, <2>2
<1>8. \A z \in D : \E x \in B : f[x] = z
  OBVIOUS
<1>9. A \cap D = {}
  <2> SUFFICES ASSUME NEW p \in A, NEW x \in B, p = <<x[1] + Len(a), x[2]>> PROVE FALSE
    OBVIOUS
  <2>1. p[1] = x[1] + Len(a)
    OBVIOUS
  <2> QED BY <1>1, <1>2, <2>1
<1> HIDE DEF D, f
<1>10. Cardinality(A \cup D) = Cardinality(A) + Cardinality(B)
  BY <1>5, <1>6, <1>7, <1>8, <1>9, SideBySide
<1> QED BY <1>4, <1>10 DEF Sum, A, B

-----------------------------------------------------------------------------
(***************************************************************************)
(* Between two pairs of handlers the queue is aligned: an event that both  *)
(* ranks of a group get stands next to its mate.  S holds the first places *)
(* of the pairs.                                                           *)
(***************************************************************************)
AlignedBy(q, S) ==
  /\ \A i \in S : /\ i + 1 <= Len(q) /\ i + 1 \notin S
                  /\ q[i].fn \in Paired /\ q[i + 1].fn = q[i].fn
                  /\ q[i + 1].rank = Mate(q[i].rank)
  /\ \A i \in 1..Len(q) : /\ i \notin S /\ q[i].fn \in Paired => i - 1 \in S
                          /\ q[i].fn \in Leaders => q[i].rank % 2 = 0
Aligned(q) == \E S \in SUBSET (1..Len(q)) : AlignedBy(q, S)

LEMMA Names == Paired \cap Singles = {} /\ Leaders \subseteq Singles
BY DEF Paired, Singles, Leaders

LEMMA AlignedEmpty == Aligned(<< >>)
<1>1. AlignedBy(<< >>, {})
  BY DEF AlignedBy
<1> QED BY <1>1 DEF Aligned

LEMMA AlignedSingle ==
  ASSUME NEW e \in Events, e.fn \in Singles, e.fn \in Leaders => e.rank % 2 = 0
  PROVE  Aligned(<<e>>)
<1>1. AlignedBy(<<e>>, {})
  BY Names DEF AlignedBy
<1> QED BY <1>1 DEF Aligned

LEMMA AlignedPair ==
  ASSUME NEW e \in Events, NEW d \in Events, e.fn \in Paired, d.fn = e.fn, d.rank = Mate(e.rank)
  PROVE  Aligned(<<e, d>>)
<1> DEFINE q == <<e, d>>
<1>1. Len(q) = 2 /\ q[1] = e /\ q[2] = d
  OBVIOUS
<1> HIDE DEF q
<1>2. AlignedBy(q, {1})
  BY <1>1, Names DEF AlignedBy
<1> QED BY <1>1, <1>2 DEF Aligned, q

LEMMA AlignedConcat ==
  ASSUME NEW a \in Seq(Events), NEW b \in Seq(Events), Aligned(a), Aligned(b)
  PROVE  Aligned(a \o b)
<1>1. PICK A \in SUBSET (1..Len(a)) : AlignedBy(a, A)
  BY DEF Aligned
<1>2. PICK B \in SUBSET (1..Len(b)) : AlignedBy(b, B)
  BY DEF Aligned
<1> DEFINE D == {i \in Len(a) + 1 .. Len(a) + Len(b) : i - Len(a) \in B}
           q == a \o b
<1>3. /\ Len(a) \in Nat /\ Len(b) \in Nat /\ Len(q) = Len(a) + Len(b)
      /\ \A i \in 1..Len(a) : q[i] = a[i]
      /\ \A i \in Len(a) + 1 .. Len(a) + Len(b) : q[i] = b[i - Len(a)]
  OBVIOUS
<1> HIDE DEF q
<1>4. A \cup D \in SUBSET (1..Len(q))
  <2>1. A \subseteq 1..Len(a) /\ 1..Len(a) \subseteq 1..Len(q)
    BY <1>3
  <2>2. Len(a) + 1 .. Len(a) + Len(b) \subseteq 1..Len(q)
    BY <1>3
  <2> QED BY <2>1, <2>2
<1>5. ASSUME NEW i \in A \cup D
      PROVE  /\ i + 1 <= Len(q) /\ i + 1 \notin A \cup D
             /\ q[i].fn \in Paired /\ q[i + 1].fn = q[i].fn
             /\ q[i + 1].rank = Mate(q[i].rank)
  <2>1. CASE i \in A
    <3>1. i \in 1..Len(a) /\ i + 1 \in 1..Len(a) /\ i + 1 \notin A
      BY <1>1, <1>3, <2>1 DEF AlignedBy
    <3>2. i + 1 \notin D /\ i + 1 <= Len(q) /\ q[i] = a[i] /\ q[i + 1] = a[i + 1]
      BY <1>3, <3>1
    <3> QED BY <1>1, <2>1, <3>1, <3>2 DEF AlignedBy
  <2>2. CASE i \in D
    <3> DEFINE j == i - Len(a)
    <3>1. /\ j \in B /\ j \in 1..Len(b) /\ j + 1 <= Len(b) /\ j + 1 \notin B
          /\ b[j].fn \in Paired /\ b[j + 1].fn = b[j].fn /\ b[j + 1].rank = Mate(b[j].rank)
      BY <1>2, <1>3, <2>2 DEF AlignedBy
    <3>2. /\ i + 1 \in Len(a) + 1 .. Len(a) + Len(b) /\ (i + 1) - Len(a) = j + 1
          /\ i \in Len(a) + 1 .. Len(a) + Len(b)
      BY <1>3, <2>2, <3>1
    <3>3. q[i] = b[j] /\ q[i + 1] = b[j + 1]
      BY <1>3, <3>2
    <3>4. i + 1 \notin A \cup D /\ i + 1 <= Len(q)
      BY <1>3, <3>1, <3>2
    <3> QED BY <3>1, <3>3, <3>4
  <2> QED BY <2>1, <2>2
<1>6. ASSUME NEW i \in 1..Len(q)
      PROVE  /\ i \notin A \cup D /\ q[i].fn \in Paired => i - 1 \in A \cup D
             /\ q[i].fn \in Leaders => q[i].rank % 2 = 0
  <2>1. CASE i \in 1..Len(a)
    BY <1>1, <1>3, <2>1 DEF AlignedBy
  <2>2. CASE i \in Len(a) + 1 .. Len(a) + Len(b)
    <3> DEFINE j == i - Len(a)
    <3>1. j \in 1..Len(b) /\ q[i] = b[j]
      BY <1>3, <2>2
    <3>2. i \notin D => j \notin B
      BY <2>2
    <3>3. j \notin B /\ b[j].fn \in Paired => j - 1 \in B
      BY <1>2, <3>1 DEF AlignedBy
    <3>4. j - 1 \in B => i - 1 \in D
      <4> SUFFICES ASSUME j - 1 \in B PROVE i - 1 \in D
        OBVIOUS
      <4>1. j - 1 \in 1..Len(b)
        BY <1>2
      <4>2. i - 1 \in Len(a) + 1 .. Len(a) + Len(b) /\ (i - 1) - Len(a) = j - 1
        BY <1>3, <2>2, <4>1
      <4> QED BY <4>2
    <3>5. b[j].fn \in Leaders => b[j].rank % 2 = 0
      BY <1>2, <3>1 DEF AlignedBy
    <3> HIDE DEF j, D
    <3> QED BY <3>1, <3>2, <3>3, <3>4, <3>5
  <2>3. i \in 1..Len(a) \/ i \in Len(a) + 1 .. Len(a) + Len(b)
    BY <1>3
  <2> QED BY <2>1, <2>2, <2>3
<1>7. AlignedBy(q, A \cup D)
  BY <1>5, <1>6 DEF AlignedBy
<1> QED BY <1>4, <1>7 DEF Aligned, q

LEMMA TailOf ==
  ASSUME NEW q \in Seq(Events), q # << >>
  PROVE  /\ Tail(q) \in Seq(Events) /\ Len(Tail(q)) = Len(q) - 1 /\ Len(q) \in Nat \ {0}
         /\ \A i \in 1 .. Len(q) - 1 : Tail(q)[i] = q[i + 1]
         /\ Head(q) = q[1] /\ Head(q) \in Events
OBVIOUS

\* The first event is of one rank only.
LEMMA AlignedRest ==
  ASSUME NEW q \in Seq(Events), q # << >>, Aligned(q), Head(q).fn \in Singles
  PROVE  /\ Aligned(Tail(q))
         /\ Head(q).fn \in Leaders => Head(q).rank % 2 = 0
<1>1. PICK S \in SUBSET (1..Len(q)) : AlignedBy(q, S)
  BY DEF Aligned
<1> DEFINE t == Tail(q)
           T == {i \in 1..Len(q) - 1 : i + 1 \in S}
<1>2. /\ t \in Seq(Events) /\ Len(t) = Len(q) - 1 /\ Len(q) \in Nat \ {0}
      /\ \A i \in 1 .. Len(q) - 1 : t[i] = q[i + 1]
      /\ Head(q) = q[1] /\ Head(q) \in Events
  BY TailOf
<1> HIDE DEF t
<1>3. 1 \notin S
  BY <1>1, <1>2, Names DEF AlignedBy
<1>4. ASSUME NEW i \in T
      PROVE  /\ i + 1 <= Len(t) /\ i + 1 \notin T
             /\ t[i].fn \in Paired /\ t[i + 1].fn = t[i].fn /\ t[i + 1].rank = Mate(t[i].rank)
  <2>1. /\ i + 1 \in S /\ i \in 1 .. Len(q) - 1 /\ i + 2 <= Len(q) /\ i + 2 \notin S
        /\ q[i + 1].fn \in Paired /\ q[i + 2].fn = q[i + 1].fn
        /\ q[i + 2].rank = Mate(q[i + 1].rank)
    <3>1. (i + 1) + 1 = i + 2
      BY <1>2
    <3> QED BY <1>1, <3>1 DEF AlignedBy
  <2>2. i + 1 \in 1 .. Len(q) - 1 /\ (i + 1) + 1 = i + 2
    BY <1>2, <2>1
  <2>3. t[i] = q[i + 1] /\ t[i + 1] = q[i + 2]
    BY <1>2, <2>1, <2>2
  <2> QED BY <1>2, <2>1, <2>2, <2>3
<1>5. ASSUME NEW i \in 1..Len(t)
      PROVE  /\ i \notin T /\ t[i].fn \in Paired => i - 1 \in T
             /\ t[i].fn \in Leaders => t[i].rank % 2 = 0
  <2>1. i \in 1..Len(q) - 1 /\ i + 1 \in 1..Len(q) /\ t[i] = q[i + 1] /\ (i + 1) - 1 = i
    BY <1>2
  <2>2. /\ i + 1 \notin S /\ q[i + 1].fn \in Paired => i \in S
        /\ q[i + 1].fn \in Leaders => q[i + 1].rank % 2 = 0
    BY <1>1, <2>1 DEF AlignedBy
  <2>3. i \in S => i - 1 \in T
    <3> SUFFICES ASSUME i \in S PROVE i - 1 \in T
      OBVIOUS
    <3>1. i # 1
      BY <1>3
    <3>2. i - 1 \in 1 .. Len(q) - 1 /\ (i - 1) + 1 = i
      BY <1>2, <2>1, <3>1
    <3> QED BY <3>2
  <2> QED BY <2>1, <2>2, <2>3
<1>6. AlignedBy(t, T) /\ T \in SUBSET (1..Len(t))
  BY <1>2, <1>4, <1>5 DEF AlignedBy
<1>7. Head(q).fn \in Leaders => Head(q).rank % 2 = 0
  BY <1>1, <1>2 DEF AlignedBy
<1> QED BY <1>6, <1>7 DEF Aligned, t

\* The first event is of both ranks of a group.
LEMMA AlignedMates ==
  ASSUME NEW q \in Seq(Events), q # << >>, Aligned(q), Head(q).fn \in Paired
  PROVE  \E e \in Events, rest \in Seq(Events) :
           /\ e.fn = Head(q).fn /\ e.rank = Mate(Head(q).rank)
           /\ Tail(q) = <<e>> \o rest /\ Aligned(rest)
<1>1. PICK S \in SUBSET (1..Len(q)) : AlignedBy(q, S)
  BY DEF Aligned
<1>2. /\ Tail(q) \in Seq(Events) /\ Len(Tail(q)) = Len(q) - 1 /\ Len(q) \in Nat \ {0}
      /\ \A i \in 1 .. Len(q) - 1 : Tail(q)[i] = q[i + 1]
      /\ Head(q) = q[1] /\ Head(q) \in Events
  BY TailOf
<1>3. 1 \in S
  <2>1. 1 \notin S => 1 - 1 \in S
    BY <1>1, <1>2 DEF AlignedBy
  <2> QED BY <1>1, <1>2, <2>1
<1>4. 2 <= Len(q) /\ 2 \notin S /\ q[2].fn = q[1].fn /\ q[2].rank = Mate(q[1].rank)
  <2>1. 1 + 1 = 2
    OBVIOUS
  <2> QED BY <1>1, <1>3, <2>1 DEF AlignedBy
<1> DEFINE p == Tail(q)
           t == Tail(p)
           T == {i \in 1..Len(q) - 2 : i + 2 \in S}
<1>5. /\ p \in Seq(Events) /\ p # << >> /\ Len(p) = Len(q) - 1
      /\ \A i \in 1 .. Len(q) - 1 : p[i] = q[i + 1]
  <2>1. Len(p) # 0
    BY <1>2, <1>4
  <2>2. p # << >>
    <3>1. Len(<< >>) = 0
      OBVIOUS
    <3> HIDE DEF p
    <3> QED BY <2>1, <3>1
  <2> QED BY <1>2, <2>2
<1> HIDE DEF p
<1>6. /\ t \in Seq(Events) /\ Len(t) = Len(p) - 1 /\ \A i \in 1 .. Len(p) - 1 : t[i] = p[i + 1]
      /\ Head(p) = p[1] /\ Head(p) \in Events /\ p = <<Head(p)>> \o t
  BY <1>5, TailOf
<1> HIDE DEF t
<1>7. Len(t) = Len(q) - 2 /\ \A i \in 1 .. Len(q) - 2 : t[i] = q[i + 2]
  <2>1. Len(t) = Len(q) - 2
    BY <1>2, <1>5, <1>6
  <2>2. ASSUME NEW i \in 1 .. Len(q) - 2 PROVE t[i] = q[i + 2]
    <3>1. i \in 1 .. Len(p) - 1 /\ i + 1 \in 1 .. Len(q) - 1 /\ (i + 1) + 1 = i + 2
      BY <1>2, <1>5
    <3> QED BY <1>5, <1>6, <3>1
  <2> QED BY <2>1, <2>2
<1>8. ASSUME NEW i \in T
      PROVE  /\ i + 1 <= Len(t) /\ i + 1 \notin T
             /\ t[i].fn \in Paired /\ t[i + 1].fn = t[i].fn /\ t[i + 1].rank = Mate(t[i].rank)
  <2>1. /\ i + 2 \in S /\ i \in 1 .. Len(q) - 2 /\ i + 3 <= Len(q) /\ i + 3 \notin S
        /\ q[i + 2].fn \in Paired /\ q[i + 3].fn = q[i + 2].fn
        /\ q[i + 3].rank = Mate(q[i + 2].rank)
    <3>1. (i + 2) + 1 = i + 3
      BY <1>2
    <3> QED BY <1>1, <3>1 DEF AlignedBy
  <2>2. i + 1 \in 1 .. Len(q) - 2 /\ (i + 1) + 2 = i + 3
    BY <1>2, <2>1
  <2>3. t[i] = q[i + 2] /\ t[i + 1] = q[i + 3]
    BY <1>7, <2>1, <2>2
  <2> QED BY <1>7, <2>1, <2>2, <2>3
<1>9. ASSUME NEW i \in 1..Len(t)
      PROVE  /\ i \notin T /\ t[i].fn \in Paired => i - 1 \in T
             /\ t[i].fn \in Leaders => t[i].rank % 2 = 0
  <2>1. i \in 1..Len(q) - 2 /\ i + 2 \in 1..Len(q) /\ t[i] = q[i + 2] /\ (i + 2) - 1 = i + 1
    BY <1>2, <1>7
  <2>2. /\ i + 2 \notin S /\ q[i + 2].fn \in Paired => i + 1 \in S
        /\ q[i + 2].fn \in Leaders => q[i + 2].rank % 2 = 0
    BY <1>1, <2>1 DEF AlignedBy
  <2>3. i + 1 \in S => i - 1 \in T
    <3> SUFFICES ASSUME i + 1 \in S PROVE i - 1 \in T
      OBVIOUS
    <3>0. i + 1 \in S
      OBVIOUS
    <3>1. i # 1
      <4> SUFFICES ASSUME i = 1 PROVE FALSE
        OBVIOUS
      <4>1. 2 \in S
        <5>1. i + 1 = 2
          OBVIOUS
        <5> QED BY <3>0, <5>1
      <4> QED BY <1>4, <4>1
    <3>2. i - 1 \in 1 .. Len(q) - 2 /\ (i - 1) + 2 = i + 1
      BY <1>2, <2>1, <3>1
    <3> QED BY <3>2
  <2> QED BY <2>1, <2>2, <2>3
<1>10. Aligned(t)
  <2>1. AlignedBy(t, T) /\ T \in SUBSET (1..Len(t))
    BY <1>7, <1>8, <1>9 DEF AlignedBy
  <2> QED BY <2>1 DEF Aligned
<1>11. Head(p).fn = Head(q).fn /\ Head(p).rank = Mate(Head(q).rank)
  <2>1. p[1] = q[2]
    <3>1. 1 \in 1 .. Len(q) - 1 /\ 1 + 1 = 2
      BY <1>2, <1>4
    <3> QED BY <1>5, <3>1
  <2> QED BY <1>2, <1>4, <1>6, <2>1
<1> QED BY <1>6, <1>10, <1>11 DEF p

\* The ranks of a stage.
LEMMA RankForm ==
  ASSUME DP = 2, NEW r \in Rank
  PROVE  \E s \in Stages, i \in 0..1 : r = 2*s + i
<1>1. PP \in Nat /\ PP >= 1 /\ r \in 0 .. 2*PP - 1
  BY Groups DEF Rank
<1> DEFINE s == r \div 2
           i == r % 2
<1>2. s \in Int /\ i \in 0..1 /\ r = 2*s + i
  BY <1>1
<1>3. s \in Stages
  <2> HIDE DEF s, i
  <2> QED BY <1>1, <1>2 DEF Stages
<1> HIDE DEF s, i
<1> QED BY <1>2, <1>3

LEMMA RankOf ==
  ASSUME DP = 2, NEW s \in Stages, NEW i \in 0..1, NEW r, r = 2*s + i
  PROVE  /\ r \in Rank /\ r \in Nat /\ s \in Nat /\ s <= PP - 1 /\ r % 2 = i
         /\ Mate(r) = 2*s + (1 - i) /\ Mate(r) \in Rank /\ Mate(r) # r /\ Mate(Mate(r)) = r
         /\ Stage(r) = s /\ RankInGroup(r) = i /\ Base(s) = 2*s
         /\ Peer(r, 1 - i) = Mate(r)
         /\ IsFirst(r) <=> s = 0
         /\ IsLast(r) <=> s = PP - 1
<1>1. PP \in Nat /\ PP >= 1 /\ s \in Nat /\ s <= PP - 1 /\ Rank = 0 .. 2*PP - 1
  BY Groups DEF Rank, Stages
<1>2. r \in Rank /\ r \in Nat /\ r % 2 = i /\ r \div 2 = s
  BY <1>1
<1>3. Mate(r) = 2*s + (1 - i)
  BY <1>1, <1>2 DEF Mate
<1>4. (2*s + (1 - i)) % 2 = 1 - i
  BY <1>1
<1>5. Mate(r) \in Rank /\ Mate(r) # r /\ Mate(Mate(r)) = r
  <2>1. 2*s + (1 - i) \in Rank /\ 2*s + (1 - i) # r
    BY <1>1
  <2>2. Mate(2*s + (1 - i)) = r
    BY <1>1, <1>4 DEF Mate
  <2> QED BY <1>3, <2>1, <2>2
<1>6. Stage(r) = s /\ RankInGroup(r) = i /\ Base(s) = 2*s
  BY <1>1, <1>2 DEF Stage, RankInGroup, Base
<1>7. Peer(r, 1 - i) = Mate(r)
  BY <1>3, <1>6 DEF Peer
<1> QED BY <1>1, <1>2, <1>3, <1>5, <1>6, <1>7 DEF IsFirst, IsLast

-----------------------------------------------------------------------------
(***************************************************************************)
(* The shape of the state, and what a handler does to the views.           *)
(***************************************************************************)
BatchesOK(bs) ==
  /\ bs \in Batches
  /\ \A i \in 1..Len(bs) : /\ Aligned(bs[i])
                           /\ \A j \in 1..Len(bs[i]) : bs[i][j].fn \in ComputeEvents

TimerOK(t) ==
  /\ t = [batches |-> [kind \in Kinds |-> t.batches[kind]], open |-> t.open]
  /\ \A kind \in Kinds : /\ BatchesOK(t.batches[kind])
                         /\ kind \in t.open => t.batches[kind] # << >>

Shape ==
  /\ conf \in Confs
  /\ h = [r \in Rank |-> h[r]] /\ cc = [r \in Rank |-> cc[r]]
  /\ ringQp = [r \in Rank |-> ringQp[r]] /\ p2pQp = [r \in Rank |-> p2pQp[r]]
  /\ TimerOK(timer)
  /\ events \in Seq(Events)

ArmedOf(t, r, F) == Sum(t.batches["fwd"], r, F) + Sum(t.batches["bwd"], r, F)

LEMMA TokIs ==
  ASSUME NEW r, NEW f
  PROVE  /\ Tok(r, f) = ArmedOf(timer, r, {f}) + Cnt(events, r, {f})
         /\ Tok(r, f)' = ArmedOf(timer', r, {f}) + Cnt(events', r, {f})
<1>1. /\ ArmedFor(r, {f}) = ArmedOf(timer, r, {f})
      /\ ArmedFor(r, {f})' = ArmedOf(timer', r, {f})
  BY DEF ArmedFor, ArmedOf, Sum, Spots
<1>2. DueFor(r, {f}) = Cnt(events, r, {f}) /\ DueFor(r, {f})' = Cnt(events', r, {f})
  BY DEF DueFor, Cnt, Places
<1> QED BY <1>1, <1>2 DEF Tok

LEMMA ArmedNat ==
  ASSUME NEW t, TimerOK(t), NEW r, NEW F
  PROVE  ArmedOf(t, r, F) \in Nat
<1>1. t.batches["fwd"] \in Batches /\ t.batches["bwd"] \in Batches
  BY DEF TimerOK, Kinds, BatchesOK
<1>2. Sum(t.batches["fwd"], r, F) \in Nat /\ Sum(t.batches["bwd"], r, F) \in Nat
  BY <1>1, SpotsFinite
<1> QED BY <1>2 DEF ArmedOf

\* The counts of a state are natural numbers, and the first event is counted.
LEMMA ViewTokens ==
  ASSUME Shape, NEW r
  PROVE  /\ View(r).h = h[r] /\ View(r).cc = cc[r]
         /\ View(r).rq = ringQp[r] /\ View(r).pq = p2pQp[r]
         /\ View(r).n \in [Fns -> Nat] /\ \A f \in Fns : View(r).n[f] = Tok(r, f)
         /\ \A f \in Fns : Due(f, r) => View(r).n[f] # 0
<1>1. \A f \in Fns : Tok(r, f) \in Nat
  <2> SUFFICES ASSUME NEW f \in Fns PROVE Tok(r, f) \in Nat
    OBVIOUS
  <2>1. ArmedOf(timer, r, {f}) \in Nat /\ Cnt(events, r, {f}) \in Nat
    BY ArmedNat, PlacesFinite DEF Shape
  <2> QED BY <2>1, TokIs
<1>2. ASSUME NEW f \in Fns, Due(f, r)
      PROVE  Tok(r, f) # 0
  <2>1. events # << >> /\ Head(events).fn = f /\ Head(events).rank = r /\ events \in Seq(Events)
    BY <1>2 DEF Due, Shape
  <2>2. Cnt(events, r, {f}) = One(Head(events).rank = r /\ Head(events).fn \in {f})
                               + Cnt(Tail(events), r, {f})
    BY <2>1, CntTail
  <2>3. Cnt(Tail(events), r, {f}) \in Nat
    BY <2>1, PlacesFinite, TailOf
  <2>4. Cnt(events, r, {f}) = 1 + Cnt(Tail(events), r, {f})
    BY <2>1, <2>2 DEF One
  <2>5. ArmedOf(timer, r, {f}) \in Nat
    BY ArmedNat DEF Shape
  <2> QED BY <2>3, <2>4, <2>5, TokIs
<1>3. /\ View(r).h = h[r] /\ View(r).cc = cc[r]
      /\ View(r).rq = ringQp[r] /\ View(r).pq = p2pQp[r]
      /\ View(r).n = [f \in Fns |-> Tok(r, f)]
  BY DEF View
<1> QED BY <1>1, <1>2, <1>3

\* A step that schedules s, and no more than g for rank q.
Gives(q, s, g) ==
  \A k \in Fns : ArmedOf(timer', q, {k}) + Cnt(s, q, {k}) = ArmedOf(timer, q, {k}) + One(k = g)

\* The first event, if it is one of rank q.
FirstFn(q) == IF Head(events).rank = q THEN Head(events).fn ELSE "None"

\* Every rank after the handler of the first event has run.
LEMMA MovedView ==
  ASSUME Shape, events # << >>, NEW q, NEW g, NEW s \in Seq(Events), events' = Tail(events) \o s, TimerOK(timer'),
         Gives(q, s, g)
  PROVE  View(q)' = Moved(View(q), FirstFn(q), h'[q], cc'[q], ringQp'[q], p2pQp'[q], g)
<1> DEFINE f0 == FirstFn(q)
<1>1. ASSUME NEW k \in Fns
      PROVE  Tok(q, k)' = Tok(q, k) - One(k = f0) + One(k = g)
  <2>1. events \in Seq(Events) /\ Head(events) \in Events /\ Head(events).fn \in Fns
    <3>1. events \in Seq(Events)
      BY DEF Shape
    <3>2. Head(events) \in Events
      BY <3>1, TailOf
    <3> QED BY <3>1, <3>2 DEF Events
  <2>2. Cnt(events, q, {k}) = One(Head(events).rank = q /\ Head(events).fn \in {k})
                               + Cnt(Tail(events), q, {k})
    BY <2>1, CntTail
  <2>3. One(Head(events).rank = q /\ Head(events).fn \in {k}) = One(k = f0)
    BY <2>1, FnNames DEF One, FirstFn
  <2>4. Cnt(events', q, {k}) = Cnt(Tail(events), q, {k}) + Cnt(s, q, {k})
    <3> DEFINE a == Tail(events)
    <3>1. a \in Seq(Events) /\ s \in Seq(Events)
      BY <2>1, TailOf
    <3>2. Cnt(a \o s, q, {k}) = Cnt(a, q, {k}) + Cnt(s, q, {k})
      <4> HIDE DEF a
      <4> QED BY <3>1, CntConcat
    <3> QED BY <3>2
  <2>5. /\ Cnt(Tail(events), q, {k}) \in Nat /\ Cnt(s, q, {k}) \in Nat
        /\ ArmedOf(timer, q, {k}) \in Nat
    BY <2>1, TailOf, PlacesFinite, ArmedNat DEF Shape
  <2>6. ArmedOf(timer', q, {k}) + Cnt(s, q, {k}) = ArmedOf(timer, q, {k}) + One(k = g)
    BY DEF Gives
  <2>7. One(k = f0) \in Nat /\ One(k = g) \in Nat
    BY DEF One
  <2>8. /\ Tok(q, k)' = ArmedOf(timer', q, {k}) + Cnt(events', q, {k})
        /\ Tok(q, k) = ArmedOf(timer, q, {k}) + Cnt(events, q, {k})
    BY TokIs
  <2> DEFINE a0 == ArmedOf(timer, q, {k})
             a1 == ArmedOf(timer', q, {k})
             c0 == Cnt(events, q, {k})
             c1 == Cnt(events', q, {k})
             ct == Cnt(Tail(events), q, {k})
             cs == Cnt(s, q, {k})
             of == One(k = f0)
             og == One(k = g)
  <2>9. /\ c0 = of + ct /\ c1 = ct + cs /\ a1 + cs = a0 + og
        /\ ct \in Nat /\ cs \in Nat /\ a0 \in Nat /\ of \in Nat /\ og \in Nat
    BY <2>2, <2>3, <2>4, <2>5, <2>6, <2>7
  <2>10. Tok(q, k)' = a1 + c1 /\ Tok(q, k) = a0 + c0
    BY <2>8
  <2> SUFFICES Tok(q, k)' = Tok(q, k) - of + og
    OBVIOUS
  <2>11. a1 \in Nat
    BY ArmedNat
  <2> HIDE DEF a0, a1, c0, c1, ct, cs, of, og
  <2> QED BY <2>9, <2>10, <2>11
<1>2. \A k \in Fns : View(q).n[k] = Tok(q, k)
  BY ViewTokens
<1>3. View(q)' = [h |-> h'[q], cc |-> cc'[q], rq |-> ringQp'[q], pq |-> p2pQp'[q],
                  n |-> [k \in Fns |-> Tok(q, k)']]
  BY DEF View
<1>4. [k \in Fns |-> Tok(q, k)'] = [k \in Fns |-> View(q).n[k] - One(k = f0) + One(k = g)]
  BY <1>1, <1>2
<1> QED BY <1>3, <1>4 DEF Moved

\* A rank that no part of the step concerns.
LEMMA Still ==
  ASSUME Shape, NEW q
  PROVE  Moved(View(q), "None", h[q], cc[q], ringQp[q], p2pQp[q], "None") = View(q)
<1> DEFINE n == View(q).n
<1>1. View(q) = [h |-> h[q], cc |-> cc[q], rq |-> ringQp[q], pq |-> p2pQp[q], n |-> n]
  BY DEF View
<1>2. n \in [Fns -> Nat]
  BY ViewTokens
<1>3. [g \in Fns |-> n[g] - One(g = "None") + One(g = "None")] = n
  <2>1. \A g \in Fns : g # "None"
    BY FnNames
  <2> HIDE DEF n
  <2> QED BY <1>2, <2>1 DEF One
<1> QED BY <1>1, <1>3 DEF Moved

\* The handler of event f of rank r changes what x says of r, and schedules g for r.
Out(g, r) == IF g = "None" THEN << >> ELSE <<Ev(g, r)>>
Effect(r, f, g, x) ==
  /\ x = Moved(View(r), f, x.h, x.cc, x.rq, x.pq, g)
  /\ h' = [h EXCEPT ![r] = x.h] /\ cc' = [cc EXCEPT ![r] = x.cc]
  /\ ringQp' = [ringQp EXCEPT ![r] = x.rq] /\ p2pQp' = [p2pQp EXCEPT ![r] = x.pq]
  /\ timer' = timer /\ arrived' = None
  /\ events' = Tail(events) \o Out(g, r)

LEMMA OutIs ==
  ASSUME NEW r \in Rank, NEW g \in Paired \cup {"None"}
  PROVE  /\ Out(g, r) \in Seq(Events)
         /\ \A q : \A k \in Fns : Cnt(Out(g, r), q, {k}) = One(k = IF q = r THEN g ELSE "None")
<1>1. "None" \notin Fns /\ Paired \subseteq Fns
  BY FnNames DEF Fns
<1>2. CASE g = "None"
  <2>1. Out(g, r) = << >>
    BY <1>2 DEF Out
  <2>2. \A q : \A k \in Fns : k # IF q = r THEN g ELSE "None"
    BY <1>1, <1>2
  <2>3. \A q : \A k \in Fns : Cnt(<< >>, q, {k}) = 0
    BY CntEmpty
  <2>4. \A q : \A k \in Fns : One(k = IF q = r THEN g ELSE "None") = 0
    BY <2>2 DEF One
  <2>5. << >> \in Seq(Events)
    OBVIOUS
  <2> QED BY ZenonT(40), <2>1, <2>3, <2>4, <2>5
<1>3. CASE g # "None"
  <2>1. g \in Fns
    BY <1>1, <1>3
  <2> DEFINE e == Ev(g, r)
  <2>2. Out(g, r) = <<e>>
    BY <1>3 DEF Out
  <2>3. e \in Events /\ e.rank = r /\ e.fn = g
    BY <2>1 DEF Ev, Events, None
  <2> HIDE DEF e
  <2>4. \A q : \A k \in Fns : Cnt(<<e>>, q, {k}) = One(e.rank = q /\ e.fn \in {k})
    BY <2>3, CntOne
  <2>5. \A q : \A k \in Fns : (e.rank = q /\ e.fn \in {k}) <=> k = IF q = r THEN g ELSE "None"
    BY <1>1, <2>3
  <2>6. <<e>> \in Seq(Events)
    BY <2>3
  <2> QED BY <2>2, <2>4, <2>5, <2>6 DEF One
<1> QED BY <1>2, <1>3

LEMMA EffectViews ==
  ASSUME Shape, conf' = conf, NEW r \in Rank, NEW f \in Fns, Due(f, r),
         NEW g \in Paired \cup {"None"}, NEW x, Effect(r, f, g, x)
  PROVE  /\ View(r)' = x
         /\ \A q \in Rank : q # r => View(q)' = View(q)
         /\ Shape'
<1>0. /\ events \in Seq(Events) /\ events # << >> /\ Tail(events) \in Seq(Events)
      /\ TimerOK(timer) /\ timer' = timer
  <2>1. events \in Seq(Events) /\ events # << >>
    BY DEF Shape, Due
  <2> QED BY <2>1, TailOf DEF Shape, Effect
<1>1. /\ Out(g, r) \in Seq(Events)
      /\ \A q : \A k \in Fns : Cnt(Out(g, r), q, {k}) = One(k = IF q = r THEN g ELSE "None")
  BY OutIs
<1>2. events' = Tail(events) \o Out(g, r)
  BY DEF Effect
<1>3. ASSUME NEW q \in Rank
      PROVE  View(q)' = Moved(View(q), IF q = r THEN f ELSE "None", h'[q], cc'[q],
                              ringQp'[q], p2pQp'[q], IF q = r THEN g ELSE "None")
  <2> DEFINE g0 == IF q = r THEN g ELSE "None"
             s == Out(g, r)
  <2>1. \A k \in Fns : Cnt(s, q, {k}) = One(k = g0)
    BY <1>1
  <2>2. \A k \in Fns : ArmedOf(timer, q, {k}) \in Nat
    BY <1>0, ArmedNat
  <2>3. Gives(q, s, g0)
    BY <1>0, <2>1, <2>2 DEF Gives
  <2>4. TimerOK(timer') /\ s \in Seq(Events) /\ events' = Tail(events) \o s
    BY <1>0, <1>1, <1>2
  <2> HIDE DEF g0, s
  <2>5. FirstFn(q) = IF q = r THEN f ELSE "None"
    BY DEF FirstFn, Due
  <2>6. View(q)' = Moved(View(q), FirstFn(q), h'[q], cc'[q], ringQp'[q], p2pQp'[q], g0)
    BY <1>0, <2>3, <2>4, MovedView
  <2> QED BY <2>5, <2>6, Zenon DEF g0
<1>4. ASSUME NEW q \in Rank
      PROVE  /\ h'[q] = (IF q = r THEN x.h ELSE h[q]) /\ cc'[q] = (IF q = r THEN x.cc ELSE cc[q])
             /\ ringQp'[q] = (IF q = r THEN x.rq ELSE ringQp[q])
             /\ p2pQp'[q] = (IF q = r THEN x.pq ELSE p2pQp[q])
  BY DEF Effect, Shape
<1>5. View(r)' = x
  BY <1>3, <1>4, Zenon DEF Effect
<1>6. ASSUME NEW q \in Rank, q # r
      PROVE  View(q)' = View(q)
  <2>1. View(q)' = Moved(View(q), "None", h[q], cc[q], ringQp[q], p2pQp[q], "None")
    BY <1>3, <1>4, <1>6, Zenon
  <2> QED BY <2>1, Still
<1>7. events' \in Seq(Events)
  BY <1>0, <1>1, <1>2
<1>8. /\ h' = [q \in Rank |-> h'[q]] /\ cc' = [q \in Rank |-> cc'[q]]
      /\ ringQp' = [q \in Rank |-> ringQp'[q]] /\ p2pQp' = [q \in Rank |-> p2pQp'[q]]
  BY DEF Effect, Shape
<1>9. Shape'
  BY <1>0, <1>7, <1>8 DEF Shape, Rank
<1> QED BY <1>5, <1>6, <1>9

-----------------------------------------------------------------------------
(***************************************************************************)
(* What each handler of an event of both ranks of a group does is After.   *)
(***************************************************************************)
LEMMA HandleEffect ==
  ASSUME Shape, NEW r \in Rank, NEW f, NEW hr, NEW g \in Fns, Handle(hr, r, <<Ev(g, r)>>)
  PROVE  Effect(r, f, g, Held(View(r), f, hr, g))
<1> DEFINE x == Held(View(r), f, hr, g)
<1>1. x.h = hr /\ x.cc = cc[r] /\ x.rq = ringQp[r] /\ x.pq = p2pQp[r]
  BY DEF Held, Moved, View
<1>2. x = Moved(View(r), f, x.h, x.cc, x.rq, x.pq, g)
  BY <1>1 DEF Held, View
<1>3. Out(g, r) = <<Ev(g, r)>>
  BY FnNames DEF Out
<1> HIDE DEF x
<1>4. /\ h' = [h EXCEPT ![r] = hr] /\ cc' = cc /\ ringQp' = ringQp /\ p2pQp' = p2pQp
      /\ timer' = timer /\ arrived' = None /\ events' = Tail(events) \o <<Ev(g, r)>>
  BY DEF Handle, Then
<1>5. /\ cc = [cc EXCEPT ![r] = cc[r]] /\ ringQp = [ringQp EXCEPT ![r] = ringQp[r]]
      /\ p2pQp = [p2pQp EXCEPT ![r] = p2pQp[r]]
  BY DEF Shape
<1>6. Effect(r, f, g, x)
  BY <1>1, <1>2, <1>3, <1>4, <1>5 DEF Effect
<1> QED BY <1>6 DEF x

LEMMA HandleOnly ==
  ASSUME Shape, NEW r \in Rank, NEW f, NEW hr, Handle(hr, r, << >>)
  PROVE  Effect(r, f, "None", Held(View(r), f, hr, "None"))
<1> DEFINE g == "None"
           x == Held(View(r), f, hr, g)
<1>1. x.h = hr /\ x.cc = cc[r] /\ x.rq = ringQp[r] /\ x.pq = p2pQp[r]
  BY DEF Held, Moved, View
<1>2. x = Moved(View(r), f, x.h, x.cc, x.rq, x.pq, g)
  BY <1>1 DEF Held, View
<1>3. Out(g, r) = << >>
  BY DEF Out
<1> HIDE DEF x, g
<1>4. /\ h' = [h EXCEPT ![r] = hr] /\ cc' = cc /\ ringQp' = ringQp /\ p2pQp' = p2pQp
      /\ timer' = timer /\ arrived' = None /\ events' = Tail(events) \o << >>
  BY DEF Handle, Then
<1>5. /\ cc = [cc EXCEPT ![r] = cc[r]] /\ ringQp = [ringQp EXCEPT ![r] = ringQp[r]]
      /\ p2pQp = [p2pQp EXCEPT ![r] = p2pQp[r]]
  BY DEF Shape
<1>6. Effect(r, f, g, x)
  BY <1>1, <1>2, <1>3, <1>4, <1>5 DEF Effect
<1> QED BY <1>6 DEF x, g

LEMMA CollectEffect ==
  ASSUME Shape, NEW r \in Rank, NEW i, NEW f, NEW hr, Collect(r, Ring(i, 2, 1), hr)
  PROVE  Effect(r, f, "RdmaStart", Collects(View(r), f, i, hr))
<1> DEFINE g == "RdmaStart"
           e == Ring(i, 2, 1)
           x == Moved(View(r), f, hr, e, View(r).rq, View(r).pq, g)
<1>1. x.h = hr /\ x.cc = e /\ x.rq = ringQp[r] /\ x.pq = p2pQp[r]
  <2> HIDE DEF e, g
  <2> QED BY DEF Moved, View
<1>2. x = Moved(View(r), f, x.h, x.cc, x.rq, x.pq, g)
  <2> HIDE DEF e, g
  <2> QED BY <1>1 DEF View
<1>3. Out(g, r) = <<Ev(g, r)>> /\ x = Collects(View(r), f, i, hr)
  BY DEF Out, Collects
<1>4. /\ h' = [h EXCEPT ![r] = hr] /\ cc' = [cc EXCEPT ![r] = e]
      /\ ringQp' = ringQp /\ p2pQp' = p2pQp
      /\ timer' = timer /\ arrived' = None /\ events' = Tail(events) \o <<Ev(g, r)>>
  <2> HIDE DEF e
  <2> QED BY DEF Collect, Then, e
<1> HIDE DEF x, g, e
<1>5. /\ ringQp = [ringQp EXCEPT ![r] = ringQp[r]]
      /\ p2pQp = [p2pQp EXCEPT ![r] = p2pQp[r]]
  BY DEF Shape
<1>6. Effect(r, f, g, x)
  BY <1>1, <1>2, <1>3, <1>4, <1>5 DEF Effect
<1> QED BY <1>3, <1>6 DEF g

LEMMA SendEffect ==
  ASSUME Shape, NEW r \in Rank, IsHybridCC(h[r]), NEW f, NEW phase, NEW forward,
         SendP2P(r, phase, forward), p2pQp[r] \in Nat
  PROVE  Effect(r, f, "None", Posts(View(r), f, phase, forward))
<1> DEFINE g == "None"
           hr == [h[r] EXCEPT !.phase = phase, !.pendChunk = h[r].chunk, !.pendFwd = forward]
           x == Moved(View(r), f, hr, cc[r], ringQp[r], p2pQp[r] + 1, g)
<1>1. x.h = hr /\ x.cc = cc[r] /\ x.rq = ringQp[r] /\ x.pq = p2pQp[r] + 1
  <2> HIDE DEF hr, g
  <2> QED BY DEF Moved, View
<1>2. x = Moved(View(r), f, x.h, x.cc, x.rq, x.pq, g)
  <2> HIDE DEF hr, g
  <2> QED BY <1>1 DEF View
<1>3. Out(g, r) = << >>
  BY DEF Out
<1>c. x = Posts(View(r), f, phase, forward)
  BY DEF Posts, View
<1>4. /\ h' = [h EXCEPT ![r] = hr] /\ cc' = cc
      /\ ringQp' = ringQp /\ p2pQp' = [p2pQp EXCEPT ![r] = p2pQp[r] + 1]
      /\ timer' = timer /\ arrived' = None /\ events' = Tail(events) \o << >>
  <2>1. h' = [h EXCEPT ![r].phase = phase, ![r].pendChunk = h[r].chunk, ![r].pendFwd = forward]
    BY DEF SendP2P
  <2>2. h = [q \in Rank |-> h[q]] /\ h[r] = [k \in Fields |-> h[r][k]]
    BY DEF Shape, IsHybridCC
  <2>3. h' = [h EXCEPT ![r] = hr]
    BY <2>1, <2>2 DEF Fields
  <2> QED BY <2>3 DEF SendP2P, Then, Shape
<1> HIDE DEF x, g, hr
<1>5. /\ ringQp = [ringQp EXCEPT ![r] = ringQp[r]]
      /\ cc = [cc EXCEPT ![r] = cc[r]]
  BY DEF Shape
<1>6. Effect(r, f, g, x)
  BY <1>1, <1>2, <1>3, <1>4, <1>5 DEF Effect
<1> QED BY <1>c, <1>6 DEF g

LEMMA FinishEffect ==
  ASSUME Shape, NEW r \in Rank, NEW f, NEW hr, Finish(r, hr)
  PROVE  Effect(r, f, "ScheduleNext", Frees(View(r), f, hr))
<1>1. Handle([hr EXCEPT !.busy = FALSE], r, <<Ev("ScheduleNext", r)>>)
  BY DEF Finish, Handle
<1> QED BY <1>1, HandleEffect, FnNames DEF Frees

-----------------------------------------------------------------------------
Ran(r, f, s, i) ==
  \E g \in Paired \cup {"None"} : Effect(r, f, g, After(f, View(r), s, i, conf))

AtRank(r, s, i) ==
  /\ r \in Rank /\ conf.mode = 0
  /\ View(r).h = h[r] /\ View(r).cc = cc[r] /\ IsHybridCC(h[r]) /\ p2pQp[r] \in Nat
  /\ (IsFirst(r) <=> s = 0) /\ (IsLast(r) <=> s = PP - 1)
  /\ Stage(r) = s /\ RankInGroup(r) = i
  /\ \A f \in Fns : Due(f, r) => View(r).n[f] # 0

LEMMA Running ==
  ASSUME DP = 2, Shape, conf \in EventConf, NEW s \in Stages, NEW i \in 0..1, NEW r, r = 2*s + i,
         RankOK(View(r), s, i, conf)
  PROVE  AtRank(r, s, i)
<1>1. Types(View(r), conf)
  BY DEF RankOK
<1>2. View(r).h = h[r] /\ View(r).cc = cc[r] /\ View(r).pq = p2pQp[r]
  BY DEF View
<1>3. \A f \in Fns : Due(f, r) => View(r).n[f] # 0
  BY ViewTokens
<1>4. conf.mode = 0
  BY DEF EventConf
<1>5. IsHybridCC(h[r]) /\ p2pQp[r] \in Nat
  BY <1>1, <1>2 DEF Types
<1>6. /\ r \in Rank /\ (IsFirst(r) <=> s = 0) /\ (IsLast(r) <=> s = PP - 1)
      /\ Stage(r) = s /\ RankInGroup(r) = i
  BY RankOf
<1> QED BY <1>2, <1>3, <1>4, <1>5, <1>6 DEF AtRank

LEMMA StartRan ==
  ASSUME DP = 2, Shape, conf \in EventConf, NEW s \in Stages, NEW i \in 0..1, NEW r, r = 2*s + i,
         RankOK(View(r), s, i, conf), HybridStart(r)
  PROVE  Ran(r, "StartApplication", s, i)
<1> DEFINE v == View(r)
           f == "StartApplication"
<1>0. AtRank(r, s, i)
  BY Running
<1>1. /\ r \in Rank /\ conf.mode = 0
      /\ v.h = h[r] /\ v.cc = cc[r] /\ IsHybridCC(h[r]) /\ p2pQp[r] \in Nat
      /\ (IsFirst(r) <=> s = 0) /\ (IsLast(r) <=> s = PP - 1)
      /\ Stage(r) = s /\ RankInGroup(r) = i
  BY <1>0 DEF AtRank
<1>2. Handle((IF s = 0 THEN [h[r] EXCEPT !.fwdReady = conf.chunks] ELSE h[r]), r, <<Ev("ScheduleNext_EventDriven", r)>>)
  BY <1>1 DEF HybridStart, NextEvent
<1>3. "ScheduleNext_EventDriven" \in Fns /\ "ScheduleNext_EventDriven" \in Paired
  BY FnNames DEF Paired
<1>4. Effect(r, f, "ScheduleNext_EventDriven", Held(v, f, (IF s = 0 THEN [h[r] EXCEPT !.fwdReady = conf.chunks] ELSE h[r]), "ScheduleNext_EventDriven"))
  BY <1>1, <1>2, <1>3, HandleEffect
<1>5. After(f, v, s, i, conf) = Held(v, f, (IF s = 0 THEN [h[r] EXCEPT !.fwdReady = conf.chunks] ELSE h[r]), "ScheduleNext_EventDriven")
  BY <1>1 DEF After
<1> QED BY <1>3, <1>4, <1>5 DEF Ran

LEMMA ScheduleRan ==
  ASSUME DP = 2, Shape, conf \in EventConf, NEW s \in Stages, NEW i \in 0..1, NEW r, r = 2*s + i,
         RankOK(View(r), s, i, conf), ScheduleNext(r)
  PROVE  Ran(r, "ScheduleNext", s, i)
<1> DEFINE v == View(r)
           f == "ScheduleNext"
<1>0. AtRank(r, s, i)
  BY Running
<1>1. /\ r \in Rank /\ conf.mode = 0
      /\ v.h = h[r] /\ v.cc = cc[r] /\ IsHybridCC(h[r]) /\ p2pQp[r] \in Nat
      /\ (IsFirst(r) <=> s = 0) /\ (IsLast(r) <=> s = PP - 1)
      /\ Stage(r) = s /\ RankInGroup(r) = i
  BY <1>0 DEF AtRank
<1>2. Handle(h[r], r, <<Ev("ScheduleNext_EventDriven", r)>>)
  BY <1>1 DEF ScheduleNext, NextEvent
<1>3. "ScheduleNext_EventDriven" \in Fns /\ "ScheduleNext_EventDriven" \in Paired
  BY FnNames DEF Paired
<1>4. Effect(r, f, "ScheduleNext_EventDriven", Held(v, f, h[r], "ScheduleNext_EventDriven"))
  BY <1>1, <1>2, <1>3, HandleEffect
<1>5. After(f, v, s, i, conf) = Held(v, f, h[r], "ScheduleNext_EventDriven")
  BY <1>1 DEF After
<1> QED BY <1>3, <1>4, <1>5 DEF Ran

LEMMA FwdRecvRan ==
  ASSUME DP = 2, Shape, conf \in EventConf, NEW s \in Stages, NEW i \in 0..1, NEW r, r = 2*s + i,
         RankOK(View(r), s, i, conf), OnP2PFwdRecv_EventDriven(r)
  PROVE  Ran(r, "OnP2PFwdRecv_EventDriven", s, i)
<1> DEFINE v == View(r)
           f == "OnP2PFwdRecv_EventDriven"
<1>0. AtRank(r, s, i)
  BY Running
<1>1. /\ r \in Rank /\ conf.mode = 0
      /\ v.h = h[r] /\ v.cc = cc[r] /\ IsHybridCC(h[r]) /\ p2pQp[r] \in Nat
      /\ (IsFirst(r) <=> s = 0) /\ (IsLast(r) <=> s = PP - 1)
      /\ Stage(r) = s /\ RankInGroup(r) = i
  BY <1>0 DEF AtRank
<1>2. Handle([h[r] EXCEPT !.fwdReady = @ + 1], r, <<Ev("ScheduleNext_EventDriven", r)>>)
  BY <1>1 DEF OnP2PFwdRecv_EventDriven, NextEvent
<1>3. "ScheduleNext_EventDriven" \in Fns /\ "ScheduleNext_EventDriven" \in Paired
  BY FnNames DEF Paired
<1>4. Effect(r, f, "ScheduleNext_EventDriven", Held(v, f, [h[r] EXCEPT !.fwdReady = @ + 1], "ScheduleNext_EventDriven"))
  BY <1>1, <1>2, <1>3, HandleEffect
<1>5. After(f, v, s, i, conf) = Held(v, f, [h[r] EXCEPT !.fwdReady = @ + 1], "ScheduleNext_EventDriven")
  BY <1>1 DEF After
<1> QED BY <1>3, <1>4, <1>5 DEF Ran

LEMMA BwdRecvRan ==
  ASSUME DP = 2, Shape, conf \in EventConf, NEW s \in Stages, NEW i \in 0..1, NEW r, r = 2*s + i,
         RankOK(View(r), s, i, conf), OnP2PBwdRecv_EventDriven(r)
  PROVE  Ran(r, "OnP2PBwdRecv_EventDriven", s, i)
<1> DEFINE v == View(r)
           f == "OnP2PBwdRecv_EventDriven"
<1>0. AtRank(r, s, i)
  BY Running
<1>1. /\ r \in Rank /\ conf.mode = 0
      /\ v.h = h[r] /\ v.cc = cc[r] /\ IsHybridCC(h[r]) /\ p2pQp[r] \in Nat
      /\ (IsFirst(r) <=> s = 0) /\ (IsLast(r) <=> s = PP - 1)
      /\ Stage(r) = s /\ RankInGroup(r) = i
  BY <1>0 DEF AtRank
<1>2. Handle([h[r] EXCEPT !.bwdReady = @ + 1], r, <<Ev("ScheduleNext_EventDriven", r)>>)
  BY <1>1 DEF OnP2PBwdRecv_EventDriven, NextEvent
<1>3. "ScheduleNext_EventDriven" \in Fns /\ "ScheduleNext_EventDriven" \in Paired
  BY FnNames DEF Paired
<1>4. Effect(r, f, "ScheduleNext_EventDriven", Held(v, f, [h[r] EXCEPT !.bwdReady = @ + 1], "ScheduleNext_EventDriven"))
  BY <1>1, <1>2, <1>3, HandleEffect
<1>5. After(f, v, s, i, conf) = Held(v, f, [h[r] EXCEPT !.bwdReady = @ + 1], "ScheduleNext_EventDriven")
  BY <1>1 DEF After
<1> QED BY <1>3, <1>4, <1>5 DEF Ran

LEMMA FwdCompleteRan ==
  ASSUME DP = 2, Shape, conf \in EventConf, NEW s \in Stages, NEW i \in 0..1, NEW r, r = 2*s + i,
         RankOK(View(r), s, i, conf), OnP2PFwdComplete(r)
  PROVE  Ran(r, "OnP2PFwdComplete", s, i)
<1> DEFINE v == View(r)
           f == "OnP2PFwdComplete"
<1>0. AtRank(r, s, i)
  BY Running
<1>1. /\ r \in Rank /\ conf.mode = 0
      /\ v.h = h[r] /\ v.cc = cc[r] /\ IsHybridCC(h[r]) /\ p2pQp[r] \in Nat
      /\ (IsFirst(r) <=> s = 0) /\ (IsLast(r) <=> s = PP - 1)
      /\ Stage(r) = s /\ RankInGroup(r) = i
  BY <1>0 DEF AtRank
<1>2. Finish(r, [h[r] EXCEPT !.inflight = Dec16(@)])
  BY <1>1 DEF OnP2PFwdComplete
<1>3. Effect(r, f, "ScheduleNext", Frees(v, f, [h[r] EXCEPT !.inflight = Dec16(@)]))
  BY <1>1, <1>2, FinishEffect
<1>4. After(f, v, s, i, conf) = Frees(v, f, [h[r] EXCEPT !.inflight = Dec16(@)])
  BY <1>1 DEF After
<1> QED BY <1>3, <1>4 DEF Ran, Paired

LEMMA BwdCompleteRan ==
  ASSUME DP = 2, Shape, conf \in EventConf, NEW s \in Stages, NEW i \in 0..1, NEW r, r = 2*s + i,
         RankOK(View(r), s, i, conf), OnP2PBwdComplete(r)
  PROVE  Ran(r, "OnP2PBwdComplete", s, i)
<1> DEFINE v == View(r)
           f == "OnP2PBwdComplete"
<1>0. AtRank(r, s, i)
  BY Running
<1>1. /\ r \in Rank /\ conf.mode = 0
      /\ v.h = h[r] /\ v.cc = cc[r] /\ IsHybridCC(h[r]) /\ p2pQp[r] \in Nat
      /\ (IsFirst(r) <=> s = 0) /\ (IsLast(r) <=> s = PP - 1)
      /\ Stage(r) = s /\ RankInGroup(r) = i
  BY <1>0 DEF AtRank
<1>2. Finish(r, h[r])
  BY <1>1 DEF OnP2PBwdComplete
<1>3. Effect(r, f, "ScheduleNext", Frees(v, f, h[r]))
  BY <1>1, <1>2, FinishEffect
<1>4. After(f, v, s, i, conf) = Frees(v, f, h[r])
  BY <1>1 DEF After
<1> QED BY <1>3, <1>4 DEF Ran, Paired

LEMMA Bwd1Ran ==
  ASSUME DP = 2, Shape, conf \in EventConf, NEW s \in Stages, NEW i \in 0..1, NEW r, r = 2*s + i,
         RankOK(View(r), s, i, conf), OnBwdCompute1Done(r)
  PROVE  Ran(r, "OnBwdCompute1Done", s, i)
<1> DEFINE v == View(r)
           f == "OnBwdCompute1Done"
<1>0. AtRank(r, s, i)
  BY Running
<1>1. /\ r \in Rank /\ conf.mode = 0
      /\ v.h = h[r] /\ v.cc = cc[r] /\ IsHybridCC(h[r]) /\ p2pQp[r] \in Nat
      /\ (IsFirst(r) <=> s = 0) /\ (IsLast(r) <=> s = PP - 1)
      /\ Stage(r) = s /\ RankInGroup(r) = i
  BY <1>0 DEF AtRank
<1> DEFINE hr == [h[r] EXCEPT !.phase = "BWD_RS", !.cb = "OnBwdRSComplete"]
<1>2. Collect(r, Ring(i, 2, 1), hr)
  BY <1>1 DEF OnBwdCompute1Done, ReduceScatter
<1>3. Effect(r, f, "RdmaStart", Collects(v, f, i, hr))
  BY <1>1, <1>2, CollectEffect
<1>4. After(f, v, s, i, conf) = Collects(v, f, i, hr)
  BY <1>1 DEF After
<1> QED BY <1>3, <1>4 DEF Ran, Paired

LEMMA Bwd2Ran ==
  ASSUME DP = 2, Shape, conf \in EventConf, NEW s \in Stages, NEW i \in 0..1, NEW r, r = 2*s + i,
         RankOK(View(r), s, i, conf), OnBwdCompute2Done(r)
  PROVE  Ran(r, "OnBwdCompute2Done", s, i)
<1> DEFINE v == View(r)
           f == "OnBwdCompute2Done"
<1>0. AtRank(r, s, i)
  BY Running
<1>1. /\ r \in Rank /\ conf.mode = 0
      /\ v.h = h[r] /\ v.cc = cc[r] /\ IsHybridCC(h[r]) /\ p2pQp[r] \in Nat
      /\ (IsFirst(r) <=> s = 0) /\ (IsLast(r) <=> s = PP - 1)
      /\ Stage(r) = s /\ RankInGroup(r) = i
  BY <1>0 DEF AtRank
<1>2. CASE s = 0
  <2>1. Finish(r, h[r])
    BY <1>1, <1>2 DEF OnBwdCompute2Done
  <2>2. Effect(r, f, "ScheduleNext", Frees(v, f, h[r]))
    BY <1>1, <2>1, FinishEffect
  <2>3. After(f, v, s, i, conf) = Frees(v, f, h[r])
    BY <1>1, <1>2 DEF After
  <2> QED BY <2>2, <2>3 DEF Ran, Paired
<1>3. CASE s # 0
  <2>1. SendP2P(r, "BWD_P2P", FALSE)
    BY <1>1, <1>3 DEF OnBwdCompute2Done
  <2>2. Effect(r, f, "None", Posts(v, f, "BWD_P2P", FALSE))
    BY <1>1, <2>1, SendEffect
  <2>3. After(f, v, s, i, conf) = Posts(v, f, "BWD_P2P", FALSE)
    BY <1>1, <1>3 DEF After
  <2> QED BY <2>2, <2>3 DEF Ran
<1> QED BY <1>2, <1>3

LEMMA FwdComputedRan ==
  ASSUME DP = 2, Shape, conf \in EventConf, NEW s \in Stages, NEW i \in 0..1, NEW r, r = 2*s + i,
         RankOK(View(r), s, i, conf), OnFwdComputeDone(r)
  PROVE  Ran(r, "OnFwdComputeDone", s, i)
<1> DEFINE v == View(r)
           f == "OnFwdComputeDone"
<1>0. AtRank(r, s, i)
  BY Running
<1>1. /\ r \in Rank /\ conf.mode = 0
      /\ v.h = h[r] /\ v.cc = cc[r] /\ IsHybridCC(h[r]) /\ p2pQp[r] \in Nat
      /\ (IsFirst(r) <=> s = 0) /\ (IsLast(r) <=> s = PP - 1)
      /\ Stage(r) = s /\ RankInGroup(r) = i
  BY <1>0 DEF AtRank
<1>2. CASE s = PP - 1
  <2> DEFINE hr == [h[r] EXCEPT !.inflight = Dec16(@), !.bwdReady = IF conf.train THEN @ + 1 ELSE @]
             h0 == [h[r] EXCEPT !.inflight = Dec16(@)]
  <2>1. Finish(r, IF ~conf.train THEN h0 ELSE [h0 EXCEPT !.bwdReady = @ + 1])
    BY <1>1, <1>2 DEF OnFwdComputeDone
  <2>2. (IF ~conf.train THEN h0 ELSE [h0 EXCEPT !.bwdReady = @ + 1]) = hr
    BY <1>1 DEF IsHybridCC, Fields
  <2>3. Finish(r, hr)
    BY <2>1, <2>2, Zenon
  <2>4. Effect(r, f, "ScheduleNext", Frees(v, f, hr))
    BY <1>1, <2>3, FinishEffect
  <2>5. After(f, v, s, i, conf) = Frees(v, f, hr)
    BY <1>1, <1>2 DEF After
  <2> QED BY <2>4, <2>5 DEF Ran, Paired
<1>3. CASE s # PP - 1
  <2>1. SendP2P(r, "FWD_P2P", TRUE)
    BY <1>1, <1>3 DEF OnFwdComputeDone
  <2>2. Effect(r, f, "None", Posts(v, f, "FWD_P2P", TRUE))
    BY <1>1, <2>1, SendEffect
  <2>3. After(f, v, s, i, conf) = Posts(v, f, "FWD_P2P", TRUE)
    BY <1>1, <1>3 DEF After
  <2> QED BY <2>2, <2>3 DEF Ran
<1> QED BY <1>2, <1>3

LEMMA RdmaStartRan ==
  ASSUME DP = 2, Shape, conf \in EventConf, NEW s \in Stages, NEW i \in 0..1, NEW r, r = 2*s + i,
         RankOK(View(r), s, i, conf), RdmaStart(r)
  PROVE  Ran(r, "RdmaStart", s, i)
<1> DEFINE v == View(r)
           f == "RdmaStart"
<1>0. AtRank(r, s, i)
  BY Running
<1>1. /\ r \in Rank /\ conf.mode = 0
      /\ v.h = h[r] /\ v.cc = cc[r] /\ IsHybridCC(h[r]) /\ p2pQp[r] \in Nat
      /\ (IsFirst(r) <=> s = 0) /\ (IsLast(r) <=> s = PP - 1)
      /\ Stage(r) = s /\ RankInGroup(r) = i
  BY <1>0 DEF AtRank
<1>2. v.n[f] # 0
  BY <1>0, FnNames DEF RdmaStart, AtRank
<1>3. v.cc = Ring(i, 2, 1)
  BY <1>2 DEF RankOK, RingOK
<1> DEFINE o == Outcome(At(cc[r], 1, 1, 0), 1, 0)
           x == Moved(v, f, v.h, At(v.cc, 1, 1, 0), v.rq + 1, v.pq, "None")
<1>4. StartApplication(cc[r]) = o
  BY <1>1, <1>3, EndpointTwo
<1>5. o.cc = At(cc[r], 1, 1, 0) /\ o.send = 1 /\ o.done = 0
  BY DEF Outcome
<1> HIDE DEF o
<1>6. /\ cc' = [cc EXCEPT ![r] = o.cc]
      /\ ringQp' = [ringQp EXCEPT ![r] = @ + o.send]
      /\ h' = Completed({q \in {r} : o.done = 1})
      /\ timer' = ArmFor(timer, r, o.done = 1)
      /\ Then(<< >>) /\ p2pQp' = p2pQp
  BY <1>4 DEF RdmaStart
<1>7. h' = h
  <2>1. h' = [q \in Rank |-> h[q]]
    BY <1>5, <1>6 DEF Completed
  <2> QED BY <2>1 DEF Shape
<1>8. timer' = timer /\ events' = Tail(events) \o << >> /\ arrived' = None
  BY <1>5, <1>6 DEF ArmFor, Then
<1>9. x.h = h[r] /\ x.cc = At(cc[r], 1, 1, 0) /\ x.rq = ringQp[r] + 1 /\ x.pq = p2pQp[r]
  BY DEF Moved, View
<1>10. x = Moved(v, f, x.h, x.cc, x.rq, x.pq, "None")
  BY <1>9 DEF View
<1>11. x = After(f, v, s, i, conf)
  BY DEF After
<1>12. Out("None", r) = << >>
  BY DEF Out
<1> HIDE DEF x
<1>13. h = [h EXCEPT ![r] = h[r]] /\ p2pQp = [p2pQp EXCEPT ![r] = p2pQp[r]]
  BY DEF Shape
<1>14. Effect(r, f, "None", x)
  <2> HIDE DEF f
  <2> QED BY <1>5, <1>6, <1>7, <1>8, <1>9, <1>10, <1>12, <1>13 DEF Effect
<1> QED BY <1>11, <1>14 DEF Ran

LEMMA EventRan ==
  ASSUME DP = 2, Shape, conf \in EventConf, NEW s \in Stages, NEW i \in 0..1, NEW r, r = 2*s + i,
         RankOK(View(r), s, i, conf), ScheduleNext_EventDriven(r)
  PROVE  Ran(r, "ScheduleNext_EventDriven", s, i)
<1> DEFINE v == View(r)
           f == "ScheduleNext_EventDriven"
<1>0. AtRank(r, s, i)
  BY Running
<1>1. /\ r \in Rank /\ conf.mode = 0
      /\ v.h = h[r] /\ v.cc = cc[r] /\ IsHybridCC(h[r]) /\ p2pQp[r] \in Nat
      /\ (IsFirst(r) <=> s = 0) /\ (IsLast(r) <=> s = PP - 1)
      /\ Stage(r) = s /\ RankInGroup(r) = i
  BY <1>0 DEF AtRank
<1> DEFINE hr == h[r]
           b == [hr EXCEPT !.bwdReady = @ - 1, !.bwdIdx = @ + 1, !.chunk = hr.bwdIdx,
                           !.phase = "BWD_AG", !.busy = TRUE, !.cb = "OnBwdAGComplete"]
           w == [hr EXCEPT !.fwdReady = @ - 1, !.inflight = @ + 1, !.fwdIdx = @ + 1,
                           !.chunk = hr.fwdIdx,
                           !.phase = "FWD_AG", !.busy = TRUE, !.cb = "OnFwdAGComplete"]
<1>2. /\ (AllDone(hr) <=> AllDoneC(hr, conf)) /\ (CanBackward(hr) <=> CanBackwardC(hr, conf))
      /\ (CanForward(hr) <=> CanForwardC(hr, conf))
  BY DEF AllDone, AllDoneC, CanBackward, CanBackwardC, CanForward, CanForwardC
<1>3. After(f, v, s, i, conf) = Schedules(v, i, conf)
  BY DEF After
<1>4. CASE hr.busy
  <2>1. Handle(hr, r, << >>)
    BY <1>4 DEF ScheduleNext_EventDriven
  <2>2. Effect(r, f, "None", Held(v, f, hr, "None"))
    BY <1>1, <2>1, HandleOnly
  <2>3. Schedules(v, i, conf) = Held(v, f, hr, "None")
    BY <1>1, <1>4 DEF Schedules
  <2> QED BY <1>3, <2>2, <2>3 DEF Ran
<1>5. CASE ~hr.busy /\ AllDone(hr)
  <2>1. Handle([hr EXCEPT !.phase = "DONE"], r, << >>)
    BY <1>5 DEF ScheduleNext_EventDriven
  <2>2. Effect(r, f, "None", Held(v, f, [hr EXCEPT !.phase = "DONE"], "None"))
    BY <1>1, <2>1, HandleOnly
  <2>3. Schedules(v, i, conf) = Held(v, f, [hr EXCEPT !.phase = "DONE"], "None")
    BY <1>1, <1>2, <1>5 DEF Schedules
  <2> QED BY <1>3, <2>2, <2>3 DEF Ran
<1>6. CASE ~hr.busy /\ ~AllDone(hr) /\ CanBackward(hr)
  <2>1. Backward(r, [hr EXCEPT !.bwdReady = @ - 1, !.bwdIdx = @ + 1], hr.bwdIdx)
    BY <1>6 DEF ScheduleNext_EventDriven
  <2>2. Collect(r, Ring(i, 2, 1), b)
    <3>1. [[hr EXCEPT !.bwdReady = @ - 1, !.bwdIdx = @ + 1] EXCEPT
             !.chunk = hr.bwdIdx, !.phase = "BWD_AG", !.busy = TRUE, !.cb = "OnBwdAGComplete"] = b
      BY <1>1 DEF IsHybridCC, Fields
    <3> HIDE DEF b
    <3>2. Allgather(RankInGroup(r), DP) = Ring(i, 2, 1)
      BY <1>1 DEF Allgather
    <3> QED BY <2>1, <3>1, <3>2, Zenon DEF Backward
  <2>3. Effect(r, f, "RdmaStart", Collects(v, f, i, b))
    BY <1>1, <2>2, CollectEffect
  <2>4. Schedules(v, i, conf) = Collects(v, f, i, b)
    BY <1>1, <1>2, <1>6 DEF Schedules
  <2> QED BY <1>3, <2>3, <2>4 DEF Ran, Paired
<1>7. CASE ~hr.busy /\ ~AllDone(hr) /\ ~CanBackward(hr) /\ CanForward(hr)
  <2>1. Forward(r, [hr EXCEPT !.fwdReady = @ - 1, !.inflight = @ + 1, !.fwdIdx = @ + 1], hr.fwdIdx)
    BY <1>7 DEF ScheduleNext_EventDriven
  <2>2. Collect(r, Ring(i, 2, 1), w)
    <3>1. [[hr EXCEPT !.fwdReady = @ - 1, !.inflight = @ + 1, !.fwdIdx = @ + 1] EXCEPT
             !.chunk = hr.fwdIdx, !.phase = "FWD_AG", !.busy = TRUE, !.cb = "OnFwdAGComplete"] = w
      BY <1>1 DEF IsHybridCC, Fields
    <3> HIDE DEF w
    <3>2. Allgather(RankInGroup(r), DP) = Ring(i, 2, 1)
      BY <1>1 DEF Allgather
    <3> QED BY <2>1, <3>1, <3>2, Zenon DEF Forward
  <2>3. Effect(r, f, "RdmaStart", Collects(v, f, i, w))
    BY <1>1, <2>2, CollectEffect
  <2>4. Schedules(v, i, conf) = Collects(v, f, i, w)
    BY <1>1, <1>2, <1>7 DEF Schedules
  <2> QED BY <1>3, <2>3, <2>4 DEF Ran, Paired
<1>8. CASE ~hr.busy /\ ~AllDone(hr) /\ ~CanBackward(hr) /\ ~CanForward(hr)
  <2>1. Handle(hr, r, << >>)
    BY <1>8 DEF ScheduleNext_EventDriven
  <2>2. Effect(r, f, "None", Held(v, f, hr, "None"))
    BY <1>1, <2>1, HandleOnly
  <2>3. Schedules(v, i, conf) = Held(v, f, hr, "None")
    BY <1>1, <1>2, <1>8 DEF Schedules
  <2> QED BY <1>3, <2>2, <2>3 DEF Ran
<1> QED BY <1>4, <1>5, <1>6, <1>7, <1>8

\* The handler that runs is that of the first event.
LEMMA DueIs ==
  ASSUME NEW r, Handlers(r)
  PROVE  events # << >> /\ Head(events).rank = r
BY DEF Handlers, Due, HybridStart, ScheduleNext, ScheduleNext_EventDriven, RdmaStart, OnFwdComputeDone, OnBwdCompute1Done, OnBwdCompute2Done, OnP2PFwdComplete, OnP2PBwdComplete, OnP2PFwdRecv_EventDriven, OnP2PBwdRecv_EventDriven, ExecuteNextEntry, RingSendFinish, OnP2PSendComplete, OnP2PFwdStep, OnP2PFwdRecv, OnP2PBwdStep, OnP2PBwdRecv, OnP2PFwdRecv_Static, OnP2PBwdRecv_Static

LEMMA PairedHandler ==
  ASSUME NEW r, Handlers(r), Head(events).fn \in Paired
  PROVE  \/ HybridStart(r) /\ Head(events).fn = "StartApplication"
         \/ ScheduleNext(r) /\ Head(events).fn = "ScheduleNext"
         \/ ScheduleNext_EventDriven(r) /\ Head(events).fn = "ScheduleNext_EventDriven"
         \/ RdmaStart(r) /\ Head(events).fn = "RdmaStart"
         \/ OnFwdComputeDone(r) /\ Head(events).fn = "OnFwdComputeDone"
         \/ OnBwdCompute1Done(r) /\ Head(events).fn = "OnBwdCompute1Done"
         \/ OnBwdCompute2Done(r) /\ Head(events).fn = "OnBwdCompute2Done"
         \/ OnP2PFwdComplete(r) /\ Head(events).fn = "OnP2PFwdComplete"
         \/ OnP2PBwdComplete(r) /\ Head(events).fn = "OnP2PBwdComplete"
         \/ OnP2PFwdRecv_EventDriven(r) /\ Head(events).fn = "OnP2PFwdRecv_EventDriven"
         \/ OnP2PBwdRecv_EventDriven(r) /\ Head(events).fn = "OnP2PBwdRecv_EventDriven"
<1>1. /\ Head(events).fn \notin {"ExecuteNextEntry", "OnP2PFwdRecv_Static", "OnP2PBwdRecv_Static"}
      /\ Head(events).fn \notin Singles
  BY Names DEF Paired
<1>2. ~ExecuteNextEntry(r)
  BY <1>1 DEF ExecuteNextEntry, Due, Singles, Leaders
<1>3. ~RingSendFinish(r)
  BY <1>1 DEF RingSendFinish, Due, Singles, Leaders
<1>4. ~OnP2PSendComplete(r)
  BY <1>1 DEF OnP2PSendComplete, Due, Singles, Leaders
<1>5. ~OnP2PFwdStep(r)
  BY <1>1 DEF OnP2PFwdStep, Due, Singles, Leaders
<1>6. ~OnP2PFwdRecv(r)
  BY <1>1 DEF OnP2PFwdRecv, Due, Singles, Leaders
<1>7. ~OnP2PBwdStep(r)
  BY <1>1 DEF OnP2PBwdStep, Due, Singles, Leaders
<1>8. ~OnP2PBwdRecv(r)
  BY <1>1 DEF OnP2PBwdRecv, Due, Singles, Leaders
<1>9. ~OnP2PFwdRecv_Static(r)
  BY <1>1 DEF OnP2PFwdRecv_Static, Due, Singles, Leaders
<1>10. ~OnP2PBwdRecv_Static(r)
  BY <1>1 DEF OnP2PBwdRecv_Static, Due, Singles, Leaders
<1>11. HybridStart(r) => Head(events).fn = "StartApplication"
  BY DEF HybridStart, Due
<1>12. ScheduleNext(r) => Head(events).fn = "ScheduleNext"
  BY DEF ScheduleNext, Due
<1>13. ScheduleNext_EventDriven(r) => Head(events).fn = "ScheduleNext_EventDriven"
  BY DEF ScheduleNext_EventDriven, Due
<1>14. RdmaStart(r) => Head(events).fn = "RdmaStart"
  BY DEF RdmaStart, Due
<1>15. OnFwdComputeDone(r) => Head(events).fn = "OnFwdComputeDone"
  BY DEF OnFwdComputeDone, Due
<1>16. OnBwdCompute1Done(r) => Head(events).fn = "OnBwdCompute1Done"
  BY DEF OnBwdCompute1Done, Due
<1>17. OnBwdCompute2Done(r) => Head(events).fn = "OnBwdCompute2Done"
  BY DEF OnBwdCompute2Done, Due
<1>18. OnP2PFwdComplete(r) => Head(events).fn = "OnP2PFwdComplete"
  BY DEF OnP2PFwdComplete, Due
<1>19. OnP2PBwdComplete(r) => Head(events).fn = "OnP2PBwdComplete"
  BY DEF OnP2PBwdComplete, Due
<1>20. OnP2PFwdRecv_EventDriven(r) => Head(events).fn = "OnP2PFwdRecv_EventDriven"
  BY DEF OnP2PFwdRecv_EventDriven, Due
<1>21. OnP2PBwdRecv_EventDriven(r) => Head(events).fn = "OnP2PBwdRecv_EventDriven"
  BY DEF OnP2PBwdRecv_EventDriven, Due
<1> QED BY <1>2, <1>3, <1>4, <1>5, <1>6, <1>7, <1>8, <1>9, <1>10, <1>11, <1>12, <1>13, <1>14, <1>15, <1>16, <1>17, <1>18, <1>19, <1>20, <1>21 DEF Handlers

LEMMA PairedRan ==
  ASSUME DP = 2, Shape, conf \in EventConf, NEW s \in Stages, NEW i \in 0..1, NEW r, r = 2*s + i,
         RankOK(View(r), s, i, conf), Handlers(r), Head(events).fn \in Paired
  PROVE  Ran(r, Head(events).fn, s, i)
<1>1. CASE HybridStart(r) /\ Head(events).fn = "StartApplication"
  BY <1>1, StartRan
<1>2. CASE ScheduleNext(r) /\ Head(events).fn = "ScheduleNext"
  BY <1>2, ScheduleRan
<1>3. CASE ScheduleNext_EventDriven(r) /\ Head(events).fn = "ScheduleNext_EventDriven"
  BY <1>3, EventRan
<1>4. CASE RdmaStart(r) /\ Head(events).fn = "RdmaStart"
  BY <1>4, RdmaStartRan
<1>5. CASE OnFwdComputeDone(r) /\ Head(events).fn = "OnFwdComputeDone"
  BY <1>5, FwdComputedRan
<1>6. CASE OnBwdCompute1Done(r) /\ Head(events).fn = "OnBwdCompute1Done"
  BY <1>6, Bwd1Ran
<1>7. CASE OnBwdCompute2Done(r) /\ Head(events).fn = "OnBwdCompute2Done"
  BY <1>7, Bwd2Ran
<1>8. CASE OnP2PFwdComplete(r) /\ Head(events).fn = "OnP2PFwdComplete"
  BY <1>8, FwdCompleteRan
<1>9. CASE OnP2PBwdComplete(r) /\ Head(events).fn = "OnP2PBwdComplete"
  BY <1>9, BwdCompleteRan
<1>10. CASE OnP2PFwdRecv_EventDriven(r) /\ Head(events).fn = "OnP2PFwdRecv_EventDriven"
  BY <1>10, FwdRecvRan
<1>11. CASE OnP2PBwdRecv_EventDriven(r) /\ Head(events).fn = "OnP2PBwdRecv_EventDriven"
  BY <1>11, BwdRecvRan
<1> QED BY PairedHandler, <1>1, <1>2, <1>3, <1>4, <1>5, <1>6, <1>7, <1>8, <1>9, <1>10, <1>11

-----------------------------------------------------------------------------
(***************************************************************************)
(* The events of the two ranks of a group are next to each other.  Between *)
(* the two handlers the group is Halfway: rank 2*s + i has run its event f *)
(* from the view u, and its mate is about to.                              *)
(***************************************************************************)
Settled == Aligned(events) /\ AllOK(Views, conf)

Half(u, s, i, f, g, e, rest) ==
  /\ AllOK([Views EXCEPT ![2*s + i] = u], conf)
  /\ u.n[f] # 0
  /\ View(2*s + i) = After(f, u, s, i, conf)
  /\ \A k \in Fns : View(2*s + i).n[k] = u.n[k] - One(k = f) + One(k = g)
  /\ e.fn = f /\ e.rank = 2*s + (1 - i)
  /\ events = <<e>> \o (rest \o Out(g, 2*s + i))
  /\ Aligned(rest)
  /\ arrived = None

Halfway ==
  \E u : \E s \in Stages, i \in 0..1, f \in Paired, g \in Paired \cup {"None"},
            e \in Events, rest \in Seq(Events) : Half(u, s, i, f, g, e, rest)

LEMMA RankOfAll ==
  ASSUME NEW V, NEW c, AllOK(V, c), NEW s \in Stages, NEW i \in 0..1
  PROVE  RankOK(V[2*s + i], s, i, c)
<1>1. RankOK(V[2*s], s, 0, c) /\ RankOK(V[2*s + 1], s, 1, c)
  BY DEF AllOK, StageOK
<1>2. s \in Int
  BY DEF Stages
<1>3. i = 0 => 2*s + i = 2*s
  BY <1>2
<1>4. i = 0 \/ i = 1
  OBVIOUS
<1> QED BY <1>1, <1>3, <1>4

LEMMA FirstOfPair ==
  ASSUME DP = 2, Shape, conf \in EventConf, conf' = conf, Settled, NEW r \in Rank, Handlers(r),
         Head(events).fn \in Paired
  PROVE  Shape' /\ Halfway'
<1>u. PICK u : u = View(r)
  OBVIOUS
<1>f. PICK f \in Paired : f = Head(events).fn
  OBVIOUS
<1>1. PICK s \in Stages, i \in 0..1 : r = 2*s + i
  BY RankForm
<1>2. /\ events # << >> /\ Head(events).rank = r /\ events \in Seq(Events)
      /\ Aligned(events) /\ AllOK(Views, conf) /\ f \in Fns
  BY <1>f, DueIs DEF Shape, Settled, Fns
<1>3. Views[r] = u
  BY <1>u DEF Views
<1>4. RankOK(u, s, i, conf)
  <2>1. RankOK(Views[2*s + i], s, i, conf)
    BY <1>2, RankOfAll
  <2> QED BY <2>1, <1>1, <1>3
<1>5. Due(f, r)
  BY <1>2, <1>f DEF Due
<1>6. u.n[f] # 0
  BY <1>2, <1>5, <1>u, ViewTokens
<1>7. Ran(r, f, s, i)
  BY <1>1, <1>4, <1>f, <1>u, PairedRan
<1> DEFINE x == After(f, u, s, i, conf)
<1>8. PICK g \in Paired \cup {"None"} : Effect(r, f, g, x)
  BY <1>7, <1>u DEF Ran
<1> HIDE DEF x
<1>9. /\ View(r)' = x /\ \A q \in Rank : q # r => View(q)' = View(q)
      /\ Shape'
  BY <1>2, <1>5, <1>8, EffectViews
<1>10. PICK e \in Events, rest \in Seq(Events) :
           /\ e.fn = Head(events).fn /\ e.rank = Mate(Head(events).rank)
           /\ Tail(events) = <<e>> \o rest /\ Aligned(rest)
  BY <1>2, AlignedMates
<1>11. [Views' EXCEPT ![r] = u] = Views
  <2>1. Views' = [q \in Rank |-> View(q)']
    BY DEF Views
  <2>2. Views = [q \in Rank |-> View(q)]
    BY DEF Views
  <2> QED BY <1>9, <1>u, <2>1, <2>2
<1>12. \A k \in Fns : x.n[k] = u.n[k] - One(k = f) + One(k = g)
  <2>1. x = Moved(u, f, x.h, x.cc, x.rq, x.pq, g)
    BY <1>8, <1>u DEF Effect
  <2>2. x.n = [k \in Fns |-> u.n[k] - One(k = f) + One(k = g)]
    BY <2>1 DEF Moved
  <2> QED BY <2>2
<1>13. e.fn = f /\ e.rank = 2*s + (1 - i)
  <2>1. Mate(r) = 2*s + (1 - i)
    BY SMTT(30), <1>1, RankOf
  <2> QED BY <1>2, <1>10, <1>f, <2>1
<1>14. events' = <<e>> \o (rest \o Out(g, r)) /\ arrived' = None
  <2> DEFINE o == Out(g, r)
  <2>1. o \in Seq(Events)
    BY OutIs
  <2>2. events' = Tail(events) \o o /\ arrived' = None
    BY <1>8 DEF Effect
  <2> HIDE DEF o
  <2>3. (<<e>> \o rest) \o o = <<e>> \o (rest \o o)
    BY <2>1
  <2> QED BY <1>10, <2>2, <2>3 DEF o
<1>15. Half(u, s, i, f, g, e, rest)'
  <2>1. AllOK([Views' EXCEPT ![2*s + i] = u], conf')
    BY <1>1, <1>2, <1>11
  <2>2. View(2*s + i)' = After(f, u, s, i, conf')
    BY <1>1, <1>9 DEF x
  <2>3. \A k \in Fns : View(2*s + i)'.n[k] = u.n[k] - One(k = f) + One(k = g)
    BY <1>1, <1>9, <1>12
  <2>4. events' = <<e>> \o (rest \o Out(g, 2*s + i))
    BY <1>1, <1>14
  <2> SUFFICES ASSUME TRUE PROVE
      /\ AllOK([Views' EXCEPT ![2*s + i] = u], conf')
      /\ u.n[f] # 0
      /\ View(2*s + i)' = After(f, u, s, i, conf')
      /\ \A k \in Fns : View(2*s + i)'.n[k] = u.n[k] - One(k = f) + One(k = g)
      /\ e.fn = f /\ e.rank = 2*s + (1 - i)
      /\ events' = <<e>> \o (rest \o Out(g, 2*s + i))
      /\ Aligned(rest)
      /\ arrived' = None
    BY DEF Half
  <2> QED BY <1>6, <1>10, <1>13, <1>14, <2>1, <2>2, <2>3, <2>4
<1> QED BY <1>9, <1>15 DEF Halfway

SameCounts(u, w) == \A k \in Paired : u.n[k] = w.n[k]
Shifted(u, x, f, g) == \A k \in Fns : x.n[k] = u.n[k] - One(k = f) + One(k = g)

LEMMA SameOut ==
  ASSUME NEW f, NEW g \in Paired \cup {"None"}, NEW d \in Paired \cup {"None"},
         NEW x, NEW y, NEW u, NEW w, u.n \in [Fns -> Nat],
         SameCounts(u, w), SameCounts(x, y), Shifted(u, x, f, g), Shifted(w, y, f, d)
  PROVE  g = d
<1>1. ASSUME NEW k \in Paired
      PROVE  One(k = g) = One(k = d)
  <2>1. k \in Fns
    BY DEF Fns
  <2>2. u.n[k] \in Nat /\ u.n[k] = w.n[k] /\ x.n[k] = y.n[k]
    BY <2>1 DEF SameCounts
  <2>3. One(k = f) \in Nat /\ One(k = g) \in Nat /\ One(k = d) \in Nat
    BY DEF One
  <2>4. /\ x.n[k] = u.n[k] - One(k = f) + One(k = g)
        /\ y.n[k] = w.n[k] - One(k = f) + One(k = d)
    BY <2>1 DEF Shifted
  <2> DEFINE n == u.n[k]
             m == x.n[k]
             of == One(k = f)
             og == One(k = g)
             od == One(k = d)
  <2>5. /\ n \in Nat /\ of \in Nat /\ og \in Nat /\ od \in Nat
        /\ m = n - of + og /\ m = n - of + od
    BY <2>2, <2>3, <2>4
  <2> HIDE DEF n, m, of, og, od
  <2>6. og = od
    BY <2>5
  <2> QED BY <2>6 DEF og, od
<1>2. \A k \in Paired : k = g <=> k = d
  BY <1>1 DEF One
<1> QED BY <1>2

LEMMA TwoSingles ==
  ASSUME NEW e, NEW d
  PROVE  <<e>> \o <<d>> = <<e, d>>
<1> DEFINE S == {e, d}
           p == <<e>>
           q == <<d>>
           t == <<e, d>>
<1>1. /\ p \in Seq(S) /\ Len(p) = 1 /\ p[1] = e
      /\ q \in Seq(S) /\ Len(q) = 1 /\ q[1] = d
      /\ t \in Seq(S) /\ Len(t) = 2 /\ t[1] = e /\ t[2] = d
  OBVIOUS
<1> HIDE DEF S, p, q, t
<1>2. p \o q \in Seq(S) /\ Len(p \o q) = 2 /\ (p \o q)[1] = e /\ (p \o q)[2] = d
  <2>1. /\ p \o q \in Seq(S) /\ Len(p \o q) = Len(p) + Len(q)
        /\ \A k \in 1 .. Len(p) + Len(q) :
             (p \o q)[k] = IF k <= Len(p) THEN p[k] ELSE q[k - Len(p)]
    BY <1>1, ConcatProperties
  <2> QED BY <1>1, <2>1
<1>3. \A k \in 1..2 : (p \o q)[k] = t[k]
  BY <1>1, <1>2
<1>4. p \o q = t
  BY <1>1, <1>2, <1>3, SeqEqual
<1> QED BY <1>4 DEF p, q, t

LEMMA MatesNext ==
  ASSUME NEW e \in Events, NEW d \in Events, e.fn \in Paired, d.fn = e.fn,
         d.rank = Mate(e.rank), NEW p, NEW q, p = <<e>>, q = <<d>>
  PROVE  Aligned(p \o q)
<1>1. p \o q = <<e, d>>
  BY TwoSingles
<1>2. Aligned(<<e, d>>)
  BY AlignedPair
<1> QED BY <1>1, <1>2

\* What both ranks of a group scheduled one after the other is aligned.
LEMMA OutsAligned ==
  ASSUME DP = 2, NEW s \in Stages, NEW i \in 0..1, NEW r, r = 2*s + i, NEW q, q = 2*s + (1 - i),
         NEW g \in Paired \cup {"None"}
  PROVE  Aligned(Out(g, r) \o Out(g, q)) /\ r \in Rank /\ q \in Rank /\ r # q
<1>1. r \in Rank /\ Mate(r) = q /\ q \in Rank /\ r # q
  BY RankOf
<1>2. CASE g = "None"
  <2>1. Out(g, r) \o Out(g, q) = << >>
    BY <1>2 DEF Out
  <2> QED BY <1>1, <2>1, AlignedEmpty
<1>3. CASE g # "None"
  <2>1. g \in Paired /\ g \in Fns
    BY <1>3 DEF Fns
  <2>2. Ev(g, r) \in Events /\ Ev(g, q) \in Events
    BY <1>1, <2>1 DEF Events, Ev, None
  <2>3. /\ Ev(g, r).fn = g /\ Ev(g, q).fn = g
        /\ Ev(g, r).rank = r /\ Ev(g, q).rank = q
    BY DEF Ev
  <2>4. Out(g, r) = <<Ev(g, r)>> /\ Out(g, q) = <<Ev(g, q)>>
    BY <1>3 DEF Out
  <2> DEFINE a == Ev(g, r)
             b == Ev(g, q)
             x == Out(g, r)
             y == Out(g, q)
  <2>5. a \in Events /\ b \in Events /\ a.fn \in Paired /\ b.fn = a.fn /\ b.rank = Mate(a.rank)
        /\ x = <<a>> /\ y = <<b>>
    BY <1>1, <2>1, <2>2, <2>3, <2>4
  <2> HIDE DEF a, b, x, y
  <2>6. Aligned(x \o y)
    BY <2>5, MatesNext
  <2> QED BY <1>1, <2>6 DEF x, y
<1> QED BY <1>2, <1>3

LEMMA SecondOfPair ==
  ASSUME DP = 2, Shape, conf \in EventConf, conf' = conf, Halfway, NEW r \in Rank, Handlers(r)
  PROVE  Shape' /\ Settled'
<1>1. PICK u : \E s \in Stages, i \in 0..1, f \in Paired, g \in Paired \cup {"None"},
                  e \in Events, rest \in Seq(Events) : Half(u, s, i, f, g, e, rest)
  BY DEF Halfway
<1>2. PICK s \in Stages, i \in 0..1, f \in Paired, g \in Paired \cup {"None"},
           e \in Events, rest \in Seq(Events) : Half(u, s, i, f, g, e, rest)
  BY <1>1
<1> DEFINE m == 2*s + i
           j == 1 - i
           q == 2*s + j
           V == [Views EXCEPT ![m] = u]
           c == conf
           x == After(f, u, s, i, c)
           w == View(q)
           y == After(f, w, s, j, c)
<1>3. /\ AllOK(V, c) /\ u.n[f] # 0 /\ View(m) = x
      /\ \A k \in Fns : x.n[k] = u.n[k] - One(k = f) + One(k = g)
      /\ e.fn = f /\ e.rank = q /\ events = <<e>> \o (rest \o Out(g, m)) /\ Aligned(rest)
  <2>1. /\ AllOK(V, c) /\ u.n[f] # 0 /\ View(m) = x
        /\ e.fn = f /\ e.rank = q /\ events = <<e>> \o (rest \o Out(g, m)) /\ Aligned(rest)
    BY <1>2 DEF Half
  <2>2. \A k \in Fns : View(m).n[k] = u.n[k] - One(k = f) + One(k = g)
    BY <1>2 DEF Half
  <2> QED BY <2>1, <2>2
<1>4. j \in 0..1 /\ m \in Rank /\ q \in Rank /\ m # q /\ 1 - j = i
  <2>1. m \in Rank /\ q \in Rank /\ m # q
    BY OutsAligned
  <2> QED BY <2>1
<1>5. Head(events) = e /\ Tail(events) = rest \o Out(g, m) /\ events \in Seq(Events)
  <2> DEFINE z == rest \o Out(g, m)
  <2>1. z \in Seq(Events)
    BY <1>4, OutIs
  <2>2. events = <<e>> \o z
    BY <1>3
  <2> HIDE DEF z
  <2>3. Head(<<e>> \o z) = e /\ Tail(<<e>> \o z) = z /\ <<e>> \o z \in Seq(Events)
    BY <2>1
  <2> QED BY <2>2, <2>3 DEF z
<1>6. r = q
  BY <1>3, <1>5, DueIs
<1>7. V[m] = u /\ V[q] = w
  BY <1>4 DEF Views
<1>8. RankOK(u, s, i, c) /\ RankOK(w, s, j, c)
  <2>1. RankOK(V[m], s, i, c) /\ RankOK(V[q], s, j, c)
    <3> HIDE DEF V, j, c
    <3>1. RankOK(V[2*s + i], s, i, c) /\ RankOK(V[2*s + j], s, j, c)
      BY <1>3, <1>4, RankOfAll
    <3> QED BY <3>1
  <2> QED BY <2>1, <1>7
<1>9. Due(f, q) /\ f \in Fns
  BY <1>3, <1>5, <1>6, DueIs DEF Due, Fns
<1>10. w.n[f] # 0
  BY <1>9, ViewTokens
<1>11. Ran(q, f, s, j)
  <2>1. Handlers(q) /\ Head(events).fn \in Paired /\ Head(events).fn = f
    BY <1>3, <1>5, <1>6
  <2> HIDE DEF j
  <2>2. Ran(q, Head(events).fn, s, j)
    BY <1>4, <1>8, <2>1, PairedRan
  <2> QED BY <2>1, <2>2
<1>12. PICK d \in Paired \cup {"None"} : Effect(q, f, d, y)
  BY <1>11 DEF Ran
<1> HIDE DEF x, y, w, V, c, j, q, m
<1>13. View(q)' = y /\ (\A n \in Rank : n # q => View(n)' = View(n)) /\ Shape'
  BY <1>4, <1>9, <1>12, EffectViews
<1>14. Views'[q] = y /\ Views'[m] = x /\ \A n \in Rank : n # q /\ n # m => Views'[n] = V[n]
  <2>1. Views' = [n \in Rank |-> View(n)']
    BY DEF Views
  <2>2. View(m)' = x
    BY <1>3, <1>4, <1>13
  <2>3. \A n \in Rank : n # m => V[n] = View(n)
    BY DEF V, Views
  <2> QED BY <1>4, <1>13, <2>1, <2>2, <2>3
<1>15. \A k \in Fns : y.n[k] = w.n[k] - One(k = f) + One(k = d)
  <2>1. y = Moved(w, f, y.h, y.cc, y.rq, y.pq, d)
    BY <1>12 DEF Effect, w
  <2>2. y.n = [k \in Fns |-> w.n[k] - One(k = f) + One(k = d)]
    BY <2>1 DEF Moved
  <2> QED BY <2>2
<1>16. s \in Nat
  BY DEF Stages
<1>17. /\ AllOK(Views', c)
       /\ \A k \in Paired : u.n[k] = w.n[k] /\ x.n[k] = y.n[k]
  <2>1. CASE i = 0
    <3>1. m = 2*s /\ q = 2*s + 1 /\ j = 1
      BY <1>16, <2>1 DEF m, q, j
    <3>2. StageOK(u, w, s, c)
      BY <1>3, <1>7, <3>1 DEF AllOK
    <3>3. x = After(f, u, s, 0, c) /\ y = After(f, w, s, 1, c)
      BY <2>1, <3>1 DEF x, y
    <3>4. StageOK(x, y, s, c) /\ SameLinks(u, x, s)
      BY <1>3, <1>10, <3>2, <3>3, PairStep DEF c
    <3>5. AllOK(Views', c)
      <4>1. Views'[2*s] = x /\ Views'[2*s + 1] = y /\ V[2*s] = u
        BY <1>7, <1>14, <3>1
      <4>2. StageOK(Views'[2*s], Views'[2*s + 1], s, c) /\ SameLinks(V[2*s], Views'[2*s], s)
        BY <3>4, <4>1
      <4>3. \A n \in Rank : n # 2*s /\ n # 2*s + 1 => Views'[n] = V[n]
        BY <1>14, <3>1
      <4> QED BY <1>3, <4>2, <4>3, StageMoves
    <3> QED BY <3>2, <3>4, <3>5 DEF StageOK, PairOK
  <2>2. CASE i = 1
    <3>1. m = 2*s + 1 /\ q = 2*s /\ j = 0
      BY <1>16, <2>2 DEF m, q, j
    <3>2. StageOK(w, u, s, c)
      BY <1>3, <1>7, <3>1 DEF AllOK
    <3>3. x = After(f, u, s, 1, c) /\ y = After(f, w, s, 0, c)
      BY <2>2, <3>1 DEF x, y
    <3>4. StageOK(y, x, s, c) /\ SameLinks(w, y, s)
      BY <1>3, <1>10, <3>2, <3>3, PairStep DEF c
    <3>5. AllOK(Views', c)
      <4>1. Views'[2*s] = y /\ Views'[2*s + 1] = x /\ V[2*s] = w
        BY <1>7, <1>14, <3>1
      <4>2. StageOK(Views'[2*s], Views'[2*s + 1], s, c) /\ SameLinks(V[2*s], Views'[2*s], s)
        BY <3>4, <4>1
      <4>3. \A n \in Rank : n # 2*s /\ n # 2*s + 1 => Views'[n] = V[n]
        BY <1>14, <3>1
      <4> QED BY <1>3, <4>2, <4>3, StageMoves
    <3> QED BY <3>2, <3>4, <3>5 DEF StageOK, PairOK
  <2> QED BY <2>1, <2>2
<1>18. u.n \in [Fns -> Nat]
  BY <1>8 DEF RankOK, Types
<1>19. g = d
  <2>1. SameCounts(u, w) /\ SameCounts(x, y)
    BY <1>17 DEF SameCounts
  <2>2. Shifted(u, x, f, g) /\ Shifted(w, y, f, d)
    BY <1>3, <1>15 DEF Shifted
  <2> QED BY <1>18, <2>1, <2>2, SameOut
<1>20. Aligned(events')
  <2> DEFINE a == Out(g, m)
             b == Out(g, q)
  <2>1. Aligned(a \o b)
    BY OutsAligned DEF m, q, j
  <2>2. a \in Seq(Events) /\ b \in Seq(Events)
    BY <1>4, OutIs
  <2>3. events' = (rest \o a) \o b
    BY <1>5, <1>12, <1>19 DEF Effect
  <2> HIDE DEF a, b
  <2>4. (rest \o a) \o b = rest \o (a \o b)
    BY <2>2, ConcatAssociative
  <2> DEFINE z == a \o b
  <2>5. z \in Seq(Events)
    BY <2>2
  <2> HIDE DEF z
  <2>6. Aligned(rest \o z)
    <3>1. Aligned(z)
      BY <2>1 DEF z
    <3> QED BY <1>3, <2>5, <3>1, AlignedConcat
  <2> QED BY <2>3, <2>4, <2>6 DEF z
<1>21. AllOK(Views', conf')
  BY <1>17 DEF c
<1> QED BY <1>13, <1>20, <1>21 DEF Settled

-----------------------------------------------------------------------------
(***************************************************************************)
(* The handlers of events of one rank.                                     *)
(***************************************************************************)
GoesTo(s, q, g) == \A k \in Fns : Cnt(s, q, {k}) = One(k = g)

LEMMA HandleViews ==
  ASSUME Shape, conf' = conf, NEW r \in Rank, NEW f \in Fns, Due(f, r), NEW hr,
         NEW s \in Seq(Events), Handle(hr, r, s)
  PROVE  /\ Shape'
         /\ \A q \in Rank : \A g : GoesTo(s, q, g) =>
              IF q = r THEN View(q)' = Held(View(q), f, hr, g)
              ELSE View(q)' = Got(View(q), g) /\ (g = "None" => View(q)' = View(q))
<1>1. /\ h' = [h EXCEPT ![r] = hr] /\ cc' = cc /\ ringQp' = ringQp /\ p2pQp' = p2pQp
      /\ timer' = timer /\ events' = Tail(events) \o s
  BY DEF Handle, Then
<1>2. /\ events \in Seq(Events) /\ events # << >> /\ Tail(events) \in Seq(Events)
      /\ TimerOK(timer) /\ TimerOK(timer')
  <2>1. events \in Seq(Events) /\ events # << >>
    BY DEF Shape, Due
  <2> QED BY <1>1, <2>1, TailOf DEF Shape
<1>3. Shape'
  <2>1. events' \in Seq(Events)
    BY <1>1, <1>2
  <2>2. h' = [q \in Rank |-> h'[q]]
    BY <1>1 DEF Shape
  <2>3. /\ cc' = [q \in Rank |-> cc'[q]]
        /\ ringQp' = [q \in Rank |-> ringQp'[q]] /\ p2pQp' = [q \in Rank |-> p2pQp'[q]]
    BY <1>1 DEF Shape
  <2> QED BY <1>2, <2>1, <2>2, <2>3 DEF Shape, Rank
<1>4. ASSUME NEW q \in Rank, NEW g, GoesTo(s, q, g)
      PROVE  View(q)' = Moved(View(q), IF q = r THEN f ELSE "None",
                              IF q = r THEN hr ELSE h[q], cc[q], ringQp[q], p2pQp[q], g)
  <2>1. \A k \in Fns : ArmedOf(timer, q, {k}) \in Nat
    BY <1>2, ArmedNat
  <2>2. Gives(q, s, g)
    BY <1>1, <1>4, <2>1 DEF GoesTo, Gives
  <2>3. FirstFn(q) = IF q = r THEN f ELSE "None"
    BY DEF FirstFn, Due
  <2>4. View(q)' = Moved(View(q), FirstFn(q), h'[q], cc'[q], ringQp'[q], p2pQp'[q], g)
    <3>1. events' = Tail(events) \o s /\ TimerOK(timer') /\ events # << >>
      BY <1>1, <1>2
    <3> QED BY <2>2, <3>1, MovedView
  <2>5. h'[q] = (IF q = r THEN hr ELSE h[q]) /\ cc'[q] = cc[q] /\ ringQp'[q] = ringQp[q]
        /\ p2pQp'[q] = p2pQp[q]
    BY <1>1 DEF Shape
  <2> QED BY <2>3, <2>4, <2>5, Zenon
<1>5. ASSUME NEW q \in Rank, NEW g, GoesTo(s, q, g)
      PROVE  IF q = r THEN View(q)' = Held(View(q), f, hr, g)
             ELSE View(q)' = Got(View(q), g) /\ (g = "None" => View(q)' = View(q))
  <2>0. /\ View(q).h = h[q] /\ View(q).cc = cc[q]
        /\ View(q).rq = ringQp[q] /\ View(q).pq = p2pQp[q]
    BY DEF View
  <2>1. CASE q = r
    <3>1. View(q)' = Moved(View(q), f, hr, cc[q], ringQp[q], p2pQp[q], g)
      BY <1>4, <1>5, <2>1, Zenon
    <3> QED BY <2>0, <2>1, <3>1, Zenon DEF Held
  <2>2. CASE q # r
    <3>1. View(q)' = Moved(View(q), "None", h[q], cc[q], ringQp[q], p2pQp[q], g)
      BY <1>4, <1>5, <2>2, Zenon
    <3>2. View(q)' = Got(View(q), g)
      BY <2>0, <3>1, Zenon DEF Held, Got
    <3>3. g = "None" => View(q)' = View(q)
      BY <3>1, Still, Zenon
    <3> QED BY <2>2, <3>2, <3>3
  <2> QED BY <2>1, <2>2
<1> QED BY <1>3, <1>5

LEMMA GoesNowhere ==
  ASSUME NEW q
  PROVE  GoesTo(<< >>, q, "None")
BY CntEmpty, FnNames DEF GoesTo, One

LEMMA GoesOne ==
  ASSUME NEW g \in Fns, NEW p \in Rank, NEW c \in Int, NEW e, e = EvC(g, p, c)
  PROVE  /\ e \in Events /\ <<e>> \in Seq(Events) /\ e.fn = g /\ e.rank = p
         /\ GoesTo(<<e>>, p, g) /\ \A q : q # p => GoesTo(<<e>>, q, "None")
<1>1. e \in Events /\ e.fn = g /\ e.rank = p
  BY DEF EvC, Events
<1> DEFINE a == <<e>>
<1>2. a \in Seq(Events)
  BY <1>1
<1>3. ASSUME NEW q, NEW k \in Fns
      PROVE  Cnt(a, q, {k}) = One(p = q /\ g = k)
  <2>1. Cnt(a, q, {k}) = One(e.rank = q /\ e.fn \in {k})
    BY <1>1, CntOne
  <2> HIDE DEF a
  <2> QED BY <1>1, <2>1 DEF One
<1> HIDE DEF a
<1>4. GoesTo(a, p, g)
  <2> SUFFICES ASSUME NEW k \in Fns PROVE Cnt(a, p, {k}) = One(k = g)
    BY DEF GoesTo
  <2> QED BY <1>3 DEF One
<1>5. ASSUME NEW q, q # p
      PROVE  GoesTo(a, q, "None")
  <2> SUFFICES ASSUME NEW k \in Fns PROVE Cnt(a, q, {k}) = One(k = "None")
    BY DEF GoesTo
  <2>1. Cnt(a, q, {k}) = 0
    BY <1>3, <1>5 DEF One
  <2> QED BY <2>1, FnNames DEF One
<1> QED BY <1>1, <1>2, <1>4, <1>5 DEF a

LEMMA GoesBoth ==
  ASSUME NEW a \in Seq(Events), NEW b \in Seq(Events), NEW q, NEW g, NEW d, GoesTo(a, q, g),
         GoesTo(b, q, d), g = "None" \/ d = "None"
  PROVE  GoesTo(a \o b, q, IF g = "None" THEN d ELSE g)
<1> SUFFICES ASSUME NEW k \in Fns
             PROVE  Cnt(a \o b, q, {k}) = One(k = IF g = "None" THEN d ELSE g)
  BY DEF GoesTo
<1>1. Cnt(a \o b, q, {k}) = Cnt(a, q, {k}) + Cnt(b, q, {k})
  BY CntConcat
<1>2. Cnt(a, q, {k}) = One(k = g) /\ Cnt(b, q, {k}) = One(k = d)
  BY DEF GoesTo
<1>3. k # "None"
  BY FnNames
<1> QED BY <1>1, <1>2, <1>3 DEF One

LEMMA GoesToGroup ==
  ASSUME DP = 2, NEW s \in Stages, NEW g \in Paired, NEW c \in Int, NEW t, t = ToGroup(g, s, c)
  PROVE  /\ t \in Seq(Events) /\ Aligned(t)
         /\ GoesTo(t, 2*s, g) /\ GoesTo(t, 2*s + 1, g)
         /\ \A q : q # 2*s /\ q # 2*s + 1 => GoesTo(t, q, "None")
<1>0. s \in Nat /\ g \in Fns
  BY DEF Stages, Fns
<1>1. 2*s \in Rank /\ 2*s + 1 \in Rank /\ Mate(2*s) = 2*s + 1 /\ Base(s) = 2*s
  <2>1. /\ 2*s + 0 \in Rank /\ Mate(2*s + 0) = 2*s + (1 - 0) /\ Mate(2*s + 0) \in Rank
        /\ Base(s) = 2*s
    BY RankOf
  <2> QED BY <1>0, <2>1
<1> DEFINE e == EvC(g, 2*s, c)
           d == EvC(g, 2*s + 1, c)
           p == <<e>>
           q0 == <<d>>
<1>2. /\ e \in Events /\ p \in Seq(Events) /\ e.fn = g /\ e.rank = 2*s
      /\ GoesTo(p, 2*s, g) /\ \A q : q # 2*s => GoesTo(p, q, "None")
  BY <1>0, <1>1, GoesOne
<1>3. /\ d \in Events /\ q0 \in Seq(Events) /\ d.fn = g /\ d.rank = 2*s + 1
      /\ GoesTo(q0, 2*s + 1, g) /\ \A q : q # 2*s + 1 => GoesTo(q0, q, "None")
  BY <1>0, <1>1, GoesOne
<1>4. t = <<e, d>>
  <2>1. Base(s) + 1 - 1 = 2*s /\ Base(s) + 2 - 1 = 2*s + 1
    BY <1>0, <1>1
  <2>2. t = [i \in 1..2 |-> EvC(g, Base(s) + i - 1, c)]
    BY DEF ToGroup
  <2> HIDE DEF e, d
  <2>3. EvC(g, Base(s) + 1 - 1, c) = e /\ EvC(g, Base(s) + 2 - 1, c) = d
    BY <2>1 DEF e, d
  <2>4. \A i \in 1..2 : i = 1 \/ i = 2
    OBVIOUS
  <2> DEFINE z == <<e, d>>
  <2>5. z = [i \in 1..2 |-> z[i]] /\ z[1] = e /\ z[2] = d
    OBVIOUS
  <2> HIDE DEF z
  <2>6. \A i \in 1..2 : EvC(g, Base(s) + i - 1, c) = z[i]
    BY <2>3, <2>4, <2>5
  <2>7. t = z
    BY <2>2, <2>5, <2>6
  <2> QED BY <2>7 DEF z
<1>5. t = p \o q0
  <2> HIDE DEF e, d
  <2> QED BY <1>4, TwoSingles
<1> HIDE DEF e, d
<1>6. Aligned(t)
  BY <1>1, <1>2, <1>3, <1>4, AlignedPair
<1> HIDE DEF p, q0
<1>7. p \o q0 \in Seq(Events)
  BY <1>2, <1>3
<1>8. 2*s # 2*s + 1 /\ g # "None"
  BY <1>0, FnNames
<1>9. GoesTo(p \o q0, 2*s, g)
  <2>1. GoesTo(p \o q0, 2*s, IF g = "None" THEN "None" ELSE g)
    BY <1>2, <1>3, <1>8, GoesBoth
  <2> QED BY <1>8, <2>1
<1>10. GoesTo(p \o q0, 2*s + 1, g)
  <2>1. GoesTo(p \o q0, 2*s + 1, IF "None" = "None" THEN g ELSE "None")
    BY <1>2, <1>3, <1>8, GoesBoth
  <2> QED BY <2>1
<1>11. ASSUME NEW q, q # 2*s, q # 2*s + 1
       PROVE  GoesTo(p \o q0, q, "None")
  <2>1. GoesTo(p \o q0, q, IF "None" = "None" THEN "None" ELSE "None")
    BY <1>2, <1>3, <1>11, GoesBoth
  <2> QED BY <2>1
<1> QED BY <1>5, <1>6, <1>7, <1>9, <1>10, <1>11

LEMMA StageOf ==
  ASSUME DP = 2, Settled, NEW s \in Stages
  PROVE  /\ StageOK(View(2*s), View(2*s + 1), s, conf)
         /\ 2*s \in Rank /\ 2*s + 1 \in Rank /\ 2*s # 2*s + 1
<1>1. 2*s \in Rank /\ 2*s + 1 \in Rank /\ 2*s # 2*s + 1
  BY Groups DEF Stages, Rank
<1>2. StageOK(Views[2*s], Views[2*s + 1], s, conf)
  BY DEF Settled, AllOK
<1>3. Views[2*s] = View(2*s) /\ Views[2*s + 1] = View(2*s + 1)
  BY <1>1 DEF Views
<1> QED BY <1>1, <1>2, <1>3

LEMMA StageStep ==
  ASSUME DP = 2, conf' = conf, Settled, NEW s \in Stages,
         NEW x, NEW y, View(2*s)' = x, View(2*s + 1)' = y,
         \A q \in Rank : q # 2*s /\ q # 2*s + 1 => View(q)' = View(q),
         StageOK(x, y, s, conf), SameLinks(View(2*s), x, s)
  PROVE  AllOK(Views', conf')
<1> DEFINE V == Views
           W == Views'
<1>1. 2*s \in Rank /\ 2*s + 1 \in Rank
  BY StageOf
<1>2. W = [q \in Rank |-> View(q)'] /\ V = [q \in Rank |-> View(q)]
  BY DEF Views
<1>3. AllOK(V, conf)
  BY DEF Settled
<1> HIDE DEF V, W
<1>4. W[2*s] = x /\ W[2*s + 1] = y /\ V[2*s] = View(2*s)
  BY <1>1, <1>2
<1>5. \A q \in Rank : q # 2*s /\ q # 2*s + 1 => W[q] = V[q]
  BY <1>2
<1>6. StageOK(W[2*s], W[2*s + 1], s, conf) /\ SameLinks(V[2*s], W[2*s], s)
  BY <1>4
<1>7. AllOK(W, conf)
  BY <1>3, <1>5, <1>6, StageMoves
<1> QED BY <1>7 DEF W

\* The state when the handler of an event of one rank begins.
LEMMA SingleDue ==
  ASSUME DP = 2, Shape, Settled, NEW r \in Rank, NEW f \in Singles, Due(f, r)
  PROVE  /\ f \in Fns /\ View(r).n[f] # 0 /\ Aligned(Tail(events)) /\ DueChunk \in Int
         /\ Tail(events) \in Seq(Events)
         /\ \E s \in Stages, i \in 0..1 : r = 2*s + i /\ (f \in Leaders => i = 0)
<1>1. /\ events \in Seq(Events) /\ events # << >> /\ Head(events).fn = f /\ Head(events).rank = r
      /\ Aligned(events) /\ f \in Fns
  BY DEF Due, Shape, Settled, Fns
<1>2. /\ Aligned(Tail(events)) /\ (f \in Leaders => r % 2 = 0)
  BY <1>1, AlignedRest
<1>3. Tail(events) \in Seq(Events) /\ Head(events) \in Events
  BY <1>1, TailOf
<1>4. DueChunk \in Int
  BY <1>3 DEF DueChunk, Events
<1>5. PICK s \in Stages, i \in 0..1 : r = 2*s + i
  BY RankForm
<1>6. r % 2 = i
  BY <1>5, RankOf
<1>7. View(r).n[f] # 0
  BY <1>1, ViewTokens
<1> QED BY <1>1, <1>2, <1>3, <1>4, <1>5, <1>6, <1>7

LEMMA StillAligned ==
  ASSUME NEW t \in Seq(Events), NEW s \in Seq(Events), Aligned(t), Aligned(s), Tail(events) = t,
         Then(s)
  PROVE  Aligned(events')
<1>1. Aligned(t \o s)
  BY AlignedConcat
<1>2. events' = t \o s
  BY DEF Then
<1> QED BY <1>1, <1>2

AtStage(r, s) == Stage(r) = s /\ Base(s) = 2*s /\ s \in Nat

LEMMA StageFacts ==
  ASSUME DP = 2, NEW s \in Stages, NEW i \in 0..1, NEW r, r = 2*s + i
  PROVE  AtStage(r, s)
<1>1. s \in Nat /\ r \div 2 = s
  BY Groups DEF Stages
<1> QED BY <1>1 DEF AtStage, Stage, Base

LEMMA SentStep ==
  ASSUME DP = 2, Shape, conf \in EventConf, conf' = conf, Settled, NEW r \in Rank,
         OnP2PSendComplete(r)
  PROVE  Shape' /\ Settled'
<1> DEFINE f == "OnP2PSendComplete"
<1>1. Due(f, r) /\ f \in Singles
  BY DEF OnP2PSendComplete, Singles
<1>2. /\ f \in Fns /\ View(r).n[f] # 0 /\ Aligned(Tail(events)) /\ Tail(events) \in Seq(Events)
      /\ \E s \in Stages, i \in 0..1 : r = 2*s + i
  BY <1>1, SingleDue
<1>3. PICK s \in Stages, i \in 0..1 : r = 2*s + i
  BY <1>2
<1> DEFINE v == View(2*s)
           w == View(2*s + 1)
           g == IF h[r].pendFwd THEN "OnP2PFwdStep" ELSE "OnP2PBwdStep"
           e == EvC(g, 2*s, h[r].pendChunk)
           p == <<e>>
<1>4. StageOK(v, w, s, conf) /\ 2*s \in Rank /\ 2*s + 1 \in Rank /\ 2*s # 2*s + 1
  BY StageOf
<1>5. Stage(r) = s /\ Base(s) = 2*s /\ View(r).h = h[r] /\ s \in Nat
  <2>1. View(r).h = h[r]
    BY DEF View
  <2>2. AtStage(r, s)
    BY <1>3, StageFacts
  <2> QED BY <2>1, <2>2 DEF AtStage
<1>6. Handle(h[r], r, p)
  BY <1>5 DEF OnP2PSendComplete
<1>7. g \in Fns /\ g \in Singles /\ g \in Leaders
  BY FnNames DEF Singles, Leaders
<1>8. h[r].pendChunk \in Int
  <2>1. RankOK(v, s, 0, conf) /\ RankOK(w, s, 1, conf)
    BY <1>4 DEF StageOK
  <2>2. v.h.pendChunk \in Int /\ w.h.pendChunk \in Int
    BY <2>1 DEF RankOK, Types
  <2>3. r = 2*s \/ r = 2*s + 1
    BY <1>3, <1>5
  <2> QED BY <1>5, <2>2, <2>3
<1> HIDE DEF g
<1>9. /\ e \in Events /\ p \in Seq(Events) /\ e.fn = g /\ e.rank = 2*s
      /\ GoesTo(p, 2*s, g) /\ \A q : q # 2*s => GoesTo(p, q, "None")
  BY <1>4, <1>7, <1>8, GoesOne
<1> HIDE DEF e
<1>10. Aligned(p)
  <2>1. e.rank % 2 = 0
    BY <1>5, <1>9
  <2> QED BY <1>7, <1>9, <2>1, AlignedSingle
<1> HIDE DEF p, f, v, w
<1>11. Aligned(events')
  <2>1. Then(p)
    BY <1>6 DEF Handle
  <2> QED BY <1>2, <1>9, <1>10, <2>1, StillAligned
<1>12. /\ Shape'
       /\ \A q \in Rank : \A d : GoesTo(p, q, d) =>
            IF q = r THEN View(q)' = Held(View(q), f, h[r], d)
            ELSE View(q)' = Got(View(q), d) /\ (d = "None" => View(q)' = View(q))
  BY <1>1, <1>2, <1>6, <1>9, HandleViews
<1>13. AllOK(Views', conf')
  <2>1. CASE i = 0
    <3>0. r = 2*s
      BY <1>3, <1>5, <2>1
    <3> DEFINE x == Held(v, f, v.h, g)
    <3>1. View(2*s)' = x
      BY <1>4, <1>5, <1>9, <1>12, <3>0 DEF v
    <3>2. \A q \in Rank : q # 2*s => View(q)' = View(q)
      BY <1>9, <1>12, <3>0
    <3>3. v.n[f] # 0 /\ g = IF v.h.pendFwd THEN "OnP2PFwdStep" ELSE "OnP2PBwdStep"
      BY <1>2, <1>5, <3>0 DEF v, g
    <3> HIDE DEF x
    <3>4. x = Held(v, "OnP2PSendComplete", v.h, g)
      BY DEF x, f
    <3>5. StageOK(x, w, s, conf) /\ SameStep(v, x, s)
      BY <1>4, <3>3, <3>4, LeaderSent DEF f
    <3>6. SameLinks(v, x, s)
      BY <3>5 DEF SameStep, SameLinks
    <3>7. View(2*s + 1)' = w
      BY <1>4, <3>2 DEF w
    <3> QED BY <3>1, <3>2, <3>5, <3>6, <3>7, StageStep DEF v
  <2>2. CASE i = 1
    <3>0. r = 2*s + 1
      BY <1>3, <1>5, <2>2
    <3> DEFINE x == Got(v, g)
               y == Gone(w, f)
    <3>1. View(2*s)' = x
      BY <1>4, <1>5, <1>9, <1>12, <3>0 DEF v
    <3>2. View(2*s + 1)' = y
      <4>1. View(2*s + 1)' = Held(w, f, h[r], "None")
        BY <1>4, <1>9, <1>12, <3>0 DEF w
      <4> QED BY <1>5, <3>0, <4>1 DEF Gone, w
    <3>3. \A q \in Rank : q # 2*s /\ q # 2*s + 1 => View(q)' = View(q)
      BY <1>9, <1>12, <3>0
    <3>4. w.n[f] # 0 /\ g = IF w.h.pendFwd THEN "OnP2PFwdStep" ELSE "OnP2PBwdStep"
      BY <1>2, <1>5, <3>0 DEF w, g
    <3> HIDE DEF x, y
    <3>5. StageOK(x, y, s, conf) /\ SameStep(v, x, s)
      BY <1>4, <3>4, MateSent DEF f, x, y
    <3>6. SameLinks(v, x, s)
      BY <3>5 DEF SameStep, SameLinks
    <3> QED BY <3>1, <3>2, <3>3, <3>5, <3>6, StageStep DEF v
  <2> QED BY <2>1, <2>2
<1> QED BY <1>11, <1>12, <1>13 DEF Settled

LEMMA TwoStageStep ==
  ASSUME DP = 2, conf' = conf, Settled, NEW s \in Stages, s + 1 \in Stages,
         NEW a, NEW b, NEW d, NEW e,
         View(2*s)' = a, View(2*s + 1)' = b, View(2*s + 2)' = d, View(2*s + 3)' = e,
         \A q \in Rank : q \notin 2*s .. 2*s + 3 => View(q)' = View(q),
         StageOK(a, b, s, conf), StageOK(d, e, s + 1, conf), LinkOK(a, d),
         FwdIn(a) = FwdIn(View(2*s)), BwdOut(a) = BwdOut(View(2*s)),
         FwdOut(d) = FwdOut(View(2*s + 2)), BwdIn(d) = BwdIn(View(2*s + 2))
  PROVE  AllOK(Views', conf')
<1> DEFINE V == Views
           W == Views'
<1>1. 2*s \in Rank /\ 2*s + 1 \in Rank /\ 2*s + 2 \in Rank /\ 2*s + 3 \in Rank
  BY Groups DEF Stages, Rank
<1>2. W = [q \in Rank |-> View(q)'] /\ V = [q \in Rank |-> View(q)]
  BY DEF Views
<1>3. AllOK(V, conf)
  BY DEF Settled
<1> HIDE DEF V, W
<1>4. /\ W[2*s] = a /\ W[2*s + 1] = b /\ W[2*s + 2] = d /\ W[2*s + 3] = e
      /\ V[2*s] = View(2*s) /\ V[2*s + 2] = View(2*s + 2)
  BY <1>1, <1>2
<1>5. \A q \in Rank : q \notin 2*s .. 2*s + 3 => W[q] = V[q]
  BY <1>2
<1>6. /\ StageOK(W[2*s], W[2*s + 1], s, conf) /\ StageOK(W[2*s + 2], W[2*s + 3], s + 1, conf)
      /\ LinkOK(W[2*s], W[2*s + 2])
      /\ FwdIn(W[2*s]) = FwdIn(V[2*s]) /\ BwdOut(W[2*s]) = BwdOut(V[2*s])
      /\ FwdOut(W[2*s + 2]) = FwdOut(V[2*s + 2]) /\ BwdIn(W[2*s + 2]) = BwdIn(V[2*s + 2])
  BY <1>4
<1>7. AllOK(W, conf)
  BY <1>3, <1>5, <1>6, NeighboursMove
<1> QED BY <1>7 DEF W

LEMMA LinkOf ==
  ASSUME DP = 2, Settled, NEW s \in Stages, s + 1 \in Stages
  PROVE  LinkOK(View(2*s), View(2*s + 2))
<1>1. 2*s \in Rank /\ 2*s + 2 \in Rank
  BY Groups DEF Stages, Rank
<1>2. LinkOK(Views[2*s], Views[2*s + 2])
  BY DEF Settled, AllOK
<1> QED BY <1>1, <1>2 DEF Views

SpreadsTo(o, s, g, p, d) ==
  /\ o \in Seq(Events) /\ Aligned(o)
  /\ GoesTo(o, 2*s, g) /\ GoesTo(o, 2*s + 1, g) /\ GoesTo(o, p, d)
  /\ \A q : q # 2*s /\ q # 2*s + 1 /\ q # p => GoesTo(o, q, "None")

\* What a complete barrier schedules: g for both ranks of stage s, d for rank p.
LEMMA GoesOn ==
  ASSUME DP = 2, NEW s \in Stages, NEW g \in Paired, NEW d \in Leaders, NEW c \in Int,
         NEW p \in Rank, p # 2*s, p # 2*s + 1, p % 2 = 0,
         NEW o, o = Append(ToGroup(g, s, c), EvC(d, p, c))
  PROVE  SpreadsTo(o, s, g, p, d)
<1> DEFINE t == ToGroup(g, s, c)
           e == EvC(d, p, c)
           b == <<e>>
<1>1. /\ t \in Seq(Events) /\ Aligned(t)
      /\ GoesTo(t, 2*s, g) /\ GoesTo(t, 2*s + 1, g)
      /\ \A q : q # 2*s /\ q # 2*s + 1 => GoesTo(t, q, "None")
  BY GoesToGroup
<1>0. d \in Fns /\ g \in Fns /\ d \in Singles /\ g # "None" /\ d # "None"
  BY FnNames DEF Fns, Singles
<1>2. /\ e \in Events /\ b \in Seq(Events) /\ e.fn = d /\ e.rank = p
      /\ GoesTo(b, p, d) /\ \A q : q # p => GoesTo(b, q, "None")
  BY <1>0, GoesOne
<1> HIDE DEF t, e
<1>3. Aligned(b)
  BY <1>0, <1>2, AlignedSingle
<1>4. o = t \o b
  <2>1. o = Append(t, e)
    BY DEF t, e
  <2> QED BY <1>1, <1>2, <2>1
<1> HIDE DEF b
<1>5. t \o b \in Seq(Events) /\ Aligned(t \o b)
  BY <1>1, <1>2, <1>3, AlignedConcat
<1>6. ASSUME NEW q, q = 2*s \/ q = 2*s + 1
      PROVE  GoesTo(t \o b, q, g)
  <2>1. GoesTo(t, q, g) /\ GoesTo(b, q, "None")
    BY <1>1, <1>2, <1>6
  <2>2. GoesTo(t \o b, q, IF g = "None" THEN "None" ELSE g)
    BY <1>1, <1>2, <2>1, GoesBoth
  <2> QED BY <1>0, <2>2
<1>7. GoesTo(t \o b, p, d)
  <2>1. GoesTo(t, p, "None") /\ GoesTo(b, p, d)
    BY <1>1, <1>2
  <2>2. GoesTo(t \o b, p, IF "None" = "None" THEN d ELSE "None")
    BY <1>1, <1>2, <2>1, GoesBoth
  <2> QED BY <2>2
<1>8. ASSUME NEW q, q # 2*s, q # 2*s + 1, q # p
      PROVE  GoesTo(t \o b, q, "None")
  <2>1. GoesTo(t, q, "None") /\ GoesTo(b, q, "None")
    BY <1>1, <1>2, <1>8
  <2>2. GoesTo(t \o b, q, IF "None" = "None" THEN "None" ELSE "None")
    BY <1>1, <1>2, <2>1, GoesBoth
  <2> QED BY <2>2
<1> QED BY <1>4, <1>5, <1>6, <1>7, <1>8 DEF SpreadsTo

LEMMA FwdStepStep ==
  ASSUME DP = 2, Shape, conf \in EventConf, conf' = conf, Settled, NEW r \in Rank,
         OnP2PFwdStep(r)
  PROVE  Shape' /\ Settled'
<1> DEFINE f == "OnP2PFwdStep"
<1>1. Due(f, r) /\ f \in Singles /\ f \in Leaders
  BY DEF OnP2PFwdStep, Singles, Leaders
<1>2. /\ f \in Fns /\ View(r).n[f] # 0 /\ Aligned(Tail(events)) /\ Tail(events) \in Seq(Events)
      /\ DueChunk \in Int
      /\ \E s \in Stages, i \in 0..1 : r = 2*s + i /\ i = 0
  BY <1>1, SingleDue
<1>3. PICK s \in Stages : r = 2*s + 0
  BY <1>2
<1>4. /\ s \in Nat /\ r = 2*s /\ Stage(r) = s
  <2>1. 0 \in 0..1
    OBVIOUS
  <2>2. AtStage(r, s)
    BY <1>3, <2>1, StageFacts
  <2> QED BY <1>3, <2>2 DEF AtStage
<1> DEFINE v == View(2*s)
           w == View(2*s + 1)
<1>5. StageOK(v, w, s, conf) /\ 2*s \in Rank /\ 2*s + 1 \in Rank /\ 2*s # 2*s + 1
  BY StageOf
<1>6. v.h = h[r] /\ v.n[f] # 0
  BY <1>2, <1>4 DEF View
<1>t. v.h.fwdCount \in Nat /\ v.h.bwdCount \in Nat
  BY <1>5 DEF StageOK, RankOK, Types
<1> HIDE DEF v, w, f
<1>7. CASE h[r].fwdCount + 1 < 2
  <2> DEFINE hr == [h[r] EXCEPT !.fwdCount = @ + 1]
             p == << >>
             x == Held(v, f, hr, "None")
  <2>1. Handle(hr, r, p)
    BY <1>6, <1>7, <1>t DEF OnP2PFwdStep
  <2>2. p \in Seq(Events) /\ Aligned(p) /\ \A q : GoesTo(p, q, "None")
    BY AlignedEmpty, GoesNowhere
  <2>3. x = Held(v, "OnP2PFwdStep", [v.h EXCEPT !.fwdCount = @ + 1], "None")
    BY <1>6 DEF f
  <2> HIDE DEF hr, p, x
  <2>4. Aligned(events')
    <3>1. Then(p)
      BY <2>1 DEF Handle
    <3> QED BY <1>2, <2>2, <3>1, StillAligned
  <2>5. /\ Shape'
        /\ \A q \in Rank : \A d : GoesTo(p, q, d) =>
             IF q = r THEN View(q)' = Held(View(q), f, hr, d)
             ELSE View(q)' = Got(View(q), d) /\ (d = "None" => View(q)' = View(q))
    BY <1>1, <1>2, <2>1, <2>2, HandleViews
  <2>6. View(2*s)' = x
    BY <1>4, <1>5, <2>2, <2>5 DEF v, x
  <2>7. \A q \in Rank : q # 2*s => View(q)' = View(q)
    BY <1>4, <2>2, <2>5
  <2>8. StageOK(x, w, s, conf) /\ SameStep(v, x, s)
    <3>1. v.n["OnP2PFwdStep"] # 0 /\ v.h.fwdCount + 1 < 2
      BY <1>6, <1>7 DEF f
    <3> QED BY <1>5, <2>3, <3>1, FwdReport
  <2>9. SameLinks(v, x, s)
    BY <2>8 DEF SameStep, SameLinks
  <2>10. View(2*s + 1)' = w
    BY <1>5, <2>7 DEF w
  <2>11. AllOK(Views', conf')
    BY <2>6, <2>7, <2>8, <2>9, <2>10, StageStep DEF v
  <2> QED BY <2>4, <2>5, <2>11 DEF Settled
<1>8. CASE h[r].fwdCount + 1 >= 2
  <2> DEFINE hr == [h[r] EXCEPT !.fwdCount = 0]
             n == s + 1
             p == Append(ToGroup("OnP2PFwdComplete", s, DueChunk), EvC("OnP2PFwdRecv", 2*n, DueChunk))
             x == Held(v, f, hr, "OnP2PFwdComplete")
             y == Got(w, "OnP2PFwdComplete")
  <2>1. x = Held(v, "OnP2PFwdStep", [v.h EXCEPT !.fwdCount = 0], "OnP2PFwdComplete")
    BY <1>6 DEF f
  <2> HIDE DEF x, y
  <2>2. /\ StageOK(x, y, s, conf) /\ s # PP - 1
        /\ FwdIn(x) = FwdIn(v) /\ BwdIn(x) = BwdIn(v)
        /\ BwdOut(x) = BwdOut(v) /\ FwdOut(x) = FwdOut(v) + 1
    <3>1. v.n["OnP2PFwdStep"] # 0 /\ v.h.fwdCount + 1 >= 2
      BY <1>6, <1>8 DEF f
    <3>2. y = Got(w, "OnP2PFwdComplete")
      BY DEF y
    <3> QED BY <1>5, <2>1, <3>1, <3>2, FwdOpens
  <2>3. n \in Stages /\ n \in Nat /\ n # 0
    BY <1>4, <2>2, Groups DEF Stages
  <2> HIDE DEF n
  <2> DEFINE u == View(2*n)
             z == View(2*n + 1)
             a == Got(u, "OnP2PFwdRecv")
  <2>4. StageOK(u, z, n, conf) /\ 2*n \in Rank /\ 2*n + 1 \in Rank /\ 2*n # 2*n + 1
    BY <2>3, StageOf
  <2>5. /\ StageOK(a, z, n, conf)
        /\ FwdOut(a) = FwdOut(u) /\ BwdOut(a) = BwdOut(u)
        /\ BwdIn(a) = BwdIn(u) /\ FwdIn(a) = FwdIn(u) + 1
    BY <2>3, <2>4, FwdTold
  <2> HIDE DEF u, z, a
  <2>6. 2*n # 2*s /\ 2*n # 2*s + 1 /\ 2*n + 1 # 2*s /\ 2*n + 1 # 2*s + 1 /\ (2*n) % 2 = 0
    BY <1>4, <2>3 DEF n
  <2>7. Handle(hr, r, p)
    <3>1. Handle(hr, r, Append(ToGroup("OnP2PFwdComplete", Stage(r), DueChunk),
                               EvC("OnP2PFwdRecv", Base(Stage(r) + 1), DueChunk)))
      BY <1>4, <1>6, <1>8, <1>t DEF OnP2PFwdStep
    <3>2. Base(Stage(r) + 1) = 2*n
      BY <1>4, <2>3, RankOf DEF n, Base
    <3> QED BY <1>4, <3>1, <3>2
  <2>8. /\ p \in Seq(Events) /\ Aligned(p)
        /\ GoesTo(p, 2*s, "OnP2PFwdComplete") /\ GoesTo(p, 2*s + 1, "OnP2PFwdComplete")
        /\ GoesTo(p, 2*n, "OnP2PFwdRecv")
        /\ \A q : q # 2*s /\ q # 2*s + 1 /\ q # 2*n => GoesTo(p, q, "None")
    <3> DEFINE g == "OnP2PFwdComplete"
               d == "OnP2PFwdRecv"
               m == 2*n
    <3>1. g \in Paired /\ d \in Leaders
      BY DEF Paired, Leaders
    <3>2. p = Append(ToGroup(g, s, DueChunk), EvC(d, m, DueChunk))
      OBVIOUS
    <3>3. m \in Rank /\ m # 2*s /\ m # 2*s + 1 /\ m % 2 = 0
      BY <2>4, <2>6
    <3> HIDE DEF g, d, m, p
    <3>4. SpreadsTo(p, s, g, m, d)
      BY <1>2, <3>1, <3>2, <3>3, GoesOn
    <3> QED BY <3>4 DEF g, d, m, SpreadsTo
  <2> HIDE DEF hr, p
  <2>9. Aligned(events')
    <3>1. Then(p)
      BY <2>7 DEF Handle
    <3> QED BY <1>2, <2>8, <3>1, StillAligned
  <2>10. /\ Shape'
         /\ \A q \in Rank : \A d : GoesTo(p, q, d) =>
              IF q = r THEN View(q)' = Held(View(q), f, hr, d)
              ELSE View(q)' = Got(View(q), d) /\ (d = "None" => View(q)' = View(q))
    BY <1>1, <1>2, <2>7, <2>8, HandleViews
  <2>11. View(2*s)' = x
    BY <1>4, <1>5, <2>8, <2>10 DEF v, x
  <2>12. View(2*s + 1)' = y
    BY <1>4, <1>5, <2>8, <2>10 DEF w, y
  <2>13. View(2*n)' = a
    BY <1>4, <2>4, <2>6, <2>8, <2>10 DEF u, a
  <2>14. \A q \in Rank : q # 2*s /\ q # 2*s + 1 /\ q # 2*n => View(q)' = View(q)
    BY <1>4, <2>8, <2>10
  <2>15. View(2*n + 1)' = z
    BY <2>4, <2>6, <2>14 DEF z
  <2>16. AllOK(Views', conf')
    <3>1. 2*n = 2*s + 2 /\ 2*n + 1 = 2*s + 3 /\ n = s + 1 /\ s + 1 \in Stages
      BY <1>4, <2>3 DEF n
    <3>2. LinkOK(v, u)
      BY <3>1, LinkOf DEF v, u
    <3>3. LinkOK(x, a)
      BY <2>2, <2>5, <3>2 DEF LinkOK
    <3>4. View(2*s + 2)' = a /\ View(2*s + 3)' = z /\ u = View(2*s + 2)
      BY <2>13, <2>15, <3>1 DEF u
    <3>5. \A q \in Rank : q \notin 2*s .. 2*s + 3 => View(q)' = View(q)
      BY <1>4, <2>14, <3>1
    <3>6. /\ StageOK(x, y, s, conf) /\ StageOK(a, z, s + 1, conf)
          /\ FwdIn(x) = FwdIn(View(2*s)) /\ BwdOut(x) = BwdOut(View(2*s))
          /\ FwdOut(a) = FwdOut(View(2*s + 2)) /\ BwdIn(a) = BwdIn(View(2*s + 2))
      BY <2>2, <2>5, <3>1, <3>4 DEF v
    <3> QED BY <2>11, <2>12, <3>1, <3>3, <3>4, <3>5, <3>6, TwoStageStep
  <2> QED BY <2>9, <2>10, <2>16 DEF Settled
<1>9. h[r].fwdCount + 1 < 2 \/ h[r].fwdCount + 1 >= 2
  BY <1>6, <1>t
<1> QED BY <1>7, <1>8, <1>9

LEMMA FwdRecvStep ==
  ASSUME DP = 2, Shape, conf \in EventConf, conf' = conf, Settled, NEW r \in Rank,
         OnP2PFwdRecv(r)
  PROVE  Shape' /\ Settled'
<1> DEFINE f == "OnP2PFwdRecv"
           g == "OnP2PFwdRecv_EventDriven"
<1>1. Due(f, r) /\ f \in Singles /\ f \in Leaders
  BY DEF OnP2PFwdRecv, Singles, Leaders
<1>2. /\ f \in Fns /\ View(r).n[f] # 0 /\ Aligned(Tail(events)) /\ Tail(events) \in Seq(Events)
      /\ DueChunk \in Int
      /\ \E s \in Stages, i \in 0..1 : r = 2*s + i /\ i = 0
  BY <1>1, SingleDue
<1>3. PICK s \in Stages : r = 2*s + 0
  BY <1>2
<1>4. /\ s \in Nat /\ r = 2*s /\ Stage(r) = s
  <2>1. 0 \in 0..1
    OBVIOUS
  <2>2. AtStage(r, s)
    BY <1>3, <2>1, StageFacts
  <2> QED BY <1>3, <2>2 DEF AtStage
<1> DEFINE v == View(2*s)
           w == View(2*s + 1)
<1>5. StageOK(v, w, s, conf) /\ 2*s \in Rank /\ 2*s + 1 \in Rank /\ 2*s # 2*s + 1
  BY StageOf
<1>6. v.h = h[r] /\ v.n[f] # 0
  BY <1>2, <1>4 DEF View
<1>t. v.h.fwdCount \in Nat /\ v.h.bwdCount \in Nat
  BY <1>5 DEF StageOK, RankOK, Types
<1> DEFINE p == ToGroup(g, s, DueChunk)
           x == Held(v, f, v.h, g)
           y == Got(w, g)
<1>7. Handle(v.h, r, p)
  <2>1. conf.mode = 0
    BY DEF EventConf
  <2> QED BY <1>4, <1>6, <2>1 DEF OnP2PFwdRecv
<1>8. /\ p \in Seq(Events) /\ Aligned(p)
      /\ GoesTo(p, 2*s, g) /\ GoesTo(p, 2*s + 1, g)
      /\ \A q : q # 2*s /\ q # 2*s + 1 => GoesTo(p, q, "None")
  <2>1. g \in Paired
    BY DEF Paired
  <2> HIDE DEF g
  <2> QED BY <1>2, <2>1, GoesToGroup
<1>9. x = Held(v, "OnP2PFwdRecv", v.h, "OnP2PFwdRecv_EventDriven") /\ y = Got(w, "OnP2PFwdRecv_EventDriven")
  OBVIOUS
<1>10. v.n["OnP2PFwdRecv"] # 0 /\ FwdIn(v) <= conf.chunks
  <2>1. Views[2*s] = v /\ AllOK(Views, conf)
    BY <1>5 DEF Views, Settled
  <2> HIDE DEF v
  <2> QED BY <1>6, <2>1, InBounds
<1> HIDE DEF v, w, f, g, p, x, y
<1>11. StageOK(x, y, s, conf) /\ SameStep(v, x, s)
  BY <1>5, <1>9, <1>10, FwdSpreads
<1>12. Aligned(events')
  <2>1. Then(p)
    BY <1>7 DEF Handle
  <2> QED BY <1>2, <1>8, <2>1, StillAligned
<1>13. /\ Shape'
       /\ \A q \in Rank : \A d : GoesTo(p, q, d) =>
            IF q = r THEN View(q)' = Held(View(q), f, v.h, d)
            ELSE View(q)' = Got(View(q), d) /\ (d = "None" => View(q)' = View(q))
  BY <1>1, <1>2, <1>7, <1>8, HandleViews
<1>14. View(2*s)' = x /\ View(2*s + 1)' = y
  BY <1>4, <1>5, <1>8, <1>13 DEF v, w, x, y
<1>15. \A q \in Rank : q # 2*s /\ q # 2*s + 1 => View(q)' = View(q)
  BY <1>4, <1>8, <1>13
<1>16. SameLinks(v, x, s)
  BY <1>11 DEF SameStep, SameLinks
<1>17. AllOK(Views', conf')
  BY <1>11, <1>14, <1>15, <1>16, StageStep DEF v
<1> QED BY <1>12, <1>13, <1>17 DEF Settled

LEMMA BwdStepStep ==
  ASSUME DP = 2, Shape, conf \in EventConf, conf' = conf, Settled, NEW r \in Rank,
         OnP2PBwdStep(r)
  PROVE  Shape' /\ Settled'
<1> DEFINE f == "OnP2PBwdStep"
<1>1. Due(f, r) /\ f \in Singles /\ f \in Leaders
  BY DEF OnP2PBwdStep, Singles, Leaders
<1>2. /\ f \in Fns /\ View(r).n[f] # 0 /\ Aligned(Tail(events)) /\ Tail(events) \in Seq(Events)
      /\ DueChunk \in Int
      /\ \E s \in Stages, i \in 0..1 : r = 2*s + i /\ i = 0
  BY <1>1, SingleDue
<1>3. PICK s \in Stages : r = 2*s + 0
  BY <1>2
<1>4. /\ s \in Nat /\ r = 2*s /\ Stage(r) = s
  <2>1. 0 \in 0..1
    OBVIOUS
  <2>2. AtStage(r, s)
    BY <1>3, <2>1, StageFacts
  <2> QED BY <1>3, <2>2 DEF AtStage
<1> DEFINE v == View(2*s)
           w == View(2*s + 1)
<1>5. StageOK(v, w, s, conf) /\ 2*s \in Rank /\ 2*s + 1 \in Rank /\ 2*s # 2*s + 1
  BY StageOf
<1>6. v.h = h[r] /\ v.n[f] # 0
  BY <1>2, <1>4 DEF View
<1>t. v.h.fwdCount \in Nat /\ v.h.bwdCount \in Nat
  BY <1>5 DEF StageOK, RankOK, Types
<1> HIDE DEF v, w, f
<1>7. CASE h[r].bwdCount + 1 < 2
  <2> DEFINE hr == [h[r] EXCEPT !.bwdCount = @ + 1]
             p == << >>
             x == Held(v, f, hr, "None")
  <2>1. Handle(hr, r, p)
    BY <1>6, <1>7, <1>t DEF OnP2PBwdStep
  <2>2. p \in Seq(Events) /\ Aligned(p) /\ \A q : GoesTo(p, q, "None")
    BY AlignedEmpty, GoesNowhere
  <2>3. x = Held(v, "OnP2PBwdStep", [v.h EXCEPT !.bwdCount = @ + 1], "None")
    BY <1>6 DEF f
  <2> HIDE DEF hr, p, x
  <2>4. Aligned(events')
    <3>1. Then(p)
      BY <2>1 DEF Handle
    <3> QED BY <1>2, <2>2, <3>1, StillAligned
  <2>5. /\ Shape'
        /\ \A q \in Rank : \A d : GoesTo(p, q, d) =>
             IF q = r THEN View(q)' = Held(View(q), f, hr, d)
             ELSE View(q)' = Got(View(q), d) /\ (d = "None" => View(q)' = View(q))
    BY <1>1, <1>2, <2>1, <2>2, HandleViews
  <2>6. View(2*s)' = x
    BY <1>4, <1>5, <2>2, <2>5 DEF v, x
  <2>7. \A q \in Rank : q # 2*s => View(q)' = View(q)
    BY <1>4, <2>2, <2>5
  <2>8. StageOK(x, w, s, conf) /\ SameStep(v, x, s)
    <3>1. v.n["OnP2PBwdStep"] # 0 /\ v.h.bwdCount + 1 < 2
      BY <1>6, <1>7 DEF f
    <3> QED BY <1>5, <2>3, <3>1, BwdReport
  <2>9. SameLinks(v, x, s)
    BY <2>8 DEF SameStep, SameLinks
  <2>10. View(2*s + 1)' = w
    BY <1>5, <2>7 DEF w
  <2>11. AllOK(Views', conf')
    BY <2>6, <2>7, <2>8, <2>9, <2>10, StageStep DEF v
  <2> QED BY <2>4, <2>5, <2>11 DEF Settled
<1>8. CASE h[r].bwdCount + 1 >= 2
  <2> DEFINE hr == [h[r] EXCEPT !.bwdCount = 0]
             n == s - 1
             p == Append(ToGroup("OnP2PBwdComplete", s, DueChunk), EvC("OnP2PBwdRecv", 2*n, DueChunk))
             x == Held(v, f, hr, "OnP2PBwdComplete")
             y == Got(w, "OnP2PBwdComplete")
  <2>1. x = Held(v, "OnP2PBwdStep", [v.h EXCEPT !.bwdCount = 0], "OnP2PBwdComplete")
    BY <1>6 DEF f
  <2> HIDE DEF x, y
  <2>2. /\ StageOK(x, y, s, conf) /\ s # 0
        /\ FwdIn(x) = FwdIn(v) /\ BwdIn(x) = BwdIn(v)
        /\ FwdOut(x) = FwdOut(v) /\ BwdOut(x) = BwdOut(v) + 1
    <3>1. v.n["OnP2PBwdStep"] # 0 /\ v.h.bwdCount + 1 >= 2
      BY <1>6, <1>8 DEF f
    <3>2. y = Got(w, "OnP2PBwdComplete")
      BY DEF y
    <3> QED BY <1>5, <2>1, <3>1, <3>2, BwdOpens
  <2>3. n \in Stages /\ n \in Nat /\ n # PP - 1
    BY <1>4, <2>2, Groups DEF Stages
  <2> HIDE DEF n
  <2> DEFINE u == View(2*n)
             z == View(2*n + 1)
             a == Got(u, "OnP2PBwdRecv")
  <2>4. StageOK(u, z, n, conf) /\ 2*n \in Rank /\ 2*n + 1 \in Rank /\ 2*n # 2*n + 1
    BY <2>3, StageOf
  <2>5. /\ StageOK(a, z, n, conf)
        /\ FwdOut(a) = FwdOut(u) /\ BwdOut(a) = BwdOut(u)
        /\ FwdIn(a) = FwdIn(u) /\ BwdIn(a) = BwdIn(u) + 1
    BY <2>3, <2>4, BwdTold
  <2> HIDE DEF u, z, a
  <2>6. 2*n # 2*s /\ 2*n # 2*s + 1 /\ 2*n + 1 # 2*s /\ 2*n + 1 # 2*s + 1 /\ (2*n) % 2 = 0
    BY <1>4, <2>3 DEF n
  <2>7. Handle(hr, r, p)
    <3>1. Handle(hr, r, Append(ToGroup("OnP2PBwdComplete", Stage(r), DueChunk),
                               EvC("OnP2PBwdRecv", Base(Stage(r) - 1), DueChunk)))
      BY <1>4, <1>6, <1>8, <1>t DEF OnP2PBwdStep
    <3>2. Base(Stage(r) - 1) = 2*n
      BY <1>4, <2>3, RankOf DEF n, Base
    <3> QED BY <1>4, <3>1, <3>2
  <2>8. /\ p \in Seq(Events) /\ Aligned(p)
        /\ GoesTo(p, 2*s, "OnP2PBwdComplete") /\ GoesTo(p, 2*s + 1, "OnP2PBwdComplete")
        /\ GoesTo(p, 2*n, "OnP2PBwdRecv")
        /\ \A q : q # 2*s /\ q # 2*s + 1 /\ q # 2*n => GoesTo(p, q, "None")
    <3> DEFINE g == "OnP2PBwdComplete"
               d == "OnP2PBwdRecv"
               m == 2*n
    <3>1. g \in Paired /\ d \in Leaders
      BY DEF Paired, Leaders
    <3>2. p = Append(ToGroup(g, s, DueChunk), EvC(d, m, DueChunk))
      OBVIOUS
    <3>3. m \in Rank /\ m # 2*s /\ m # 2*s + 1 /\ m % 2 = 0
      BY <2>4, <2>6
    <3> HIDE DEF g, d, m, p
    <3>4. SpreadsTo(p, s, g, m, d)
      BY <1>2, <3>1, <3>2, <3>3, GoesOn
    <3> QED BY <3>4 DEF g, d, m, SpreadsTo
  <2> HIDE DEF hr, p
  <2>9. Aligned(events')
    <3>1. Then(p)
      BY <2>7 DEF Handle
    <3> QED BY <1>2, <2>8, <3>1, StillAligned
  <2>10. /\ Shape'
         /\ \A q \in Rank : \A d : GoesTo(p, q, d) =>
              IF q = r THEN View(q)' = Held(View(q), f, hr, d)
              ELSE View(q)' = Got(View(q), d) /\ (d = "None" => View(q)' = View(q))
    BY <1>1, <1>2, <2>7, <2>8, HandleViews
  <2>11. View(2*s)' = x
    BY <1>4, <1>5, <2>8, <2>10 DEF v, x
  <2>12. View(2*s + 1)' = y
    BY <1>4, <1>5, <2>8, <2>10 DEF w, y
  <2>13. View(2*n)' = a
    BY <1>4, <2>4, <2>6, <2>8, <2>10 DEF u, a
  <2>14. \A q \in Rank : q # 2*s /\ q # 2*s + 1 /\ q # 2*n => View(q)' = View(q)
    BY <1>4, <2>8, <2>10
  <2>15. View(2*n + 1)' = z
    BY <2>4, <2>6, <2>14 DEF z
  <2>16. AllOK(Views', conf')
    <3>1. 2*s = 2*n + 2 /\ 2*s + 1 = 2*n + 3 /\ n + 1 = s /\ n + 1 \in Stages
      BY <1>4, <2>3 DEF n
    <3>2. LinkOK(u, v)
      <4>1. LinkOK(View(2*n), View(2*n + 2))
        BY <2>3, <3>1, LinkOf
      <4> QED BY <3>1, <4>1 DEF v, u
    <3>3. LinkOK(a, x)
      BY <2>2, <2>5, <3>2 DEF LinkOK
    <3>4. View(2*n + 2)' = x /\ View(2*n + 3)' = y /\ v = View(2*n + 2)
      BY <2>11, <2>12, <3>1 DEF v
    <3>5. \A q \in Rank : q \notin 2*n .. 2*n + 3 => View(q)' = View(q)
      BY <1>4, <2>3, <2>14, <3>1
    <3>6. /\ StageOK(a, z, n, conf) /\ StageOK(x, y, n + 1, conf)
          /\ FwdIn(a) = FwdIn(View(2*n)) /\ BwdOut(a) = BwdOut(View(2*n))
          /\ FwdOut(x) = FwdOut(View(2*n + 2)) /\ BwdIn(x) = BwdIn(View(2*n + 2))
      BY <2>2, <2>5, <3>1, <3>4 DEF u
    <3> QED BY <2>3, <2>13, <2>15, <3>1, <3>3, <3>4, <3>5, <3>6, TwoStageStep
  <2> QED BY <2>9, <2>10, <2>16 DEF Settled
<1>9. h[r].bwdCount + 1 < 2 \/ h[r].bwdCount + 1 >= 2
  BY <1>6, <1>t
<1> QED BY <1>7, <1>8, <1>9

LEMMA BwdRecvStep ==
  ASSUME DP = 2, Shape, conf \in EventConf, conf' = conf, Settled, NEW r \in Rank,
         OnP2PBwdRecv(r)
  PROVE  Shape' /\ Settled'
<1> DEFINE f == "OnP2PBwdRecv"
           g == "OnP2PBwdRecv_EventDriven"
<1>1. Due(f, r) /\ f \in Singles /\ f \in Leaders
  BY DEF OnP2PBwdRecv, Singles, Leaders
<1>2. /\ f \in Fns /\ View(r).n[f] # 0 /\ Aligned(Tail(events)) /\ Tail(events) \in Seq(Events)
      /\ DueChunk \in Int
      /\ \E s \in Stages, i \in 0..1 : r = 2*s + i /\ i = 0
  BY <1>1, SingleDue
<1>3. PICK s \in Stages : r = 2*s + 0
  BY <1>2
<1>4. /\ s \in Nat /\ r = 2*s /\ Stage(r) = s
  <2>1. 0 \in 0..1
    OBVIOUS
  <2>2. AtStage(r, s)
    BY <1>3, <2>1, StageFacts
  <2> QED BY <1>3, <2>2 DEF AtStage
<1> DEFINE v == View(2*s)
           w == View(2*s + 1)
<1>5. StageOK(v, w, s, conf) /\ 2*s \in Rank /\ 2*s + 1 \in Rank /\ 2*s # 2*s + 1
  BY StageOf
<1>6. v.h = h[r] /\ v.n[f] # 0
  BY <1>2, <1>4 DEF View
<1>t. v.h.fwdCount \in Nat /\ v.h.bwdCount \in Nat
  BY <1>5 DEF StageOK, RankOK, Types
<1> DEFINE p == ToGroup(g, s, DueChunk)
           x == Held(v, f, v.h, g)
           y == Got(w, g)
<1>7. Handle(v.h, r, p)
  <2>1. conf.mode = 0
    BY DEF EventConf
  <2> QED BY <1>4, <1>6, <2>1 DEF OnP2PBwdRecv
<1>8. /\ p \in Seq(Events) /\ Aligned(p)
      /\ GoesTo(p, 2*s, g) /\ GoesTo(p, 2*s + 1, g)
      /\ \A q : q # 2*s /\ q # 2*s + 1 => GoesTo(p, q, "None")
  <2>1. g \in Paired
    BY DEF Paired
  <2> HIDE DEF g
  <2> QED BY <1>2, <2>1, GoesToGroup
<1>9. x = Held(v, "OnP2PBwdRecv", v.h, "OnP2PBwdRecv_EventDriven") /\ y = Got(w, "OnP2PBwdRecv_EventDriven")
  OBVIOUS
<1>10. v.n["OnP2PBwdRecv"] # 0 /\ BwdIn(v) <= conf.chunks /\ conf.train
  <2>1. Views[2*s] = v /\ AllOK(Views, conf)
    BY <1>5 DEF Views, Settled
  <2> HIDE DEF v
  <2> QED BY <1>6, <2>1, InBounds
<1> HIDE DEF v, w, f, g, p, x, y
<1>11. StageOK(x, y, s, conf) /\ SameStep(v, x, s)
  BY <1>5, <1>9, <1>10, BwdSpreads
<1>12. Aligned(events')
  <2>1. Then(p)
    BY <1>7 DEF Handle
  <2> QED BY <1>2, <1>8, <2>1, StillAligned
<1>13. /\ Shape'
       /\ \A q \in Rank : \A d : GoesTo(p, q, d) =>
            IF q = r THEN View(q)' = Held(View(q), f, v.h, d)
            ELSE View(q)' = Got(View(q), d) /\ (d = "None" => View(q)' = View(q))
  BY <1>1, <1>2, <1>7, <1>8, HandleViews
<1>14. View(2*s)' = x /\ View(2*s + 1)' = y
  BY <1>4, <1>5, <1>8, <1>13 DEF v, w, x, y
<1>15. \A q \in Rank : q # 2*s /\ q # 2*s + 1 => View(q)' = View(q)
  BY <1>4, <1>8, <1>13
<1>16. SameLinks(v, x, s)
  BY <1>11 DEF SameStep, SameLinks
<1>17. AllOK(Views', conf')
  BY <1>11, <1>14, <1>15, <1>16, StageStep DEF v
<1> QED BY <1>12, <1>13, <1>17 DEF Settled

-----------------------------------------------------------------------------
(***************************************************************************)
(* Both ranks of a group arm their compute timers together.                *)
(***************************************************************************)
LEMMA AddToLast ==
  ASSUME NEW bs \in Batches, NEW z \in Seq(Events), NEW e \in Events
  PROVE  AddTo(bs \o <<z>>, e) = bs \o <<Append(z, e)>>
<1> DEFINE S == Seq(Events)
           y == Append(z, e)
           a == <<z>>
           b == <<y>>
           p == bs \o a
           q == bs \o b
<1>1. /\ a \in Seq(S) /\ Len(a) = 1 /\ a[1] = z
      /\ b \in Seq(S) /\ Len(b) = 1 /\ b[1] = y
      /\ bs \in Seq(S) /\ Len(bs) \in Nat /\ y \in S
  BY DEF Batches
<1> HIDE DEF a, b, S
<1>2. /\ p \in Seq(S) /\ Len(p) = Len(bs) + Len(a)
      /\ \A k \in 1 .. Len(bs) + Len(a) : p[k] = IF k <= Len(bs) THEN bs[k] ELSE a[k - Len(bs)]
  BY <1>1, ConcatProperties
<1>3. /\ q \in Seq(S) /\ Len(q) = Len(bs) + Len(b)
      /\ \A k \in 1 .. Len(bs) + Len(b) : q[k] = IF k <= Len(bs) THEN bs[k] ELSE b[k - Len(bs)]
  BY <1>1, ConcatProperties
<1> HIDE DEF p, q
<1>4. Len(p) = Len(bs) + 1 /\ Len(q) = Len(bs) + 1 /\ p[Len(p)] = z /\ q[Len(q)] = y
  BY <1>1, <1>2, <1>3
<1> HIDE DEF y
<1>5. AddTo(p, e) = [p EXCEPT ![Len(p)] = y]
  BY <1>4 DEF AddTo, y
<1> DEFINE x == [p EXCEPT ![Len(p)] = y]
<1>6. Len(p) \in 1 .. Len(p)
  BY <1>1, <1>4
<1>7. /\ x \in Seq(S) /\ Len(x) = Len(p)
      /\ \A j \in 1 .. Len(p) : x[j] = IF j = Len(p) THEN y ELSE p[j]
  BY <1>1, <1>2, <1>6, ExceptSeq
<1> HIDE DEF x
<1>8. \A j \in 1 .. Len(x) : x[j] = q[j]
  <2> SUFFICES ASSUME NEW j \in 1 .. Len(x) PROVE x[j] = q[j]
    OBVIOUS
  <2>1. j \in 1 .. Len(p) /\ j \in 1 .. Len(bs) + 1 /\ Len(a) = 1 /\ Len(b) = 1
    BY <1>1, <1>4, <1>7
  <2>2. CASE j = Len(p)
    BY <1>4, <1>7, <2>1, <2>2
  <2>3. CASE j # Len(p)
    <3>1. x[j] = p[j] /\ j <= Len(bs)
      BY <1>1, <1>4, <1>7, <2>1, <2>3
    <3>2. p[j] = bs[j] /\ q[j] = bs[j]
      BY <1>2, <1>3, <2>1, <3>1
    <3> QED BY <3>1, <3>2
  <2> QED BY <2>2, <2>3
<1>9. x = q
  BY <1>3, <1>4, <1>7, <1>8, SeqEqual
<1> QED BY <1>5, <1>9 DEF x, p, q, a, b, y

LEMMA LastOf ==
  ASSUME NEW bs \in Batches, bs # << >>
  PROVE  \E front \in Batches, z \in Seq(Events) : bs = front \o <<z>>
<1> DEFINE S == Seq(Events)
           n == Len(bs)
           front == SubSeq(bs, 1, n - 1)
           z == bs[n]
<1>1. bs \in Seq(S) /\ n \in Nat /\ n >= 1
  BY DEF Batches
<1>2. z \in S
  BY <1>1
<1> HIDE DEF S
<1>3. front \in Seq(S)
  BY <1>1
<1>4. 1 \in 1..Len(bs) /\ n \in 1..Len(bs)
  BY <1>1
<1>5. SubSeq(bs, 1, n) = SubSeq(bs, 1, n - 1) \o <<bs[n]>>
  BY <1>1, <1>4, SubSeqRecursiveSecond
<1>6. SubSeq(bs, 1, n) = bs
  BY <1>1, SubSeqFull
<1>7. bs = front \o <<z>>
  BY <1>5, <1>6, Zenon
<1>8. front \in Batches /\ z \in Seq(Events)
  BY <1>2, <1>3 DEF Batches, S
<1> HIDE DEF front, z
<1> QED BY <1>7, <1>8

LEMMA BatchesJoin ==
  ASSUME NEW a \in Batches, NEW b \in Batches
  PROVE  /\ a \o b \in Batches
         /\ BatchesOK(a \o b) <=> BatchesOK(a) /\ BatchesOK(b)
<1> DEFINE p == a \o b
           Good(x) == Aligned(x) /\ \A j \in 1..Len(x) : x[j].fn \in ComputeEvents
<1>1. /\ p \in Batches /\ Len(p) = Len(a) + Len(b) /\ Len(a) \in Nat /\ Len(b) \in Nat
      /\ \A k \in 1 .. Len(a) + Len(b) : p[k] = IF k <= Len(a) THEN a[k] ELSE b[k - Len(a)]
  BY ConcatProperties DEF Batches
<1>2. \A x \in Batches : BatchesOK(x) <=> \A i \in 1..Len(x) : Good(x[i])
  BY DEF BatchesOK
<1> HIDE DEF p, Good
<1>3. ASSUME BatchesOK(p)
      PROVE  BatchesOK(a) /\ BatchesOK(b)
  <2>1. ASSUME NEW i \in 1..Len(a)
        PROVE  Good(a[i])
    <3>1. i \in 1 .. Len(a) + Len(b) /\ i <= Len(a)
      BY <1>1
    <3>2. p[i] = a[i] /\ i \in 1..Len(p)
      BY <1>1, <3>1
    <3> QED BY <1>1, <1>2, <1>3, <3>2
  <2>2. ASSUME NEW i \in 1..Len(b)
        PROVE  Good(b[i])
    <3>1. i + Len(a) \in 1 .. Len(a) + Len(b) /\ ~(i + Len(a) <= Len(a)) /\ (i + Len(a)) - Len(a) = i
      BY <1>1
    <3>2. p[i + Len(a)] = b[i] /\ i + Len(a) \in 1..Len(p)
      BY <1>1, <3>1
    <3> QED BY <1>1, <1>2, <1>3, <3>2
  <2> QED BY <1>2, <2>1, <2>2
<1>4. ASSUME BatchesOK(a), BatchesOK(b)
      PROVE  BatchesOK(p)
  <2> SUFFICES ASSUME NEW k \in 1..Len(p) PROVE Good(p[k])
    BY <1>1, <1>2
  <2>1. CASE k <= Len(a)
    <3>1. p[k] = a[k] /\ k \in 1..Len(a)
      BY <1>1, <2>1
    <3> QED BY <1>2, <1>4, <3>1
  <2>2. CASE ~(k <= Len(a))
    <3>1. p[k] = b[k - Len(a)] /\ k - Len(a) \in 1..Len(b)
      BY <1>1, <2>2
    <3> QED BY <1>2, <1>4, <3>1
  <2> QED BY <2>1, <2>2
<1> QED BY <1>1, <1>3, <1>4 DEF p

LEMMA BatchAlone ==
  ASSUME NEW z \in Seq(Events)
  PROVE  /\ <<z>> \in Batches /\ <<z>> # << >>
         /\ BatchesOK(<<z>>) <=> Aligned(z) /\ \A j \in 1..Len(z) : z[j].fn \in ComputeEvents
<1> DEFINE b == <<z>>
<1>1. b \in Batches /\ Len(b) = 1 /\ b[1] = z /\ b # << >>
  BY DEF Batches
<1> HIDE DEF b
<1>2. \A i : i \in 1..Len(b) <=> i = 1
  BY <1>1
<1>3. BatchesOK(b) <=> Aligned(z) /\ \A j \in 1..Len(z) : z[j].fn \in ComputeEvents
  BY <1>1, <1>2 DEF BatchesOK
<1> QED BY <1>1, <1>3 DEF b

\* Two events of compute steps joined to a batch.
ComputeBatch(x) == Aligned(x) /\ \A j \in 1..Len(x) : x[j].fn \in ComputeEvents

LEMMA BatchGrows ==
  ASSUME NEW z \in Seq(Events), ComputeBatch(z), NEW p \in Seq(Events), ComputeBatch(p)
  PROVE  z \o p \in Seq(Events) /\ ComputeBatch(z \o p)
<1>1. Aligned(z \o p)
  BY AlignedConcat DEF ComputeBatch
<1> DEFINE x == z \o p
<1>2. /\ x \in Seq(Events) /\ Len(x) = Len(z) + Len(p) /\ Len(z) \in Nat /\ Len(p) \in Nat
      /\ \A k \in 1 .. Len(z) + Len(p) : x[k] = IF k <= Len(z) THEN z[k] ELSE p[k - Len(z)]
  BY ConcatProperties
<1> HIDE DEF x
<1>3. ASSUME NEW k \in 1..Len(x)
      PROVE  x[k].fn \in ComputeEvents
  <2>1. CASE k <= Len(z)
    <3>1. x[k] = z[k] /\ k \in 1..Len(z)
      BY <1>2, <2>1
    <3> QED BY <3>1 DEF ComputeBatch
  <2>2. CASE ~(k <= Len(z))
    <3>1. x[k] = p[k - Len(z)] /\ k - Len(z) \in 1..Len(p)
      BY <1>2, <2>2
    <3> QED BY <3>1 DEF ComputeBatch
  <2> QED BY <2>1, <2>2
<1> QED BY <1>1, <1>2, <1>3 DEF x, ComputeBatch

\* The batches bs with the events p armed in the instant of the last one.
Grown(old, bs, p) ==
  /\ BatchesOK(bs) /\ bs # << >>
  /\ \A q : \A F : Sum(bs, q, F) = Sum(old, q, F) + Cnt(p, q, F)

LEMMA JoinGrown ==
  ASSUME NEW front \in Batches, BatchesOK(front), NEW z \in Seq(Events), ComputeBatch(z)
  PROVE  Grown(front, front \o <<z>>, z)
<1> DEFINE b == <<z>>
           bs == front \o b
<1>1. b \in Batches /\ b # << >> /\ BatchesOK(b)
  BY BatchAlone DEF ComputeBatch
<1>2. \A q : \A F : Sum(b, q, F) = Cnt(z, q, F)
  BY SumOne
<1> HIDE DEF b
<1>3. bs \in Batches /\ BatchesOK(bs)
  BY <1>1, BatchesJoin
<1>4. \A q : \A F : Sum(bs, q, F) = Sum(front, q, F) + Sum(b, q, F)
  BY <1>1, SumConcat
<1>5. bs # << >>
  <2>1. Len(bs) = Len(front) + Len(b) /\ Len(front) \in Nat /\ Len(b) \in Nat /\ Len(b) # 0
    BY <1>1 DEF Batches
  <2> QED BY <2>1, EmptySeq DEF Batches
<1> HIDE DEF bs
<1>6. Grown(front, bs, z)
  BY <1>2, <1>3, <1>4, <1>5 DEF Grown
<1> QED BY <1>6 DEF bs, b

LEMMA BothAppended ==
  ASSUME NEW z \in Seq(Events), NEW e \in Events, NEW d \in Events
  PROVE  /\ Append(z, e) \in Seq(Events)
         /\ Append(Append(z, e), d) = z \o <<e, d>>
         /\ Append(<<e>>, d) = <<e, d>> /\ <<e, d>> \in Seq(Events) /\ <<e>> \in Seq(Events)
<1> DEFINE p == <<e, d>>
           y == Append(z, e)
           x == Append(y, d)
           w == z \o p
<1>1. p \in Seq(Events) /\ Len(p) = 2 /\ p[1] = e /\ p[2] = d /\ Len(z) \in Nat
  OBVIOUS
<1>2. /\ y \in Seq(Events) /\ Len(y) = Len(z) + 1 /\ y[Len(z) + 1] = e
      /\ \A k \in 1..Len(z) : y[k] = z[k]
  OBVIOUS
<1>3. Append(<<e>>, d) = p /\ <<e>> \in Seq(Events)
  <2> DEFINE b == <<e>>
  <2>1. b \in Seq(Events)
    OBVIOUS
  <2> HIDE DEF b
  <2>2. Append(b, d) = b \o <<d>>
    BY <2>1, AppendIsConcat
  <2> QED BY <2>1, <2>2, TwoSingles DEF b
<1> HIDE DEF p, y
<1>4. /\ x \in Seq(Events) /\ Len(x) = Len(y) + 1 /\ x[Len(y) + 1] = d
      /\ \A k \in 1..Len(y) : x[k] = y[k]
  BY <1>2
<1>5. /\ w \in Seq(Events) /\ Len(w) = Len(z) + Len(p)
      /\ \A k \in 1 .. Len(z) + Len(p) : w[k] = IF k <= Len(z) THEN z[k] ELSE p[k - Len(z)]
  BY <1>1, ConcatProperties
<1> HIDE DEF x, w
<1>6. \A k \in 1..Len(x) : x[k] = w[k]
  <2> SUFFICES ASSUME NEW k \in 1..Len(x) PROVE x[k] = w[k]
    OBVIOUS
  <2>1. k \in 1 .. Len(z) + 2
    BY <1>1, <1>2, <1>4
  <2>2. CASE k <= Len(z)
    BY <1>1, <1>2, <1>4, <1>5, <2>1, <2>2
  <2>3. CASE k = Len(z) + 1
    BY <1>1, <1>2, <1>4, <1>5, <2>1, <2>3
  <2>4. CASE k = Len(z) + 2
    <3>1. x[k] = d
      BY <1>2, <1>4, <2>4
    <3>2. ~(k <= Len(z)) /\ k - Len(z) = 2 /\ k \in 1 .. Len(z) + Len(p)
      BY <1>1, <2>4
    <3>3. w[k] = p[2]
      BY <1>5, <3>2
    <3> QED BY <1>1, <3>1, <3>3
  <2> QED BY <1>1, <2>1, <2>2, <2>3, <2>4
<1>7. x = w
  BY <1>1, <1>2, <1>4, <1>5, <1>6, SeqEqual
<1> QED BY <1>1, <1>2, <1>3, <1>7 DEF x, w, y, p

LEMMA BothAdded ==
  ASSUME NEW bs, BatchesOK(bs), NEW e \in Events, NEW d \in Events, ComputeBatch(<<e, d>>)
  PROVE  /\ Grown(bs, AddTo(Append(bs, <<e>>), d), <<e, d>>)
         /\ bs # << >> => Grown(bs, AddTo(AddTo(bs, e), d), <<e, d>>)
<1> DEFINE p == <<e, d>>
<1>0. bs \in Batches /\ p \in Seq(Events) /\ ComputeBatch(p)
  BY BothAppended DEF BatchesOK
<1>1. Grown(bs, AddTo(Append(bs, <<e>>), d), p)
  <2> DEFINE x == <<e>>
  <2>1. x \in Seq(Events) /\ Append(x, d) = p
    BY BothAppended
  <2>2. Append(bs, x) = bs \o <<x>>
    <3> HIDE DEF x
    <3> QED BY <1>0, <2>1 DEF Batches
  <2>3. AddTo(bs \o <<x>>, d) = bs \o <<p>>
    <3> HIDE DEF x, p
    <3>1. AddTo(bs \o <<x>>, d) = bs \o <<Append(x, d)>>
      BY <1>0, <2>1, AddToLast
    <3> QED BY <2>1, <3>1
  <2>4. Grown(bs, bs \o <<p>>, p)
    <3> HIDE DEF p
    <3> QED BY <1>0, JoinGrown
  <2> HIDE DEF p, x
  <2>5. Grown(bs, AddTo(Append(bs, x), d), p)
    BY <2>2, <2>3, <2>4
  <2> QED BY <2>5 DEF x
<1>2. ASSUME bs # << >>
      PROVE  Grown(bs, AddTo(AddTo(bs, e), d), p)
  <2>1. PICK front \in Batches, z \in Seq(Events) : bs = front \o <<z>>
    BY <1>0, <1>2, LastOf
  <2>2. AddTo(bs, e) = front \o <<Append(z, e)>>
    BY <2>1, AddToLast
  <2> DEFINE y == Append(z, e)
             w == z \o p
             b == <<z>>
  <2>3. y \in Seq(Events) /\ Append(y, d) = w
    BY BothAppended
  <2>4. AddTo(front \o <<y>>, d) = front \o <<w>>
    <3> HIDE DEF y, w
    <3>1. AddTo(front \o <<y>>, d) = front \o <<Append(y, d)>>
      BY <2>3, AddToLast
    <3> QED BY <2>3, <3>1
  <2>5. b \in Batches /\ (BatchesOK(b) <=> ComputeBatch(z))
    BY BatchAlone DEF ComputeBatch
  <2>6. \A q : \A F : Sum(b, q, F) = Cnt(z, q, F)
    BY SumOne
  <2>7. bs = front \o b
    BY <2>1
  <2> HIDE DEF b, y, p
  <2>8. BatchesOK(front) /\ BatchesOK(b)
    BY <2>5, <2>7, BatchesJoin
  <2>9. w \in Seq(Events) /\ ComputeBatch(w)
    BY <1>0, <2>5, <2>8, BatchGrows
  <2>10. Grown(front, front \o <<w>>, w)
    <3> HIDE DEF w
    <3> QED BY <2>8, <2>9, JoinGrown
  <2>11. ASSUME NEW q, NEW F
         PROVE  /\ Sum(bs, q, F) = Sum(front, q, F) + Cnt(z, q, F)
                /\ Cnt(w, q, F) = Cnt(z, q, F) + Cnt(p, q, F)
                /\ Sum(front, q, F) \in Nat /\ Cnt(z, q, F) \in Nat /\ Cnt(p, q, F) \in Nat
    <3>1. Sum(front \o b, q, F) = Sum(front, q, F) + Sum(b, q, F)
      BY <2>5, SumConcat
    <3>2. Cnt(z \o p, q, F) = Cnt(z, q, F) + Cnt(p, q, F)
      BY <1>0, CntConcat
    <3>3. Sum(front, q, F) \in Nat
      BY SpotsFinite
    <3>4. Cnt(z, q, F) \in Nat /\ Cnt(p, q, F) \in Nat
      BY <1>0, PlacesFinite
    <3> QED BY <2>6, <2>7, <3>1, <3>2, <3>3, <3>4
  <2>12. AddTo(AddTo(bs, e), d) = front \o <<w>>
    BY <2>2, <2>4 DEF y
  <2> HIDE DEF w
  <2> DEFINE n == front \o <<w>>
  <2>13. \A q : \A F : Sum(n, q, F) = Sum(front, q, F) + Cnt(w, q, F)
    BY <2>10 DEF Grown
  <2>14. BatchesOK(n) /\ n # << >>
    BY <2>10 DEF Grown
  <2> HIDE DEF n
  <2>15. \A q : \A F : Sum(n, q, F) = Sum(bs, q, F) + Cnt(p, q, F)
    <3> SUFFICES ASSUME NEW q, NEW F PROVE Sum(n, q, F) = Sum(bs, q, F) + Cnt(p, q, F)
      OBVIOUS
    <3>1. Sum(n, q, F) = Sum(front, q, F) + Cnt(w, q, F)
      BY <2>13
    <3> QED BY <2>11, <3>1
  <2>16. Grown(bs, n, p)
    BY <2>14, <2>15 DEF Grown
  <2> QED BY <2>12, <2>16 DEF n
<1> QED BY <1>1, <1>2

\* Both ranks arm timers of a kind with events of one name.
LEMMA TwoArm ==
  ASSUME NEW t, TimerOK(t), NEW k \in Kinds, NEW e \in Events, NEW d \in Events,
         e.fn \in ComputeEvents, e.fn \in Paired, d.fn = e.fn, d.rank = Mate(e.rank)
  PROVE  /\ TimerOK(Arm(Arm(t, k, e), k, d))
         /\ \A q : \A F : ArmedOf(Arm(Arm(t, k, e), k, d), q, F)
                            = ArmedOf(t, q, F) + Cnt(<<e, d>>, q, F)
<1> DEFINE p == <<e, d>>
           bs == t.batches[k]
           t1 == Arm(t, k, e)
           t2 == Arm(t1, k, d)
           n1 == t1.batches[k]
           new == t2.batches[k]
<1>1. ComputeBatch(p)
  <2>1. Aligned(p)
    BY AlignedPair
  <2>2. Len(p) = 2 /\ p[1] = e /\ p[2] = d
    OBVIOUS
  <2> HIDE DEF p
  <2>3. ASSUME NEW j \in 1..Len(p) PROVE p[j].fn \in ComputeEvents
    <3>1. j = 1 \/ j = 2
      BY <2>2
    <3> QED BY <2>2, <3>1
  <2> QED BY <2>1, <2>3 DEF ComputeBatch
<1>2. BatchesOK(bs) /\ (k \in t.open => bs # << >>)
  BY DEF TimerOK
<1>3. t.batches = [kind \in Kinds |-> t.batches[kind]]
  BY DEF TimerOK
<1>4. /\ n1 = (IF k \in t.open THEN AddTo(bs, e) ELSE Append(bs, <<e>>))
      /\ t1.open = t.open \cup {k}
      /\ \A kind \in Kinds : kind # k => t1.batches[kind] = t.batches[kind]
      /\ t1.batches = [kind \in Kinds |-> t1.batches[kind]]
  <2> DEFINE m == IF k \in t.open THEN AddTo(bs, e) ELSE Append(bs, <<e>>)
  <2>1. t1 = [batches |-> [t.batches EXCEPT ![k] = m], open |-> t.open \cup {k}]
    BY DEF Arm
  <2> HIDE DEF m
  <2> QED BY SMTT(30), <1>3, <2>1 DEF m
<1> HIDE DEF t1
<1>5. /\ new = AddTo(n1, d)
      /\ t2.open = t.open \cup {k}
      /\ \A kind \in Kinds : kind # k => t2.batches[kind] = t.batches[kind]
      /\ t2 = [batches |-> [kind \in Kinds |-> t2.batches[kind]], open |-> t2.open]
  <2> DEFINE m == AddTo(n1, d)
  <2>1. t2 = [batches |-> [t1.batches EXCEPT ![k] = m], open |-> t1.open \cup {k}]
    BY <1>4 DEF Arm
  <2> HIDE DEF m
  <2> QED BY <1>4, <2>1 DEF m
<1> HIDE DEF t2
<1>6. Grown(bs, new, p)
  <2>1. CASE k \in t.open
    <3>1. new = AddTo(AddTo(bs, e), d)
      BY <1>4, <1>5, <2>1
    <3>2. Grown(bs, AddTo(AddTo(bs, e), d), p)
      BY <1>1, <1>2, <2>1, BothAdded
    <3> QED BY <3>1, <3>2
  <2>2. CASE k \notin t.open
    <3>1. new = AddTo(Append(bs, <<e>>), d)
      BY <1>4, <1>5, <2>2
    <3>2. Grown(bs, AddTo(Append(bs, <<e>>), d), p)
      BY <1>1, <1>2, BothAdded
    <3> QED BY <3>1, <3>2
  <2> QED BY <2>1, <2>2
<1> HIDE DEF p, new
<1>7. TimerOK(t2)
  <2>1. ASSUME NEW kind \in Kinds
        PROVE  BatchesOK(t2.batches[kind]) /\ (kind \in t2.open => t2.batches[kind] # << >>)
    <3>1. CASE kind = k
      BY <1>6, <3>1 DEF Grown, new
    <3>2. CASE kind # k
      BY <1>5, <3>2 DEF TimerOK
    <3> QED BY <3>1, <3>2
  <2> QED BY <1>5, <2>1 DEF TimerOK
<1>8. ASSUME NEW q, NEW F
      PROVE  ArmedOf(t2, q, F) = ArmedOf(t, q, F) + Cnt(p, q, F)
  <2>1. Sum(new, q, F) = Sum(bs, q, F) + Cnt(p, q, F)
    BY <1>6 DEF Grown
  <2>2. \A kind \in Kinds : Sum(t.batches[kind], q, F) \in Nat
    BY SpotsFinite DEF TimerOK, BatchesOK
  <2>3. Cnt(p, q, F) \in Nat
    <3>1. p \in Seq(Events)
      BY BothAppended DEF p
    <3> QED BY <3>1, PlacesFinite
  <2>4. CASE k = "fwd"
    <3>1. t2.batches["bwd"] = t.batches["bwd"] /\ t2.batches["fwd"] = new /\ bs = t.batches["fwd"]
      BY <1>5, <2>4 DEF Kinds, new
    <3>2. Sum(t.batches["bwd"], q, F) \in Nat /\ Sum(t.batches["fwd"], q, F) \in Nat
      BY <2>2 DEF Kinds
    <3> QED BY <2>1, <2>3, <3>1, <3>2 DEF ArmedOf
  <2>5. CASE k = "bwd"
    <3>1. t2.batches["fwd"] = t.batches["fwd"] /\ t2.batches["bwd"] = new /\ bs = t.batches["bwd"]
      BY <1>5, <2>5 DEF Kinds, new
    <3>2. Sum(t.batches["bwd"], q, F) \in Nat /\ Sum(t.batches["fwd"], q, F) \in Nat
      BY <2>2 DEF Kinds
    <3> QED BY <2>1, <2>3, <3>1, <3>2 DEF ArmedOf
  <2> QED BY <2>4, <2>5 DEF Kinds
<1> QED BY <1>7, <1>8 DEF t2, t1, p

-----------------------------------------------------------------------------
(***************************************************************************)
(* SendChunkFinish: the two ends of a queue pair of the ring.              *)
(***************************************************************************)
Ends(r, m, s, i, j) ==
  /\ RankOK(View(r), s, i, conf) /\ RankOK(View(m), s, j, conf)
  /\ PairOK(View(r), View(m))
  /\ r \in Rank /\ m \in Rank /\ r # m /\ Peer(r, j) = m /\ m = Mate(r) /\ r = Mate(m)
OthersStay(r, m) == \A q \in Rank : q # r /\ q # m => View(q)' = View(q)

LEMMA EndsOf ==
  ASSUME DP = 2, Settled, NEW s \in Stages, NEW i \in 0..1, NEW j, j = 1 - i,
         NEW r, r = 2*s + i, NEW m, m = 2*s + j
  PROVE  Ends(r, m, s, i, j)
<1>1. StageOK(View(2*s), View(2*s + 1), s, conf)
  BY StageOf
<1>2. /\ RankOK(View(2*s), s, 0, conf) /\ RankOK(View(2*s + 1), s, 1, conf)
      /\ PairOK(View(2*s), View(2*s + 1)) /\ PairOK(View(2*s + 1), View(2*s))
  BY <1>1, PairSym DEF StageOK
<1>3. s \in Nat
  BY DEF Stages
<1>4. r \in Rank /\ Mate(r) = 2*s + (1 - i) /\ Mate(r) \in Rank /\ Mate(r) # r
      /\ Peer(r, 1 - i) = Mate(r) /\ Mate(Mate(r)) = r
  BY RankOf
<1>5. CASE i = 0
  <2>1. r = 2*s /\ m = 2*s + 1 /\ j = 1
    BY <1>3, <1>5
  <2> QED BY <1>2, <1>4, <1>5, <2>1 DEF Ends
<1>6. CASE i = 1
  <2>1. r = 2*s + 1 /\ m = 2*s /\ j = 0
    BY <1>3, <1>6
  <2> QED BY <1>2, <1>4, <1>6, <2>1 DEF Ends
<1> QED BY <1>5, <1>6

LEMMA BothMoved ==
  ASSUME DP = 2, conf' = conf, Settled, NEW s \in Stages, NEW i \in 0..1, NEW j, j = 1 - i,
         NEW r, r = 2*s + i, NEW m, m = 2*s + j,
         NEW x, NEW y, View(r)' = x, View(m)' = y,
         OthersStay(r, m),
         RankStep(View(r), x, s, i, conf), RankStep(View(m), y, s, j, conf), PairOK(x, y)
  PROVE  AllOK(Views', conf')
<1>1. StageOK(View(2*s), View(2*s + 1), s, conf)
  BY StageOf
<1>2. s \in Nat /\ PairOK(y, x)
  BY PairSym DEF Stages
<1>5. CASE i = 0
  <2>1. r = 2*s /\ m = 2*s + 1 /\ j = 1
    BY <1>2, <1>5
  <2>2. StageOK(x, y, s, conf) /\ SameLinks(View(2*s), x, s)
    BY <1>1, <1>5, <2>1, GroupGoesOn
  <2>3. \A q \in Rank : q # 2*s /\ q # 2*s + 1 => View(q)' = View(q)
    BY <2>1 DEF OthersStay
  <2> QED BY <2>1, <2>2, <2>3, StageStep
<1>6. CASE i = 1
  <2>1. r = 2*s + 1 /\ m = 2*s /\ j = 0
    BY <1>2, <1>6
  <2>2. StageOK(y, x, s, conf) /\ SameLinks(View(2*s), y, s)
    BY <1>1, <1>2, <1>6, <2>1, GroupGoesOn
  <2>3. View(2*s)' = y /\ View(2*s + 1)' = x
        /\ \A q \in Rank : q # 2*s /\ q # 2*s + 1 => View(q)' = View(q)
    BY <2>1 DEF OthersStay
  <2> QED BY <2>2, <2>3, StageStep
<1> QED BY <1>5, <1>6

\* The ends of the queue pair of rank r, and what they become.
Finishing(r, m, d, e) ==
  /\ HasSendStep(cc[r]) /\ Peer(r, SendTarget(cc[r])) = m
  /\ FinishRecvStep(cc[m]) = d /\ FinishSend(cc[r]) = e

LEMMA FinishSent ==
  ASSUME DP = 2, NEW i \in 0..1, NEW j, j = 1 - i, NEW r, NEW m, Peer(r, j) = m,
         cc[r] = At(Ring(i, 2, 1), 1, 1, 0), cc[m] = At(Ring(j, 2, 1), 1, 1, 0)
  PROVE  Finishing(r, m, Outcome(At(cc[m], 2, 1, 0), 0, 0), Outcome(At(cc[r], 1, 1, 1), 0, 0))
<1>1. j \in 0..1
  OBVIOUS
<1>2. /\ At(cc[m], 2, 1, 0) = At(Ring(j, 2, 1), 2, 1, 0)
      /\ At(cc[r], 1, 1, 1) = At(Ring(i, 2, 1), 1, 1, 1)
      /\ cc[r].sendStep = 1
  BY DEF At
<1>3. /\ FinishRecvStep(cc[m]) = Outcome(At(Ring(j, 2, 1), 2, 1, 0), 0, 0)
      /\ FinishSend(cc[r]) = Outcome(At(Ring(i, 2, 1), 1, 1, 1), 0, 0)
      /\ SendTarget(cc[r]) = 1 - i
  BY <1>1, EndpointTwo
<1>4. HasSendStep(cc[r])
  BY <1>2 DEF HasSendStep
<1> QED BY <1>2, <1>3, <1>4 DEF Finishing

LEMMA FinishLast ==
  ASSUME DP = 2, NEW i \in 0..1, NEW j, j = 1 - i, NEW r, NEW m, Peer(r, j) = m,
         cc[r] = At(Ring(i, 2, 1), 2, 1, 0), cc[m] = At(Ring(j, 2, 1), 1, 1, 1)
  PROVE  Finishing(r, m, Outcome(At(cc[m], 2, 2, 0), 0, 1), Outcome(At(cc[r], 2, 2, 0), 0, 1))
<1>1. j \in 0..1
  OBVIOUS
<1>2. /\ At(cc[m], 2, 2, 0) = At(Ring(j, 2, 1), 2, 2, 0)
      /\ At(cc[r], 2, 2, 0) = At(Ring(i, 2, 1), 2, 2, 0)
      /\ cc[r].sendStep = 1
  BY DEF At
<1>3. /\ FinishRecvStep(cc[m]) = Outcome(At(Ring(j, 2, 1), 2, 2, 0), 0, 1)
      /\ FinishSend(cc[r]) = Outcome(At(Ring(i, 2, 1), 2, 2, 0), 0, 1)
      /\ SendTarget(cc[r]) = 1 - i
  BY <1>1, EndpointTwo
<1>4. HasSendStep(cc[r])
  BY <1>2 DEF HasSendStep
<1> QED BY <1>2, <1>3, <1>4 DEF Finishing

\* What a finished queue pair changes beside the event.
Finishes(r, m, a, b, on) ==
  /\ cc' = [cc EXCEPT ![m] = a, ![r] = b]
  /\ ringQp' = ringQp
  /\ h' = Completed({q \in {r, m} : on = 1})
  /\ timer' = ArmFor(ArmFor(timer, m, on = 1), r, on = 1)
  /\ Then(<< >>) /\ p2pQp' = p2pQp

LEMMA RingEffect ==
  ASSUME Shape, NEW r \in Rank, NEW m \in Rank, r # m, RingSendFinish(r),
         NEW a, NEW b, NEW on \in 0..1, ringQp[r] \in Nat, ringQp[m] \in Nat,
         Finishing(r, m, Outcome(a, 0, on), Outcome(b, 0, on))
  PROVE  Finishes(r, m, a, b, on)
<1> DEFINE d == Outcome(a, 0, on)
           e == Outcome(b, 0, on)
<1>1. d.cc = a /\ d.send = 0 /\ d.done = on /\ e.cc = b /\ e.send = 0 /\ e.done = on
  BY DEF Outcome
<1>2. /\ HasSendStep(cc[r]) /\ Peer(r, SendTarget(cc[r])) = m
      /\ FinishRecvStep(cc[m]) = d /\ FinishSend(cc[r]) = e
  BY DEF Finishing
<1> HIDE DEF d, e
<1>3. /\ cc' = [cc EXCEPT ![m] = d.cc, ![r] = e.cc]
      /\ ringQp' = [ringQp EXCEPT ![m] = @ + d.send, ![r] = @ + e.send]
      /\ h' = Completed({q \in {m} : d.done = 1} \cup {q \in {r} : e.done = 1})
      /\ timer' = ArmFor(ArmFor(timer, m, d.done = 1), r, e.done = 1)
      /\ Then(<< >>) /\ p2pQp' = p2pQp
  BY ZenonT(40), <1>2 DEF RingSendFinish
<1>4. {q \in {m} : d.done = 1} \cup {q \in {r} : e.done = 1} = {q \in {r, m} : on = 1}
  BY <1>1
<1>5. ringQp' = ringQp
  <2>1. ringQp' = [q \in Rank |-> ringQp'[q]]
    BY <1>3 DEF Shape
  <2>2. \A q \in Rank : ringQp'[q] = ringQp[q]
    BY <1>1, <1>3 DEF Shape
  <2> QED BY <2>1, <2>2 DEF Shape
<1> QED BY <1>1, <1>3, <1>4, <1>5 DEF Finishes

\* The events of two timers armed for both ranks of a group.
LEMMA PairGoes ==
  ASSUME NEW g \in Fns, NEW r \in Rank, NEW m \in Rank, r # m,
         NEW e, e = Ev(g, m), NEW d, d = Ev(g, r)
  PROVE  /\ e \in Events /\ d \in Events /\ e.fn = g /\ d.fn = g /\ e.rank = m /\ d.rank = r
         /\ GoesTo(<<e, d>>, r, g) /\ GoesTo(<<e, d>>, m, g)
         /\ \A q : q # r /\ q # m => GoesTo(<<e, d>>, q, "None")
<1> DEFINE p == <<e>>
           t == <<d>>
<1>1. e = EvC(g, m, None) /\ d = EvC(g, r, None) /\ None \in Int
  BY DEF Ev, EvC, None
<1>2. /\ e \in Events /\ p \in Seq(Events) /\ e.fn = g /\ e.rank = m
      /\ GoesTo(p, m, g) /\ \A q : q # m => GoesTo(p, q, "None")
  BY <1>1, GoesOne
<1>3. /\ d \in Events /\ t \in Seq(Events) /\ d.fn = g /\ d.rank = r
      /\ GoesTo(t, r, g) /\ \A q : q # r => GoesTo(t, q, "None")
  BY <1>1, GoesOne
<1>4. <<e, d>> = p \o t
  BY TwoSingles
<1> HIDE DEF p, t
<1>5. g # "None"
  BY FnNames
<1>6. GoesTo(p \o t, m, g)
  <2>1. GoesTo(p \o t, m, IF g = "None" THEN "None" ELSE g)
    BY <1>2, <1>3, <1>5, GoesBoth
  <2> QED BY <1>5, <2>1
<1>7. GoesTo(p \o t, r, g)
  <2>1. GoesTo(p \o t, r, IF "None" = "None" THEN g ELSE "None")
    BY <1>2, <1>3, GoesBoth
  <2> QED BY <2>1
<1>8. ASSUME NEW q, q # r, q # m
      PROVE  GoesTo(p \o t, q, "None")
  <2>1. GoesTo(p \o t, q, IF "None" = "None" THEN "None" ELSE "None")
    BY <1>2, <1>3, <1>8, GoesBoth
  <2> QED BY <2>1
<1> QED BY <1>2, <1>3, <1>4, <1>6, <1>7, <1>8

\* What the ends of a queue pair of the ring become, and the timers they arm.
Armed(r, m, g) ==
  /\ TimerOK(timer') /\ Gives(r, << >>, g) /\ Gives(m, << >>, g)
  /\ \A q \in Rank : q # r /\ q # m => Gives(q, << >>, "None")
BothChange(r, m, u, z, a, b, g) ==
  /\ View(r)' = Moved(View(r), "SendChunkFinish", z, b, ringQp[r], p2pQp[r], g)
  /\ View(m)' = Moved(View(m), "None", u, a, ringQp[m], p2pQp[m], g)
  /\ OthersStay(r, m)

LEMMA RingViews ==
  ASSUME Shape, conf' = conf, NEW r \in Rank, NEW m \in Rank, r # m,
         Due("SendChunkFinish", r), Then(<< >>), NEW g \in Fns \cup {"None"},
         NEW u, NEW z, NEW a, NEW b,
         h' = [h EXCEPT ![m] = u, ![r] = z], cc' = [cc EXCEPT ![m] = a, ![r] = b],
         ringQp' = ringQp, p2pQp' = p2pQp, Armed(r, m, g)
  PROVE  Shape' /\ BothChange(r, m, u, z, a, b, g)
<1>1. /\ events \in Seq(Events) /\ events # << >> /\ Tail(events) \in Seq(Events)
      /\ << >> \in Seq(Events) /\ events' = Tail(events) \o << >>
  <2>1. events \in Seq(Events) /\ events # << >>
    BY DEF Shape, Due
  <2> QED BY <2>1, TailOf DEF Then
<1>2. Shape'
  <2>1. events' \in Seq(Events)
    BY <1>1
  <2>2. h' = [q \in Rank |-> h'[q]] /\ cc' = [q \in Rank |-> cc'[q]]
    BY DEF Shape
  <2>3. ringQp' = [q \in Rank |-> ringQp'[q]] /\ p2pQp' = [q \in Rank |-> p2pQp'[q]]
    BY DEF Shape
  <2> QED BY <2>1, <2>2, <2>3 DEF Shape, Rank, Armed
<1>3. ASSUME NEW q \in Rank, NEW k, Gives(q, << >>, k)
      PROVE  View(q)' = Moved(View(q), FirstFn(q), h'[q], cc'[q], ringQp[q], p2pQp[q], k)
  <2>1. View(q)' = Moved(View(q), FirstFn(q), h'[q], cc'[q], ringQp'[q], p2pQp'[q], k)
    BY <1>1, <1>3, MovedView DEF Armed
  <2> QED BY <2>1
<1>4. FirstFn(r) = "SendChunkFinish" /\ \A q : q # r => FirstFn(q) = "None"
  BY DEF FirstFn, Due
<1>5. /\ h'[r] = z /\ cc'[r] = b /\ h'[m] = u /\ cc'[m] = a
      /\ \A q \in Rank : q # r /\ q # m => h'[q] = h[q] /\ cc'[q] = cc[q]
  BY DEF Shape
<1>6. View(r)' = Moved(View(r), "SendChunkFinish", z, b, ringQp[r], p2pQp[r], g)
  BY <1>3, <1>4, <1>5 DEF Armed
<1>7. View(m)' = Moved(View(m), "None", u, a, ringQp[m], p2pQp[m], g)
  BY <1>3, <1>4, <1>5 DEF Armed
<1>8. ASSUME NEW q \in Rank, q # r, q # m
      PROVE  View(q)' = View(q)
  <2>1. Gives(q, << >>, "None")
    BY <1>8 DEF Armed
  <2>2. View(q)' = Moved(View(q), "None", h[q], cc[q], ringQp[q], p2pQp[q], "None")
    BY <1>3, <1>4, <1>5, <1>8, <2>1
  <2> QED BY <2>2, Still
<1> QED BY <1>2, <1>6, <1>7, <1>8 DEF BothChange, OthersStay

\* No timer is armed.
LEMMA NoneArmed ==
  ASSUME Shape, timer' = timer, NEW q
  PROVE  Gives(q, << >>, "None")
<1> SUFFICES ASSUME NEW k \in Fns
             PROVE  ArmedOf(timer, q, {k}) + Cnt(<< >>, q, {k})
                      = ArmedOf(timer, q, {k}) + One(k = "None")
  BY DEF Gives
<1>1. ArmedOf(timer, q, {k}) \in Nat
  BY ArmedNat DEF Shape
<1>2. Cnt(<< >>, q, {k}) = 0 /\ One(k = "None") = 0
  BY CntEmpty, FnNames DEF One
<1> QED BY <1>1, <1>2

\* Both ranks arm the timer of event g.
LEMMA BothArmed ==
  ASSUME Shape, NEW r \in Rank, NEW m \in Rank, r # m, r = Mate(m),
         NEW g \in ComputeEvents, g \in Paired, NEW kind \in Kinds,
         timer' = Arm(Arm(timer, kind, Ev(g, m)), kind, Ev(g, r))
  PROVE  Armed(r, m, g)
<1> DEFINE e == Ev(g, m)
           d == Ev(g, r)
           p == <<e, d>>
<1>0. g \in Fns
  BY DEF Fns
<1>1. /\ e \in Events /\ d \in Events /\ e.fn = g /\ d.fn = g /\ e.rank = m /\ d.rank = r
      /\ GoesTo(p, r, g) /\ GoesTo(p, m, g)
      /\ \A q : q # r /\ q # m => GoesTo(p, q, "None")
  BY <1>0, PairGoes
<1>2. timer' = Arm(Arm(timer, kind, e), kind, d) /\ TimerOK(timer)
  BY DEF Shape
<1> HIDE DEF e, d
<1>3. /\ TimerOK(timer')
      /\ \A q : \A F : ArmedOf(timer', q, F) = ArmedOf(timer, q, F) + Cnt(p, q, F)
  BY <1>1, <1>2, TwoArm
<1> HIDE DEF p
<1>4. ASSUME NEW q, NEW k, GoesTo(p, q, k)
      PROVE  Gives(q, << >>, k)
  <2> SUFFICES ASSUME NEW f \in Fns
               PROVE  ArmedOf(timer', q, {f}) + Cnt(<< >>, q, {f})
                        = ArmedOf(timer, q, {f}) + One(f = k)
    BY DEF Gives
  <2>1. ArmedOf(timer', q, {f}) = ArmedOf(timer, q, {f}) + Cnt(p, q, {f})
    BY <1>3
  <2>2. Cnt(p, q, {f}) = One(f = k) /\ Cnt(<< >>, q, {f}) = 0
    BY <1>4, CntEmpty DEF GoesTo
  <2>3. ArmedOf(timer, q, {f}) \in Nat /\ One(f = k) \in Nat
    BY ArmedNat DEF Shape, One
  <2> QED BY <2>1, <2>2, <2>3
<1> QED BY <1>1, <1>3, <1>4 DEF Armed

LEMMA RingStep ==
  ASSUME DP = 2, Shape, conf \in EventConf, conf' = conf, Settled, NEW r \in Rank,
         RingSendFinish(r)
  PROVE  Shape' /\ Settled'
<1> DEFINE f == "SendChunkFinish"
<1>1. Due(f, r) /\ f \in Singles
  BY DEF RingSendFinish, Singles
<1>2. /\ f \in Fns /\ View(r).n[f] # 0 /\ Aligned(Tail(events)) /\ Tail(events) \in Seq(Events)
      /\ \E s \in Stages, i \in 0..1 : r = 2*s + i
  BY <1>1, SingleDue
<1>3. PICK s \in Stages, i \in 0..1 : r = 2*s + i
  BY <1>2
<1>j. PICK j : j = 1 - i
  OBVIOUS
<1>m. PICK m : m = 2*s + j
  OBVIOUS
<1> DEFINE v == View(r)
           w == View(m)
<1>e. Ends(r, m, s, i, j)
  BY <1>3, <1>j, <1>m, EndsOf
<1>4. /\ RankOK(v, s, i, conf) /\ RankOK(w, s, j, conf) /\ PairOK(v, w)
      /\ m \in Rank /\ r # m /\ Peer(r, j) = m /\ r = Mate(m) /\ j \in 0..1
  BY <1>e, <1>j DEF Ends
<1>5. /\ v.h = h[r] /\ v.cc = cc[r] /\ v.rq = ringQp[r] /\ v.pq = p2pQp[r]
      /\ w.h = h[m] /\ w.cc = cc[m] /\ w.rq = ringQp[m] /\ w.pq = p2pQp[m]
  BY DEF View
<1>6. ringQp[r] \in Nat /\ ringQp[m] \in Nat
  BY <1>4, <1>5 DEF RankOK, Types
<1>7. /\ Act(v) \in RingPhases /\ v.n["RdmaStart"] = 0
      /\ \/ v.cc = At(Ring(i, 2, 1), 1, 1, 0) /\ w.cc = At(Ring(j, 2, 1), 1, 1, 0)
         \/ v.cc = At(Ring(i, 2, 1), 2, 1, 0) /\ w.cc = At(Ring(j, 2, 1), 1, 1, 1)
  BY <1>2, <1>4, <1>j, RingEnds
<1> HIDE DEF v, w
<1>8. ASSUME v.cc = At(Ring(i, 2, 1), 1, 1, 0), w.cc = At(Ring(j, 2, 1), 1, 1, 0)
      PROVE  Shape' /\ AllOK(Views', conf') /\ Then(<< >>)
  <2>1. Finishing(r, m, Outcome(At(cc[m], 2, 1, 0), 0, 0), Outcome(At(cc[r], 1, 1, 1), 0, 0))
    BY <1>4, <1>5, <1>8, <1>j, FinishSent
  <2> DEFINE a == At(cc[m], 2, 1, 0)
             b == At(cc[r], 1, 1, 1)
  <2>f. Finishing(r, m, Outcome(a, 0, 0), Outcome(b, 0, 0)) /\ 0 \in 0..1
    BY <2>1
  <2> HIDE DEF a, b
  <2>2. Finishes(r, m, a, b, 0)
    BY <1>4, <1>6, <2>f, RingEffect
  <2>3. timer' = timer
    BY <2>2 DEF ArmFor, Finishes
  <2>4. h' = [h EXCEPT ![m] = h[m], ![r] = h[r]]
    <3>1. h' = [q \in Rank |-> h[q]]
      BY <2>2 DEF Completed, Finishes
    <3> QED BY <3>1 DEF Shape
  <2>g. TimerOK(timer') /\ \A q : Gives(q, << >>, "None")
    BY <2>3, NoneArmed DEF Shape
  <2> DEFINE g == "None"
             u == h[m]
             z == h[r]
  <2>5. Armed(r, m, g) /\ g \in Fns \cup {"None"}
    BY <2>g DEF Armed
  <2> DEFINE x == Sent(v)
             y == Received(w)
  <2>7. /\ x = Moved(v, "SendChunkFinish", z, b, ringQp[r], p2pQp[r], g)
        /\ y = Moved(w, "None", u, a, ringQp[m], p2pQp[m], g)
    BY <1>5 DEF Sent, Received, a, b
  <2>h. h' = [h EXCEPT ![m] = u, ![r] = z]
    BY <2>4
  <2> HIDE DEF g, u, z
  <2>6. Shape' /\ BothChange(r, m, u, z, a, b, g)
    BY <1>1, <1>4, <2>2, <2>h, <2>5, RingViews DEF Finishes
  <2>8. v.n["SendChunkFinish"] # 0
    BY <1>2 DEF v
  <2> HIDE DEF x, y
  <2>n. View(r)' = x /\ View(m)' = y /\ OthersStay(r, m)
    BY <2>6, <2>7 DEF BothChange, v, w
  <2>9. RankStep(v, x, s, i, conf) /\ RankStep(w, y, s, j, conf) /\ PairOK(x, y)
    BY <1>4, <1>8, <1>j, <2>8, RingSent DEF x, y
  <2>10. AllOK(Views', conf')
    BY <1>3, <1>j, <1>m, <2>n, <2>9, BothMoved DEF v, w
  <2> QED BY <2>2, <2>6, <2>10 DEF Finishes
<1>9. ASSUME v.cc = At(Ring(i, 2, 1), 2, 1, 0), w.cc = At(Ring(j, 2, 1), 1, 1, 1)
      PROVE  Shape' /\ AllOK(Views', conf') /\ Then(<< >>)
  <2>1. Finishing(r, m, Outcome(At(cc[m], 2, 2, 0), 0, 1), Outcome(At(cc[r], 2, 2, 0), 0, 1))
    BY <1>4, <1>5, <1>9, <1>j, FinishLast
  <2> DEFINE a == At(cc[m], 2, 2, 0)
             b == At(cc[r], 2, 2, 0)
  <2>f. Finishing(r, m, Outcome(a, 0, 1), Outcome(b, 0, 1)) /\ 1 \in 0..1
    BY <2>1
  <2> HIDE DEF a, b
  <2>2. Finishes(r, m, a, b, 1)
    BY <1>4, <1>6, <2>f, RingEffect
  <2> DEFINE g == CbEvent[h[r].cb]
             kind == CbTimer[h[r].cb]
  <2>3. /\ h[m].cb = h[r].cb
        /\ h[r].cb \in {"OnFwdAGComplete", "OnBwdAGComplete", "OnBwdRSComplete"}
    BY <1>4, <1>5, <1>7 DEF PairOK, Alike, RankOK, Notes, RingPhases
  <2>4. /\ g \in ComputeEvents /\ g \in Paired /\ kind \in Kinds
        /\ g = CbEvent[h[m].cb] /\ kind = CbTimer[h[m].cb]
    BY <2>3 DEF CbEvent, CbTimer, ComputeEvents, TimerEvents, Paired, Kinds
  <2>5. timer' = Arm(Arm(timer, kind, Ev(g, m)), kind, Ev(g, r))
    BY <2>2, <2>4 DEF ArmFor, Finishes
  <2>k. g = CbEvent[v.h.cb] /\ g = CbEvent[w.h.cb]
    BY <1>5, <2>4
  <2> HIDE DEF g, kind
  <2>6. Armed(r, m, g)
    BY <1>4, <2>4, <2>5, BothArmed
  <2> DEFINE u == [h[m] EXCEPT !.phase = CbPhase[h[m].cb]]
             z == [h[r] EXCEPT !.phase = CbPhase[h[r].cb]]
  <2>7. h' = [h EXCEPT ![m] = u, ![r] = z]
    <3>1. h' = [q \in Rank |-> IF q \in {r, m} THEN [h[q] EXCEPT !.phase = CbPhase[h[q].cb]]
                               ELSE h[q]]
      BY <2>2 DEF Completed, Finishes
    <3>2. h' = [q \in Rank |-> IF q = r THEN z ELSE IF q = m THEN u ELSE h[q]]
      BY <3>1
    <3> HIDE DEF u, z
    <3> QED BY <1>4, <3>2 DEF Shape
  <2> DEFINE x == Completes(v, "SendChunkFinish")
             y == Completes(w, "None")
  <2>8. g \in Fns \cup {"None"}
    BY <2>4 DEF Fns
  <2>9. x = Moved(v, "SendChunkFinish", z, b, ringQp[r], p2pQp[r], g)
    BY <1>5, <2>k DEF Completes, a, b
  <2>10. y = Moved(w, "None", u, a, ringQp[m], p2pQp[m], g)
    BY <1>5, <2>k DEF Completes, a, b
  <2> HIDE DEF u, z
  <2>11. Shape' /\ BothChange(r, m, u, z, a, b, g)
    BY <1>1, <1>4, <2>2, <2>6, <2>7, <2>8, RingViews DEF Finishes
  <2>12. v.n["SendChunkFinish"] # 0
    BY <1>2 DEF v
  <2> HIDE DEF x, y
  <2>13. View(r)' = x /\ View(m)' = y /\ OthersStay(r, m)
    BY <2>9, <2>10, <2>11 DEF BothChange, v, w
  <2>14. RankStep(v, x, s, i, conf) /\ RankStep(w, y, s, j, conf) /\ PairOK(x, y)
    BY <1>4, <1>9, <1>j, <2>12, RingCompleted DEF x, y
  <2>15. AllOK(Views', conf')
    BY <1>3, <1>j, <1>m, <2>13, <2>14, BothMoved DEF v, w
  <2> QED BY <2>2, <2>11, <2>15 DEF Finishes
<1>10. Shape' /\ AllOK(Views', conf') /\ Then(<< >>)
  BY <1>7, <1>8, <1>9
<1>11. Aligned(events')
  <2>1. << >> \in Seq(Events)
    OBVIOUS
  <2> QED BY <1>2, <1>10, <2>1, AlignedEmpty, StillAligned
<1> QED BY <1>10, <1>11 DEF Settled

-----------------------------------------------------------------------------
(***************************************************************************)
(* What comes due from outside.                                            *)
(***************************************************************************)
PostEnded(v, x) ==
  /\ x.h = v.h /\ x.cc = v.cc /\ x.rq = v.rq /\ v.pq # 0 /\ x.pq = v.pq - 1
  /\ x.n \in [Fns -> Nat] /\ x.n["OnP2PSendComplete"] = v.n["OnP2PSendComplete"] + 1
  /\ \A k \in Fns : k # "OnP2PSendComplete" => x.n[k] = v.n[k]

SameCalls(v, x) ==
  /\ Act(x) = Act(v) /\ \A k \in Paired \cup Leaders : x.n[k] = v.n[k]
  /\ x.pq + x.n["OnP2PSendComplete"] = v.pq + v.n["OnP2PSendComplete"]

LEMMA PostRank ==
  ASSUME NEW c \in EventConf, NEW s \in Stages, NEW i \in 0..1, NEW v, NEW x,
         RankOK(v, s, i, c), PostEnded(v, x)
  PROVE  RankOK(x, s, i, c) /\ SameCalls(v, x)
<1>1. /\ Types(v, c) /\ Tokens(v) /\ Notes(v, s, c) /\ RingOK(v, i) /\ Counts(v, s, c)
      /\ v.n \in [Fns -> Nat] /\ v.pq \in Nat /\ v.n["OnP2PSendComplete"] \in Nat
      /\ v.n["OnP2PFwdComplete"] \in Nat /\ v.n["OnP2PBwdComplete"] \in Nat
  BY FnNames DEF RankOK, Types
<1>2. Act(x) = Act(v)
  BY DEF PostEnded, Act
<1>3. \A k \in Paired \cup Leaders : x.n[k] = v.n[k]
  <2>1. \A k \in Paired \cup Leaders : k \in Fns /\ k # "OnP2PSendComplete"
    BY DEF Fns, Singles, Paired, Leaders
  <2> QED BY <2>1 DEF PostEnded
<1>4. x.pq \in Nat /\ x.pq + x.n["OnP2PSendComplete"] = v.pq + v.n["OnP2PSendComplete"]
  BY <1>1 DEF PostEnded
<1>5. /\ x.n["OnP2PFwdRecv_EventDriven"] = v.n["OnP2PFwdRecv_EventDriven"]
      /\ x.n["OnP2PBwdRecv_EventDriven"] = v.n["OnP2PBwdRecv_EventDriven"]
      /\ x.n["OnP2PFwdRecv"] = v.n["OnP2PFwdRecv"] /\ x.n["OnP2PBwdRecv"] = v.n["OnP2PBwdRecv"]
      /\ x.n["StartApplication"] = v.n["StartApplication"]
      /\ x.n["OnP2PFwdComplete"] = v.n["OnP2PFwdComplete"]
      /\ x.n["OnP2PBwdComplete"] = v.n["OnP2PBwdComplete"]
      /\ x.n["OnFwdComputeDone"] = v.n["OnFwdComputeDone"]
      /\ x.n["OnBwdCompute1Done"] = v.n["OnBwdCompute1Done"]
      /\ x.n["OnBwdCompute2Done"] = v.n["OnBwdCompute2Done"]
      /\ x.n["RdmaStart"] = v.n["RdmaStart"]
      /\ x.n["SendChunkFinish"] = v.n["SendChunkFinish"]
  BY FnNames DEF PostEnded
<1>6. Types(x, c)
  BY <1>1, <1>4 DEF Types, PostEnded
<1>7. Tokens(x)
  <2>1. x.pq + x.n["OnP2PSendComplete"] + x.n["OnP2PFwdComplete"] + x.n["OnP2PBwdComplete"]
          <= One(Act(x) \in P2PPhases)
    BY <1>1, <1>2, <1>4, <1>5 DEF Tokens
  <2> QED BY <1>1, <1>2, <1>5, <2>1 DEF Tokens, PostEnded
<1>8. Notes(x, s, c)
  BY <1>1, <1>2 DEF Notes, PostEnded
<1>9. RingOK(x, i)
  BY <1>1, <1>2, <1>5 DEF RingOK, PostEnded
<1>10. Counts(x, s, c)
  BY <1>1, <1>2, <1>5, CountsFrame DEF PostEnded
<1> QED BY <1>2, <1>3, <1>4, <1>6, <1>7, <1>8, <1>9, <1>10 DEF RankOK, SameCalls

LEMMA PostStage ==
  ASSUME NEW c \in EventConf, NEW s \in Stages, NEW v, NEW w, StageOK(v, w, s, c)
  PROVE  /\ \A x : PostEnded(v, x) => StageOK(x, w, s, c) /\ SameLinks(v, x, s)
         /\ \A y : PostEnded(w, y) => StageOK(v, y, s, c)
<1>1. RankOK(v, s, 0, c) /\ RankOK(w, s, 1, c) /\ PairOK(v, w) /\ GroupOK(v, w)
  BY DEF StageOK
<1>2. /\ v.pq \in Nat /\ w.pq \in Nat
      /\ v.n["OnP2PSendComplete"] \in Nat /\ w.n["OnP2PSendComplete"] \in Nat
  BY <1>1, FnNames DEF RankOK, Types
<1>3. ASSUME NEW x, PostEnded(v, x)
      PROVE  StageOK(x, w, s, c) /\ SameLinks(v, x, s)
  <2>1. RankOK(x, s, 0, c) /\ SameCalls(v, x)
    BY <1>1, <1>3, PostRank
  <2>2. PairOK(x, w)
    BY <1>1, <1>3, <2>1 DEF PairOK, PostEnded, SameCalls, Paired
  <2>3. /\ x.n["OnP2PFwdStep"] = v.n["OnP2PFwdStep"] /\ x.n["OnP2PBwdStep"] = v.n["OnP2PBwdStep"]
        /\ x.n["OnP2PFwdRecv"] = v.n["OnP2PFwdRecv"] /\ x.n["OnP2PBwdRecv"] = v.n["OnP2PBwdRecv"]
        /\ x.n["OnP2PFwdRecv_EventDriven"] = v.n["OnP2PFwdRecv_EventDriven"]
        /\ x.n["OnP2PBwdRecv_EventDriven"] = v.n["OnP2PBwdRecv_EventDriven"]
        /\ x.n["OnP2PFwdComplete"] = v.n["OnP2PFwdComplete"]
        /\ x.n["OnP2PBwdComplete"] = v.n["OnP2PBwdComplete"]
    BY <2>1 DEF SameCalls, Paired, Leaders
  <2>4. x.pq + x.n["OnP2PSendComplete"] + w.pq + w.n["OnP2PSendComplete"]
          = v.pq + v.n["OnP2PSendComplete"] + w.pq + w.n["OnP2PSendComplete"]
    BY <2>1 DEF SameCalls
  <2>5. \A p : Reporting(x, w, p) = Reporting(v, w, p)
    BY <2>1, <2>4 DEF Reporting, SameCalls
  <2>6. GroupOK(x, w)
    BY <1>1, <1>3, <2>1, <2>3, <2>5 DEF GroupOK, PostEnded, SameCalls
  <2>7. SameLinks(v, x, s)
    BY <1>3, <2>1, <2>3 DEF SameLinks, FwdIn, FwdOut, BwdIn, BwdOut, PostEnded, SameCalls
  <2> QED BY <1>1, <2>1, <2>2, <2>6, <2>7 DEF StageOK
<1>4. ASSUME NEW y, PostEnded(w, y)
      PROVE  StageOK(v, y, s, c)
  <2>1. RankOK(y, s, 1, c) /\ SameCalls(w, y)
    BY <1>1, <1>4, PostRank
  <2>2. PairOK(v, y)
    BY <1>1, <1>4, <2>1 DEF PairOK, PostEnded, SameCalls, Paired
  <2>3. y.pq \in Nat /\ y.n["OnP2PSendComplete"] \in Nat
    BY <2>1, FnNames DEF RankOK, Types
  <2>4. v.pq + v.n["OnP2PSendComplete"] + y.pq + y.n["OnP2PSendComplete"]
          = v.pq + v.n["OnP2PSendComplete"] + w.pq + w.n["OnP2PSendComplete"]
    BY <1>2, <2>1, <2>3 DEF SameCalls
  <2>5. \A p : Reporting(v, y, p) = Reporting(v, w, p)
    BY <2>4 DEF Reporting
  <2>6. GroupOK(v, y)
    BY <1>1, <1>4, <2>5 DEF GroupOK, PostEnded
  <2> QED BY <1>1, <2>1, <2>2, <2>6 DEF StageOK
<1> QED BY <1>3, <1>4

\* A queue pair of the ring of a rank ends.
SentOff(v, x) ==
  /\ x.h = v.h /\ x.cc = v.cc /\ x.pq = v.pq /\ v.rq # 0 /\ x.rq = v.rq - 1
  /\ x.n \in [Fns -> Nat] /\ x.n["SendChunkFinish"] = v.n["SendChunkFinish"] + 1
  /\ \A k \in Fns : k # "SendChunkFinish" => x.n[k] = v.n[k]

LEMMA SentOffPair ==
  ASSUME NEW c \in EventConf, NEW s \in Stages, NEW i \in 0..1, NEW j \in 0..1, NEW v, NEW w, NEW x,
         RankOK(v, s, i, c), RankOK(w, s, j, c), PairOK(v, w), SentOff(v, x)
  PROVE  RankStep(v, x, s, i, c) /\ RankStep(w, w, s, j, c) /\ PairOK(x, w)
<1>1. /\ v.rq \in Nat /\ v.n["SendChunkFinish"] \in Nat /\ v.n["RdmaStart"] \in Nat /\ RingOK(v, i)
  BY FnNames DEF RankOK, Types
<1>2. v.rq + v.n["SendChunkFinish"] # 0
  BY <1>1 DEF SentOff
<1>3. Act(v) \in RingPhases /\ v.n["RdmaStart"] = 0
  BY <1>1, <1>2 DEF RingOK
<1>4. PICK recv \in 1..2, stu \in 0..1 :
        /\ recv = 1 \/ stu = 0
        /\ v.cc = At(Ring(i, 2, 1), recv, 1, stu) /\ v.rq + v.n["SendChunkFinish"] = 1 - stu
  BY <1>1, <1>3 DEF RingOK
<1>5. /\ x.h = v.h /\ x.pq = v.pq /\ x.rq \in Nat /\ x.n \in [Fns -> Nat]
      /\ \A k \in Fns : k # "SendChunkFinish" => x.n[k] = v.n[k]
      /\ x.cc = At(Ring(i, 2, 1), recv, 1, stu) /\ x.rq + x.n["SendChunkFinish"] = 1 - stu
  <2>1. x.rq = v.rq - 1 /\ v.rq # 0 /\ x.n["SendChunkFinish"] = v.n["SendChunkFinish"] + 1
    BY DEF SentOff
  <2>2. x.rq \in Nat /\ x.rq + x.n["SendChunkFinish"] = v.rq + v.n["SendChunkFinish"]
    BY <1>1, <2>1
  <2> QED BY <1>4, <2>2 DEF SentOff
<1>6. RankStep(v, x, s, i, c)
  BY <1>3, <1>4, <1>5, RingFrame
<1>7. RankStep(w, w, s, j, c)
  BY DEF RankStep, GroupStep, SameLinks
<1>8. PairOK(x, w)
  <2>1. \A k \in Paired : x.n[k] = v.n[k]
    BY <1>5 DEF Fns, Paired
  <2>2. Act(x) = Act(v) /\ x.cc = v.cc
    BY <1>4, <1>5 DEF Act
  <2> QED BY <1>5, <2>1, <2>2 DEF PairOK, Paired
<1> QED BY <1>6, <1>7, <1>8

\* Every rank after the events s have joined those due.
LEMMA JoinedView ==
  ASSUME Shape, NEW q, NEW g, NEW s \in Seq(Events), events' = events \o s, TimerOK(timer'),
         Gives(q, s, g)
  PROVE  View(q)' = Moved(View(q), "None", h'[q], cc'[q], ringQp'[q], p2pQp'[q], g)
<1>1. ASSUME NEW k \in Fns
      PROVE  Tok(q, k)' = Tok(q, k) - One(k = "None") + One(k = g)
  <2>1. events \in Seq(Events)
    BY DEF Shape
  <2>4. Cnt(events', q, {k}) = Cnt(events, q, {k}) + Cnt(s, q, {k})
    BY <2>1, CntConcat
  <2>5. /\ Cnt(events, q, {k}) \in Nat /\ Cnt(s, q, {k}) \in Nat
        /\ ArmedOf(timer, q, {k}) \in Nat /\ ArmedOf(timer', q, {k}) \in Nat
    BY <2>1, PlacesFinite, ArmedNat DEF Shape
  <2>6. ArmedOf(timer', q, {k}) + Cnt(s, q, {k}) = ArmedOf(timer, q, {k}) + One(k = g)
    BY DEF Gives
  <2>7. One(k = "None") = 0 /\ One(k = g) \in Nat
    BY FnNames DEF One
  <2>8. /\ Tok(q, k)' = ArmedOf(timer', q, {k}) + Cnt(events', q, {k})
        /\ Tok(q, k) = ArmedOf(timer, q, {k}) + Cnt(events, q, {k})
    BY TokIs
  <2> DEFINE a0 == ArmedOf(timer, q, {k})
             a1 == ArmedOf(timer', q, {k})
             c0 == Cnt(events, q, {k})
             c1 == Cnt(events', q, {k})
             cs == Cnt(s, q, {k})
             og == One(k = g)
             on == One(k = "None")
  <2>9. /\ c1 = c0 + cs /\ a1 + cs = a0 + og /\ on = 0
        /\ c0 \in Nat /\ cs \in Nat /\ a0 \in Nat /\ a1 \in Nat /\ og \in Nat
    BY <2>4, <2>5, <2>6, <2>7
  <2>10. Tok(q, k)' = a1 + c1 /\ Tok(q, k) = a0 + c0
    BY <2>8
  <2> SUFFICES Tok(q, k)' = Tok(q, k) - on + og
    OBVIOUS
  <2> HIDE DEF a0, a1, c0, c1, cs, og, on
  <2> QED BY <2>9, <2>10
<1>2. \A k \in Fns : View(q).n[k] = Tok(q, k)
  BY ViewTokens
<1>3. View(q)' = [h |-> h'[q], cc |-> cc'[q], rq |-> ringQp'[q], pq |-> p2pQp'[q],
                  n |-> [k \in Fns |-> Tok(q, k)']]
  BY DEF View
<1>4. [k \in Fns |-> Tok(q, k)'] = [k \in Fns |-> View(q).n[k] - One(k = "None") + One(k = g)]
  BY <1>1, <1>2
<1> QED BY <1>3, <1>4 DEF Moved

\* A queue pair of rank r ends: event f joins those due.
LEMMA JoinedOne ==
  ASSUME Shape, NEW r \in Rank, NEW f \in Fns, NEW e, e = Ev(f, r),
         events' = events \o <<e>>, timer' = [timer EXCEPT !.open = {}]
  PROVE  /\ e \in Events /\ e.fn = f /\ <<e>> \in Seq(Events) /\ events' \in Seq(Events)
         /\ TimerOK(timer')
         /\ \A q : IF q = r THEN View(q)' = Moved(View(q), "None", h'[q], cc'[q], ringQp'[q], p2pQp'[q], f)
                   ELSE View(q)' = Moved(View(q), "None", h'[q], cc'[q], ringQp'[q], p2pQp'[q], "None")
<1> DEFINE s == <<e>>
<1>1. e = EvC(f, r, None) /\ None \in Int
  BY DEF Ev, EvC, None
<1>2. /\ e \in Events /\ s \in Seq(Events) /\ e.fn = f
      /\ GoesTo(s, r, f) /\ \A q : q # r => GoesTo(s, q, "None")
  BY <1>1, GoesOne
<1> HIDE DEF s
<1>3. events' \in Seq(Events) /\ events \in Seq(Events)
  <2>1. events \in Seq(Events)
    BY DEF Shape
  <2> QED BY <1>2, <2>1 DEF s
<1>4. /\ TimerOK(timer') /\ timer'.batches = timer.batches
  <2>1. timer = [batches |-> [kind \in Kinds |-> timer.batches[kind]], open |-> timer.open]
    BY DEF Shape, TimerOK
  <2>2. timer'.batches = timer.batches /\ timer'.open = {}
        /\ timer' = [batches |-> timer'.batches, open |-> timer'.open]
    BY <2>1
  <2>3. timer'.batches = [kind \in Kinds |-> timer'.batches[kind]]
    BY <2>1, <2>2
  <2> QED BY <2>2, <2>3 DEF Shape, TimerOK
<1>5. ASSUME NEW q, NEW g, GoesTo(s, q, g)
      PROVE  Gives(q, s, g)
  <2> SUFFICES ASSUME NEW k \in Fns
               PROVE  ArmedOf(timer', q, {k}) + Cnt(s, q, {k})
                        = ArmedOf(timer, q, {k}) + One(k = g)
    BY DEF Gives
  <2>1. ArmedOf(timer', q, {k}) = ArmedOf(timer, q, {k})
    BY <1>4 DEF ArmedOf
  <2>2. Cnt(s, q, {k}) = One(k = g)
    BY <1>5 DEF GoesTo
  <2> QED BY <2>1, <2>2
<1>6. events' = events \o s
  BY DEF s
<1>7. ASSUME NEW q, NEW g, GoesTo(s, q, g)
      PROVE  View(q)' = Moved(View(q), "None", h'[q], cc'[q], ringQp'[q], p2pQp'[q], g)
  <2>1. Gives(q, s, g)
    BY <1>5, <1>7
  <2> QED BY <1>2, <1>4, <1>6, <2>1, JoinedView
<1>8. ASSUME NEW q
      PROVE  IF q = r THEN View(q)' = Moved(View(q), "None", h'[q], cc'[q], ringQp'[q], p2pQp'[q], f)
             ELSE View(q)' = Moved(View(q), "None", h'[q], cc'[q], ringQp'[q], p2pQp'[q], "None")
  BY <1>2, <1>7
<1> QED BY <1>2, <1>3, <1>4, <1>8 DEF s

LEMMA AlignedJoined ==
  ASSUME Shape, Settled, NEW s \in Seq(Events), Aligned(s), events' = events \o s
  PROVE  Aligned(events')
BY AlignedConcat DEF Shape, Settled

LEMMA RingQpStep ==
  ASSUME DP = 2, Shape, conf \in EventConf, conf' = conf, Settled, NEW r \in Rank, RingQpEnds(r)
  PROVE  Shape' /\ Settled'
<1> DEFINE f == "SendChunkFinish"
           e == Ev(f, r)
<1>1. /\ ringQp[r] > 0 /\ events' = events \o <<e>> /\ ringQp' = [ringQp EXCEPT ![r] = @ - 1]
      /\ timer' = [timer EXCEPT !.open = {}] /\ h' = h /\ cc' = cc /\ p2pQp' = p2pQp
  BY DEF RingQpEnds, QpEnds, Arrive
<1>2. f \in Fns /\ f \in Singles /\ f \notin Leaders
  BY FnNames DEF Singles, Leaders
<1>3. /\ e \in Events /\ e.fn = f /\ <<e>> \in Seq(Events) /\ events' \in Seq(Events)
      /\ TimerOK(timer')
      /\ \A q : IF q = r THEN View(q)' = Moved(View(q), "None", h'[q], cc'[q], ringQp'[q], p2pQp'[q], f)
                ELSE View(q)' = Moved(View(q), "None", h'[q], cc'[q], ringQp'[q], p2pQp'[q], "None")
  <2>1. f \in Fns /\ e = Ev(f, r) /\ events' = events \o <<e>>
    BY <1>1, <1>2
  <2> HIDE DEF e, f
  <2> QED BY <1>1, <2>1, JoinedOne
<1>4. Shape'
  <2>1. /\ h' = [q \in Rank |-> h'[q]] /\ cc' = [q \in Rank |-> cc'[q]]
        /\ ringQp' = [q \in Rank |-> ringQp'[q]] /\ p2pQp' = [q \in Rank |-> p2pQp'[q]]
    BY <1>1 DEF Shape
  <2> QED BY <1>3, <2>1 DEF Shape, Rank
<1>5. Aligned(events')
  <2>1. Aligned(<<e>>)
    BY <1>2, <1>3, AlignedSingle
  <2> HIDE DEF e
  <2> QED BY <1>1, <1>3, <2>1, AlignedJoined
<1>6. PICK s \in Stages, i \in 0..1 : r = 2*s + i
  BY RankForm
<1>j. PICK j : j = 1 - i
  OBVIOUS
<1>m. PICK m : m = 2*s + j
  OBVIOUS
<1> DEFINE v == View(r)
           w == View(m)
<1>7. Ends(r, m, s, i, j)
  BY <1>6, <1>j, <1>m, EndsOf
<1>8. /\ RankOK(v, s, i, conf) /\ RankOK(w, s, j, conf) /\ PairOK(v, w) /\ j \in 0..1
      /\ m \in Rank /\ r # m
  BY <1>7, <1>j DEF Ends
<1>9. PICK x : x = View(r)'
  OBVIOUS
<1>10. SentOff(v, x)
  <2>1. x = Moved(v, "None", h[r], cc[r], ringQp[r] - 1, p2pQp[r], f)
    <3>1. View(r)' = Moved(View(r), "None", h'[r], cc'[r], ringQp'[r], p2pQp'[r], f)
      BY <1>3
    <3>2. h'[r] = h[r] /\ cc'[r] = cc[r] /\ ringQp'[r] = ringQp[r] - 1 /\ p2pQp'[r] = p2pQp[r]
      BY <1>1 DEF Shape
    <3> QED BY <1>9, <3>1, <3>2, Zenon
  <2>2. v.h = h[r] /\ v.cc = cc[r] /\ v.rq = ringQp[r] /\ v.pq = p2pQp[r]
    BY DEF View
  <2>3. v.n \in [Fns -> Nat]
    BY <1>8 DEF RankOK, Types
  <2> HIDE DEF v
  <2>4. x.n = [k \in Fns |-> v.n[k] - One(k = "None") + One(k = f)]
    BY <2>1 DEF Moved
  <2>5. /\ x.n \in [Fns -> Nat] /\ x.n[f] = v.n[f] + 1
        /\ \A k \in Fns : k # f => x.n[k] = v.n[k]
    <3>1. \A k \in Fns : k # "None"
      BY FnNames
    <3> HIDE DEF f
    <3> QED BY <1>2, <2>3, <2>4, <3>1 DEF One
  <2>6. x.h = v.h /\ x.cc = v.cc /\ x.pq = v.pq /\ v.rq # 0 /\ x.rq = v.rq - 1
    BY <1>1, <2>1, <2>2 DEF Moved
  <2> QED BY <2>5, <2>6 DEF SentOff
<1>11. OthersStay(r, r)
  <2> SUFFICES ASSUME NEW q \in Rank, q # r PROVE View(q)' = View(q)
    BY DEF OthersStay
  <2>1. View(q)' = Moved(View(q), "None", h'[q], cc'[q], ringQp'[q], p2pQp'[q], "None")
    BY <1>3
  <2>2. h'[q] = h[q] /\ cc'[q] = cc[q] /\ ringQp'[q] = ringQp[q] /\ p2pQp'[q] = p2pQp[q]
    BY <1>1 DEF Shape
  <2>3. View(q)' = Moved(View(q), "None", h[q], cc[q], ringQp[q], p2pQp[q], "None")
    BY <2>1, <2>2, Zenon
  <2> QED BY <2>3, Still
<1>12. OthersStay(r, m) /\ View(m)' = w
  BY <1>8, <1>11 DEF OthersStay
<1> HIDE DEF v, w
<1>13. RankStep(v, x, s, i, conf) /\ RankStep(w, w, s, j, conf) /\ PairOK(x, w)
  BY <1>8, <1>10, SentOffPair
<1>14. AllOK(Views', conf')
  <2>1. View(r)' = x /\ View(m)' = w
    BY <1>9, <1>12
  <2> QED BY <1>6, <1>j, <1>m, <1>12, <1>13, <2>1, BothMoved DEF v, w
<1> QED BY <1>4, <1>5, <1>14 DEF Settled

LEMMA P2PQpStep ==
  ASSUME DP = 2, Shape, conf \in EventConf, conf' = conf, Settled, NEW r \in Rank, P2PQpEnds(r)
  PROVE  Shape' /\ Settled'
<1> DEFINE f == "OnP2PSendComplete"
           e == Ev(f, r)
<1>1. /\ p2pQp[r] > 0 /\ events' = events \o <<e>> /\ p2pQp' = [p2pQp EXCEPT ![r] = @ - 1]
      /\ timer' = [timer EXCEPT !.open = {}] /\ h' = h /\ cc' = cc /\ ringQp' = ringQp
  BY DEF P2PQpEnds, QpEnds, Arrive
<1>2. f \in Fns /\ f \in Singles /\ f \notin Leaders
  BY FnNames DEF Singles, Leaders
<1>3. /\ e \in Events /\ e.fn = f /\ <<e>> \in Seq(Events) /\ events' \in Seq(Events)
      /\ TimerOK(timer')
      /\ \A q : IF q = r THEN View(q)' = Moved(View(q), "None", h'[q], cc'[q], ringQp'[q], p2pQp'[q], f)
                ELSE View(q)' = Moved(View(q), "None", h'[q], cc'[q], ringQp'[q], p2pQp'[q], "None")
  <2>1. f \in Fns /\ e = Ev(f, r) /\ events' = events \o <<e>>
    BY <1>1, <1>2
  <2> HIDE DEF e, f
  <2> QED BY <1>1, <2>1, JoinedOne
<1>4. Shape'
  <2>1. /\ h' = [q \in Rank |-> h'[q]] /\ cc' = [q \in Rank |-> cc'[q]]
        /\ ringQp' = [q \in Rank |-> ringQp'[q]] /\ p2pQp' = [q \in Rank |-> p2pQp'[q]]
    BY <1>1 DEF Shape
  <2> QED BY <1>3, <2>1 DEF Shape, Rank
<1>5. Aligned(events')
  <2>1. Aligned(<<e>>)
    BY <1>2, <1>3, AlignedSingle
  <2> HIDE DEF e
  <2> QED BY <1>1, <1>3, <2>1, AlignedJoined
<1>6. PICK s \in Stages, i \in 0..1 : r = 2*s + i
  BY RankForm
<1> DEFINE v == View(2*s)
           w == View(2*s + 1)
           u == View(r)
<1>7. StageOK(v, w, s, conf) /\ 2*s \in Rank /\ 2*s + 1 \in Rank /\ 2*s # 2*s + 1
  BY StageOf
<1>8. (i = 0 => r = 2*s) /\ (i = 1 => r = 2*s + 1)
  BY <1>6, <1>7 DEF Stages
<1>9. PICK x : x = View(r)'
  OBVIOUS
<1>10. PostEnded(u, x)
  <2>1. x = Moved(u, "None", h[r], cc[r], ringQp[r], p2pQp[r] - 1, f)
    <3>1. View(r)' = Moved(View(r), "None", h'[r], cc'[r], ringQp'[r], p2pQp'[r], f)
      BY <1>3
    <3>2. h'[r] = h[r] /\ cc'[r] = cc[r] /\ ringQp'[r] = ringQp[r] /\ p2pQp'[r] = p2pQp[r] - 1
      BY <1>1 DEF Shape
    <3> QED BY <1>9, <3>1, <3>2, Zenon
  <2>2. u.h = h[r] /\ u.cc = cc[r] /\ u.rq = ringQp[r] /\ u.pq = p2pQp[r]
    BY DEF View
  <2>3. u.n \in [Fns -> Nat]
    BY ViewTokens
  <2> HIDE DEF u
  <2>4. x.n = [k \in Fns |-> u.n[k] - One(k = "None") + One(k = f)]
    BY <2>1 DEF Moved
  <2>5. /\ x.n \in [Fns -> Nat] /\ x.n[f] = u.n[f] + 1
        /\ \A k \in Fns : k # f => x.n[k] = u.n[k]
    <3>1. \A k \in Fns : k # "None"
      BY FnNames
    <3> HIDE DEF f
    <3> QED BY <1>2, <2>3, <2>4, <3>1 DEF One
  <2>6. x.h = u.h /\ x.cc = u.cc /\ x.rq = u.rq /\ u.pq # 0 /\ x.pq = u.pq - 1
    BY <1>1, <2>1, <2>2 DEF Moved
  <2> QED BY <2>5, <2>6 DEF PostEnded
<1>11. \A q \in Rank : q # r => View(q)' = View(q)
  <2> SUFFICES ASSUME NEW q \in Rank, q # r PROVE View(q)' = View(q)
    OBVIOUS
  <2>1. View(q)' = Moved(View(q), "None", h'[q], cc'[q], ringQp'[q], p2pQp'[q], "None")
    BY <1>3
  <2>2. h'[q] = h[q] /\ cc'[q] = cc[q] /\ ringQp'[q] = ringQp[q] /\ p2pQp'[q] = p2pQp[q]
    BY <1>1 DEF Shape
  <2>3. View(q)' = Moved(View(q), "None", h[q], cc[q], ringQp[q], p2pQp[q], "None")
    BY <2>1, <2>2, Zenon
  <2> QED BY <2>3, Still
<1>12. /\ \A z : PostEnded(v, z) => StageOK(z, w, s, conf) /\ SameLinks(v, z, s)
       /\ \A y : PostEnded(w, y) => StageOK(v, y, s, conf)
  BY <1>7, PostStage
<1>13. AllOK(Views', conf')
  <2>1. CASE i = 0
    <3>1. View(2*s)' = x /\ View(2*s + 1)' = w /\ u = v
      BY <1>7, <1>8, <1>9, <1>11, <2>1
    <3>2. \A q \in Rank : q # 2*s /\ q # 2*s + 1 => View(q)' = View(q)
      BY <1>8, <1>11, <2>1
    <3>3. StageOK(x, w, s, conf) /\ SameLinks(v, x, s)
      BY <1>10, <1>12, <3>1
    <3> HIDE DEF w
    <3> QED BY <3>1, <3>2, <3>3, StageStep
  <2>2. CASE i = 1
    <3>1. View(2*s + 1)' = x /\ View(2*s)' = v /\ u = w
      BY <1>7, <1>8, <1>9, <1>11, <2>2
    <3>2. \A q \in Rank : q # 2*s /\ q # 2*s + 1 => View(q)' = View(q)
      BY <1>8, <1>11, <2>2
    <3>3. StageOK(v, x, s, conf)
      BY <1>10, <1>12, <3>1
    <3>4. SameLinks(v, v, s)
      BY DEF SameLinks
    <3> QED BY <3>1, <3>2, <3>3, <3>4, StageStep
  <2> QED BY <2>1, <2>2
<1> QED BY <1>4, <1>5, <1>13 DEF Settled

\* A batch of timers expires.
LEMMA TimerStep ==
  ASSUME Shape, conf' = conf, Settled, NEW kind \in Kinds, TimerExpires(kind)
  PROVE  Shape' /\ Settled'
<1> DEFINE bs == timer.batches[kind]
           s == Head(bs)
           rest == Tail(bs)
           a == <<s>>
<1>1. /\ bs # << >> /\ events' = events \o s
      /\ timer' = [timer EXCEPT !.batches[kind] = Tail(@), !.open = {}]
      /\ h' = h /\ cc' = cc /\ ringQp' = ringQp /\ p2pQp' = p2pQp
  BY DEF TimerExpires, Arrive
<1>2. bs \in Batches /\ BatchesOK(bs)
  BY DEF Shape, TimerOK, BatchesOK
<1>3. s \in Seq(Events) /\ rest \in Batches /\ bs = a \o rest
  <2> DEFINE S == Seq(Events)
  <2>1. bs \in Seq(S)
    BY <1>2 DEF Batches
  <2> HIDE DEF bs, S
  <2>2. Head(bs) \in S /\ Tail(bs) \in Seq(S) /\ bs = <<Head(bs)>> \o Tail(bs)
    BY <1>1, <2>1, HeadTailProperties
  <2> QED BY <2>2 DEF S, Batches
<1>4. a \in Batches /\ (BatchesOK(a) <=> Aligned(s) /\ \A j \in 1..Len(s) : s[j].fn \in ComputeEvents)
  BY <1>3, BatchAlone
<1>5. \A q : \A F : Sum(a, q, F) = Cnt(s, q, F)
  BY <1>3, SumOne
<1> HIDE DEF a, s, rest
<1>6. BatchesOK(a) /\ BatchesOK(rest)
  BY <1>2, <1>3, <1>4, BatchesJoin
<1>7. \A q : \A F : Sum(bs, q, F) = Cnt(s, q, F) + Sum(rest, q, F)
  BY <1>3, <1>4, <1>5, SumConcat
<1>8. /\ timer' = [batches |-> [k \in Kinds |-> timer'.batches[k]], open |-> {}]
      /\ timer'.batches[kind] = rest
      /\ \A k \in Kinds : k # kind => timer'.batches[k] = timer.batches[k]
  <2>1. timer = [batches |-> [k \in Kinds |-> timer.batches[k]], open |-> timer.open]
    BY DEF Shape, TimerOK
  <2>2. timer.batches = [k \in Kinds |-> timer.batches[k]]
    BY <2>1
  <2>3. timer' = [batches |-> [timer.batches EXCEPT ![kind] = rest], open |-> {}]
    BY <1>1, <2>1 DEF rest
  <2> QED BY <2>2, <2>3
<1> HIDE DEF bs
<1>9. TimerOK(timer')
  <2>1. ASSUME NEW k \in Kinds
        PROVE  BatchesOK(timer'.batches[k])
    <3>1. CASE k = kind
      BY <1>6, <1>8, <3>1
    <3>2. CASE k # kind
      BY <1>8, <3>2 DEF Shape, TimerOK
    <3> QED BY <3>1, <3>2
  <2>2. timer'.open = {}
    BY <1>8
  <2> QED BY <1>8, <2>1, <2>2 DEF TimerOK
<1>10. ASSUME NEW q
       PROVE  Gives(q, s, "None")
  <2> SUFFICES ASSUME NEW k \in Fns
               PROVE  ArmedOf(timer', q, {k}) + Cnt(s, q, {k})
                        = ArmedOf(timer, q, {k}) + One(k = "None")
    BY DEF Gives
  <2>1. One(k = "None") = 0
    BY FnNames DEF One
  <2>2. Sum(bs, q, {k}) = Cnt(s, q, {k}) + Sum(rest, q, {k})
    BY <1>7
  <2>3. Cnt(s, q, {k}) \in Nat /\ Sum(rest, q, {k}) \in Nat
    BY <1>3, PlacesFinite, SpotsFinite
  <2>4. \A t \in Kinds : Sum(timer.batches[t], q, {k}) \in Nat
    BY SpotsFinite DEF Shape, TimerOK, BatchesOK
  <2>5. CASE kind = "fwd"
    <3>1. timer'.batches["fwd"] = rest /\ timer'.batches["bwd"] = timer.batches["bwd"]
          /\ timer.batches["fwd"] = bs
      BY <1>8, <2>5 DEF Kinds, bs
    <3>2. Sum(timer.batches["bwd"], q, {k}) \in Nat
      BY <2>4 DEF Kinds
    <3> QED BY <2>1, <2>2, <2>3, <3>1, <3>2 DEF ArmedOf
  <2>6. CASE kind = "bwd"
    <3>1. timer'.batches["bwd"] = rest /\ timer'.batches["fwd"] = timer.batches["fwd"]
          /\ timer.batches["bwd"] = bs
      BY <1>8, <2>6 DEF Kinds, bs
    <3>2. Sum(timer.batches["fwd"], q, {k}) \in Nat
      BY <2>4 DEF Kinds
    <3> QED BY <2>1, <2>2, <2>3, <3>1, <3>2 DEF ArmedOf
  <2> QED BY <2>5, <2>6 DEF Kinds
<1>11. Shape'
  <2>1. events' \in Seq(Events)
    BY <1>1, <1>3 DEF Shape
  <2> QED BY <1>1, <1>9, <2>1 DEF Shape, Rank
<1>12. ASSUME NEW q
       PROVE  View(q)' = View(q)
  <2>1. View(q)' = Moved(View(q), "None", h'[q], cc'[q], ringQp'[q], p2pQp'[q], "None")
    BY <1>1, <1>3, <1>9, <1>10, JoinedView
  <2>2. View(q)' = Moved(View(q), "None", h[q], cc[q], ringQp[q], p2pQp[q], "None")
    BY <1>1, <2>1
  <2> QED BY <2>2, Still
<1>13. Views' = Views
  BY <1>12 DEF Views
<1>14. Aligned(events')
  BY <1>1, <1>3, <1>4, <1>6, AlignedJoined
<1>15. AllOK(Views', conf')
  BY <1>13 DEF Settled
<1> QED BY <1>11, <1>14, <1>15 DEF Settled

LEMMA SingleHandler ==
  ASSUME NEW r, Handlers(r), Head(events).fn \in Singles
  PROVE  \/ RingSendFinish(r)
         \/ OnP2PSendComplete(r)
         \/ OnP2PFwdStep(r)
         \/ OnP2PFwdRecv(r)
         \/ OnP2PBwdStep(r)
         \/ OnP2PBwdRecv(r)
<1>1. Head(events).fn \notin Paired \cup {"ExecuteNextEntry", "OnP2PFwdRecv_Static", "OnP2PBwdRecv_Static"}
  BY Names DEF Singles, Leaders
<1>2. ~HybridStart(r)
  BY <1>1 DEF HybridStart, Due, Paired
<1>3. ~ScheduleNext(r)
  BY <1>1 DEF ScheduleNext, Due, Paired
<1>4. ~ScheduleNext_EventDriven(r)
  BY <1>1 DEF ScheduleNext_EventDriven, Due, Paired
<1>5. ~RdmaStart(r)
  BY <1>1 DEF RdmaStart, Due, Paired
<1>6. ~OnFwdComputeDone(r)
  BY <1>1 DEF OnFwdComputeDone, Due, Paired
<1>7. ~OnBwdCompute1Done(r)
  BY <1>1 DEF OnBwdCompute1Done, Due, Paired
<1>8. ~OnBwdCompute2Done(r)
  BY <1>1 DEF OnBwdCompute2Done, Due, Paired
<1>9. ~OnP2PFwdComplete(r)
  BY <1>1 DEF OnP2PFwdComplete, Due, Paired
<1>10. ~OnP2PBwdComplete(r)
  BY <1>1 DEF OnP2PBwdComplete, Due, Paired
<1>11. ~OnP2PFwdRecv_EventDriven(r)
  BY <1>1 DEF OnP2PFwdRecv_EventDriven, Due, Paired
<1>12. ~OnP2PBwdRecv_EventDriven(r)
  BY <1>1 DEF OnP2PBwdRecv_EventDriven, Due, Paired
<1>13. ~ExecuteNextEntry(r)
  BY <1>1 DEF ExecuteNextEntry, Due, Paired
<1>14. ~OnP2PFwdRecv_Static(r)
  BY <1>1 DEF OnP2PFwdRecv_Static, Due, Paired
<1>15. ~OnP2PBwdRecv_Static(r)
  BY <1>1 DEF OnP2PBwdRecv_Static, Due, Paired
<1> QED BY <1>2, <1>3, <1>4, <1>5, <1>6, <1>7, <1>8, <1>9, <1>10, <1>11, <1>12, <1>13, <1>14, <1>15 DEF Handlers

LEMMA SingleStep ==
  ASSUME DP = 2, Shape, conf \in EventConf, conf' = conf, Settled, NEW r \in Rank, Handlers(r),
         Head(events).fn \in Singles
  PROVE  Shape' /\ Settled'
BY SingleHandler, RingStep, SentStep, FwdStepStep, FwdRecvStep, BwdStepStep, BwdRecvStep

LEMMA HandlerStep ==
  ASSUME DP = 2, Shape, conf \in EventConf, conf' = conf, Settled, NEW r \in Rank, Handlers(r)
  PROVE  Shape' /\ (Settled \/ Halfway)'
<1>1. events # << >>
  BY DueIs
<1>2. Head(events) \in Events
  BY <1>1, TailOf DEF Shape
<1>3. Head(events).fn \in Paired \/ Head(events).fn \in Singles
  BY <1>2 DEF Events, Fns
<1>4. CASE Head(events).fn \in Paired
  <2>1. Shape' /\ Halfway'
    BY <1>4, FirstOfPair
  <2> QED BY <2>1
<1>5. CASE Head(events).fn \in Singles
  <2>1. Shape' /\ Settled'
    BY <1>5, SingleStep
  <2> QED BY <2>1
<1> QED BY <1>3, <1>4, <1>5

LEMMA OutsideStep ==
  ASSUME DP = 2, Shape, conf \in EventConf, conf' = conf, Settled, Outside
  PROVE  Shape' /\ Settled'
BY RingQpStep, P2PQpStep, TimerStep DEF Outside

LEMMA NotOutside ==
  ASSUME Halfway, Outside
  PROVE  FALSE
<1>1. arrived = None /\ events # << >>
  BY DEF Halfway, Half
<1>2. \A s : ~Arrive(s)
  BY <1>1 DEF Arrive
<1>3. \A r : ~RingQpEnds(r) /\ ~P2PQpEnds(r)
  BY <1>2 DEF RingQpEnds, P2PQpEnds, QpEnds
<1>4. \A kind : ~TimerExpires(kind)
  BY <1>2 DEF TimerExpires
<1> QED BY <1>3, <1>4 DEF Outside

\* The inductive invariant: between two handlers either all ranks are where
\* their groups are, or the rank that runs first is one event ahead of its mate.
Inv == Shape /\ conf \in EventConf /\ (Settled \/ Halfway)

LEMMA InvStep ==
  ASSUME DP = 2, Inv, Next
  PROVE  Inv'
<1>1. /\ Shape /\ conf \in EventConf /\ conf' = conf /\ (Settled \/ Halfway)
      /\ Outside \/ \E r \in Rank : Handlers(r)
  BY DEF Inv, Next
<1>2. Shape' /\ (Settled \/ Halfway)'
  <2>1. CASE Settled /\ Outside
    <3>1. Shape' /\ Settled'
      BY <1>1, <2>1, OutsideStep
    <3> QED BY <3>1
  <2>2. CASE Settled /\ \E r \in Rank : Handlers(r)
    BY <1>1, <2>2, HandlerStep
  <2>3. CASE Halfway /\ Outside
    BY <2>3, NotOutside
  <2>4. CASE Halfway /\ \E r \in Rank : Handlers(r)
    <3>1. Shape' /\ Settled'
      BY <1>1, <2>4, SecondOfPair
    <3> QED BY <3>1
  <2> QED BY <1>1, <2>1, <2>2, <2>3, <2>4
<1> QED BY <1>1, <1>2 DEF Inv

LEMMA InvStutter ==
  ASSUME Inv, UNCHANGED vars
  PROVE  Inv'
<1>1. /\ conf' = conf /\ h' = h /\ cc' = cc /\ ringQp' = ringQp /\ p2pQp' = p2pQp
      /\ timer' = timer /\ events' = events /\ arrived' = arrived
  BY DEF vars
<1>2. \A q : View(q)' = View(q)
  BY <1>1 DEF View, Tok, ArmedFor, DueFor
<1>3. Views' = Views
  BY <1>2 DEF Views
<1>4. Shape' /\ (conf \in EventConf)'
  BY <1>1 DEF Inv, Shape
<1>5. ASSUME Settled PROVE Settled'
  BY <1>1, <1>3, <1>5 DEF Settled
<1>6. ASSUME Halfway PROVE Halfway'
  <2>0. PICK u : \E s \in Stages, i \in 0..1, f \in Paired, g \in Paired \cup {"None"}, e \in Events,
                    rest \in Seq(Events) : Half(u, s, i, f, g, e, rest)
    BY <1>6 DEF Halfway
  <2>1. PICK s \in Stages, i \in 0..1, f \in Paired, g \in Paired \cup {"None"}, e \in Events,
             rest \in Seq(Events) : Half(u, s, i, f, g, e, rest)
    BY <2>0
  <2>2. Half(u, s, i, f, g, e, rest)'
    BY <1>1, <1>2, <1>3, <2>1 DEF Half
  <2> QED BY <2>2 DEF Halfway
<1> QED BY <1>4, <1>5, <1>6 DEF Inv

\* Every configuration is of event mode, with a chunk at least.
EventMode == \A c \in Confs : c.mode = 0 /\ c.chunks >= 1

LEMMA EventConfs ==
  ASSUME EventMode, NEW c \in Confs
  PROVE  c \in EventConf
<1>1. c \in [chunks : Nat, inflight : Nat, mode : {0, 1}, train : BOOLEAN]
  BY Configurations
<1>2. c.mode = 0 /\ c.chunks \in Nat \ {0}
  BY <1>1 DEF EventMode
<1> QED BY <1>1, <1>2 DEF EventConf

\* The view of every rank at the start.
First == [h |-> [phase |-> "IDLE", busy |-> FALSE, chunk |-> 0, cb |-> "None",
                 fwdReady |-> 0, bwdReady |-> 0, fwdIdx |-> 0, bwdIdx |-> 0,
                 inflight |-> 0, fwdCount |-> 0, bwdCount |-> 0,
                 pendChunk |-> 0, pendFwd |-> FALSE,
                 schedIdx |-> 0, fwdRecv |-> {}, bwdRecv |-> {}],
          cc |-> Reset, rq |-> 0, pq |-> 0,
          n |-> [f \in Fns |-> One(f = "StartApplication")]]

LEMMA FirstStage ==
  ASSUME NEW c \in EventConf, NEW s \in Stages
  PROVE  StageOK(First, First, s, c) /\ LinkOK(First, First)
<1>1. /\ First.h.phase = "IDLE" /\ First.h.busy = FALSE /\ First.h.chunk = 0
      /\ First.h.fwdReady = 0 /\ First.h.bwdReady = 0 /\ First.h.fwdIdx = 0 /\ First.h.bwdIdx = 0
      /\ First.h.inflight = 0 /\ First.h.fwdCount = 0 /\ First.h.bwdCount = 0
      /\ First.h.pendChunk = 0
      /\ First.h.fwdRecv = {} /\ First.h.bwdRecv = {}
      /\ First.rq = 0 /\ First.pq = 0
      /\ First.n = [f \in Fns |-> One(f = "StartApplication")]
  BY DEF First
<1>2. First.cc.recvStep = 0 /\ First.cc.sendStep = 0 /\ First.cc.stepStu = 1
  BY DEF First, Reset
<1>3. IsHybridCC(First.h)
  BY DEF First, IsHybridCC, Fields
<1>4. c.chunks \in Nat \ {0}
  BY DEF EventConf
<1>5. Act(First) = "IDLE"
  BY <1>1 DEF Act
<1> DEFINE v == First
<1>6. v.n \in [Fns -> Nat]
  BY <1>1 DEF One
<1>7. \A f \in Fns : v.n[f] = IF f = "StartApplication" THEN 1 ELSE 0
  BY <1>1 DEF One
<1> HIDE DEF v
<1>8. \A f \in Fns : f # "StartApplication" => First.n[f] = 0
  BY <1>7 DEF v
<1>9. Types(First, c)
  <2>1. First.n \in [Fns -> Nat]
    BY <1>6 DEF v
  <2>2. First.h.phase \in Phases /\ First.h.busy \in BOOLEAN
    BY <1>1 DEF Phases
  <2>3. First.h.pendFwd \in BOOLEAN
    BY DEF First
  <2> QED BY <1>1, <1>2, <1>3, <1>4, <2>1, <2>2, <2>3 DEF Types
<1>a. Tokens(First)
  BY <1>1, <1>5, <1>8, FnNames DEF Tokens, One, P2PPhases
<1>b. Notes(First, s, c)
  BY <1>1, <1>5 DEF Notes, One, FwdPhases, BwdPhases
<1>c. RingOK(First, 0) /\ RingOK(First, 1)
  BY <1>1, <1>5, <1>8, FnNames DEF RingOK, RingPhases
<1>d. First.n["StartApplication"] = 1 /\ One(Act(First) \in FwdPhases) = 0 /\ One(Act(First) \in BwdPhases) = 0
  BY <1>5, <1>7, FnNames DEF v, One, FwdPhases, BwdPhases
<1>e. Counts(First, s, c)
  BY <1>1, <1>4, <1>8, <1>d, FnNames DEF Counts
<1>f. PairOK(First, First)
  BY <1>5 DEF PairOK, Alike, RingPhases
<1>g. GroupOK(First, First)
  BY <1>1, <1>5, <1>8, FnNames DEF GroupOK, Reporting
<1>h. LinkOK(First, First)
  BY <1>1, <1>8, <1>d, FnNames DEF LinkOK, FwdIn, FwdOut, BwdIn, BwdOut
<1> QED BY <1>9, <1>a, <1>b, <1>c, <1>e, <1>f, <1>g, <1>h DEF StageOK, RankOK

Starts(q) ==
  /\ q \in Seq(Events) /\ Aligned(q)
  /\ \A r \in Rank, f \in Fns : Cnt(q, r, {f}) = One(f = "StartApplication")

LEMMA FirstEvents ==
  ASSUME DP = 2, NEW q, q = [i \in 1..DP*PP |-> Ev("StartApplication", i - 1)]
  PROVE  Starts(q)
<1> DEFINE g == "StartApplication"
           n == 2 * PP
<1>0. PP \in Nat /\ PP >= 1
  BY Groups
<1>1. n \in Nat /\ DP * PP = n /\ Rank = 0 .. n - 1
  BY <1>0 DEF Rank
<1>2. g \in Fns /\ g \in Paired /\ g \notin Leaders
  BY DEF Fns, Paired, Leaders
<1> HIDE DEF n, g
<1>3. \A i \in 1..n : Ev(g, i - 1) \in Events /\ Ev(g, i - 1).fn = g /\ Ev(g, i - 1).rank = i - 1
  <2> SUFFICES ASSUME NEW i \in 1..n
               PROVE  Ev(g, i - 1) \in Events /\ Ev(g, i - 1).fn = g /\ Ev(g, i - 1).rank = i - 1
    OBVIOUS
  <2>1. i - 1 \in Rank
    BY <1>1
  <2> QED BY <1>2, <2>1 DEF Ev, Events, None
<1>4. q = [i \in 1..n |-> Ev(g, i - 1)]
  BY <1>1 DEF g
<1>5. /\ q \in Seq(Events) /\ Len(q) = n
      /\ \A i \in 1..n : q[i].fn = g /\ q[i].rank = i - 1
  BY <1>1, <1>3, <1>4
<1> HIDE DEF g
<1>6. ASSUME NEW r \in Rank, NEW f \in Fns
      PROVE  Cnt(q, r, {f}) = One(f = "StartApplication")
  <2>1. CASE f = g
    <3>1. r + 1 \in 1..n /\ \A i \in 1..n : i - 1 = r <=> i = r + 1
      BY <1>1
    <3>2. \A x : x \in Places(q, r, {f}) <=> x = r + 1
      BY <1>5, <2>1, <3>1 DEF Places
    <3>3. Places(q, r, {f}) = {r + 1}
      BY <3>2
    <3>4. Cnt(q, r, {f}) = 1
      BY <3>3, FS_Singleton DEF Cnt
    <3> QED BY <2>1, <3>4 DEF g, One
  <2>2. CASE f # g
    <3>1. Places(q, r, {f}) = {}
      BY <1>5, <2>2 DEF Places
    <3>2. Cnt(q, r, {f}) = 0
      BY <3>1, FS_EmptySet DEF Cnt
    <3> QED BY <2>2, <3>2 DEF g, One
  <2> QED BY <2>1, <2>2
<1>7. Aligned(q)
  <2> DEFINE S == {i \in 1..n : i % 2 = 1}
  <2>1. S \in SUBSET (1..Len(q))
    BY <1>5
  <2>2. ASSUME NEW i \in S
        PROVE  i \in 1..n /\ i + 1 \in 1..n /\ i + 1 \notin S /\ Mate(i - 1) = i
    <3>1. i \in 1..n /\ i % 2 = 1 /\ i - 1 \in Nat
      OBVIOUS
    <3>2. (i - 1) % 2 = 0 /\ (i + 1) % 2 = 0
      BY <3>1
    <3>3. i # n
      BY <1>0, <3>1 DEF n
    <3> QED BY <1>1, <3>1, <3>2, <3>3 DEF Mate
  <2>3. ASSUME NEW i \in 1..n, i \notin S
        PROVE  i - 1 \in S
    <3>1. i % 2 = 0 /\ i # 1
      BY <1>1, <2>3
    <3>2. (i - 1) % 2 = 1 /\ i - 1 \in 1..n
      BY <1>1, <3>1
    <3> QED BY <3>2
  <2> HIDE DEF S
  <2>4. \A i \in S : /\ i + 1 <= Len(q) /\ i + 1 \notin S
                     /\ q[i].fn \in Paired /\ q[i + 1].fn = q[i].fn
                     /\ q[i + 1].rank = Mate(q[i].rank)
    <3> SUFFICES ASSUME NEW i \in S
                 PROVE  /\ i + 1 <= Len(q) /\ i + 1 \notin S
                        /\ q[i].fn \in Paired /\ q[i + 1].fn = q[i].fn
                        /\ q[i + 1].rank = Mate(q[i].rank)
      OBVIOUS
    <3>1. i \in 1..n /\ i + 1 \in 1..n /\ i + 1 \notin S /\ Mate(i - 1) = i
      BY <2>2
    <3>2. q[i].fn = g /\ q[i].rank = i - 1 /\ q[i + 1].fn = g /\ q[i + 1].rank = i
      <4>1. (i + 1) - 1 = i
        BY <3>1, <1>1
      <4> QED BY <1>5, <3>1, <4>1
    <3> QED BY <1>1, <1>2, <1>5, <3>1, <3>2
  <2>5. \A i \in 1..Len(q) : /\ i \notin S /\ q[i].fn \in Paired => i - 1 \in S
                             /\ q[i].fn \in Leaders => q[i].rank % 2 = 0
    BY <1>2, <1>5, <2>3
  <2> QED BY <2>1, <2>4, <2>5 DEF Aligned, AlignedBy
<1> QED BY <1>5, <1>6, <1>7 DEF Starts

LEMMA InvInit ==
  ASSUME DP = 2, EventMode, Init
  PROVE  Inv
<1>1. conf \in Confs /\ conf \in EventConf
  BY EventConfs DEF Init
<1>2. Starts(events)
  BY FirstEvents DEF Init
<1>3. timer = NoTimers /\ timer.batches["fwd"] = << >> /\ timer.batches["bwd"] = << >>
  BY DEF Init, NoTimers, Kinds
<1>4. TimerOK(timer)
  <2>1. timer = [batches |-> [kind \in Kinds |-> << >>], open |-> {}]
    BY DEF Init, NoTimers
  <2>2. BatchesOK(<< >>)
    BY DEF BatchesOK, Batches
  <2> QED BY <2>1, <2>2 DEF TimerOK
<1>5. Shape
  BY <1>1, <1>2, <1>4 DEF Shape, Init, Starts
<1>6. ASSUME NEW r \in Rank
      PROVE  View(r) = First
  <2>1. ASSUME NEW f \in Fns PROVE Tok(r, f) = One(f = "StartApplication")
    <3>1. Tok(r, f) = ArmedOf(timer, r, {f}) + Cnt(events, r, {f})
      BY TokIs
    <3>2. ArmedOf(timer, r, {f}) = 0
      BY <1>3, SumEmpty DEF ArmedOf
    <3>3. Cnt(events, r, {f}) = One(f = "StartApplication")
      BY <1>2 DEF Starts
    <3> QED BY <3>1, <3>2, <3>3 DEF One
  <2>2. [f \in Fns |-> Tok(r, f)] = [f \in Fns |-> One(f = "StartApplication")]
    BY <2>1
  <2> QED BY <2>2 DEF View, First, Init
<1>7. Views = [r \in Rank |-> First]
  BY <1>6 DEF Views
<1>8. AllOK(Views, conf)
  <2> SUFFICES ASSUME NEW s \in Stages
               PROVE  /\ StageOK(Views[2*s], Views[2*s+1], s, conf)
                      /\ s + 1 \in Stages => LinkOK(Views[2*s], Views[2*s+2])
    BY DEF AllOK
  <2>1. 2*s \in Rank /\ 2*s + 1 \in Rank /\ (s + 1 \in Stages => 2*s + 2 \in Rank)
    <3>1. PP \in Nat /\ DP * PP = 2 * PP
      BY Groups
    <3> QED BY <3>1 DEF Rank, Stages
  <2>2. Views[2*s] = First /\ Views[2*s + 1] = First /\ (s + 1 \in Stages => Views[2*s + 2] = First)
    BY <1>7, <2>1
  <2> QED BY <1>1, <2>2, FirstStage
<1>9. Settled
  BY <1>2, <1>8 DEF Settled, Starts
<1> QED BY <1>1, <1>5, <1>9 DEF Inv

LEMMA InvAlways ==
  ASSUME DP = 2, EventMode
  PROVE  Spec => []Inv
<1>1. Init => Inv
  BY InvInit
<1>2. Inv /\ [Next]_vars => Inv'
  BY InvStep, InvStutter
<1> QED BY <1>1, <1>2, PTL DEF Spec

LEMMA CountOfAll ==
  ASSUME NEW V, NEW c, AllOK(V, c), NEW s \in Stages, NEW i \in 0..1
  PROVE  V[2*s + i].h.fwdCount < 2 /\ V[2*s + i].h.bwdCount < 2
<1>1. StageOK(V[2*s], V[2*s + 1], s, c)
  BY DEF AllOK
<1>2. /\ V[2*s].h.fwdCount < 2 /\ V[2*s].h.bwdCount < 2
      /\ V[2*s + 1].h.fwdCount < 2 /\ V[2*s + 1].h.bwdCount < 2
  BY <1>1 DEF StageOK, GroupOK
<1>3. s \in Int
  BY DEF Stages
<1>4. i = 0 => 2*s + i = 2*s
  BY <1>3
<1>5. i = 0 \/ i = 1
  OBVIOUS
<1> QED BY <1>2, <1>4, <1>5

LEMMA InRank ==
  ASSUME DP = 2, NEW s \in Stages, NEW i \in 0..1, NEW r, r = 2*s + i
  PROVE  r \in Rank
BY RankOf

RankHolds(r, s, i) ==
  RankOK(View(r), s, i, conf) /\ View(r).h.fwdCount < 2 /\ View(r).h.bwdCount < 2

\* Every rank is in order by itself, also when it is ahead of its mate.
LEMMA EveryRank ==
  ASSUME DP = 2, Inv, NEW s \in Stages, NEW i \in 0..1, NEW r, r = 2*s + i
  PROVE  RankHolds(r, s, i)
<1>0. r \in Rank
  BY RankOf
<1>1. CASE Settled
  <2>1. RankOK(Views[2*s + i], s, i, conf)
    BY <1>1, RankOfAll DEF Settled
  <2>2. Views[2*s + i].h.fwdCount < 2 /\ Views[2*s + i].h.bwdCount < 2
    BY <1>1, CountOfAll DEF Settled
  <2>3. Views[2*s + i] = View(r)
    BY <1>0 DEF Views
  <2> QED BY <2>1, <2>2, <2>3 DEF RankHolds
<1>2. CASE Halfway
  <2>0. PICK u : \E t \in Stages, k \in 0..1, f \in Paired, g \in Paired \cup {"None"}, e \in Events,
                    rest \in Seq(Events) : Half(u, t, k, f, g, e, rest)
    BY <1>2 DEF Halfway
  <2>1. PICK t \in Stages, k \in 0..1, f \in Paired, g \in Paired \cup {"None"}, e \in Events,
             rest \in Seq(Events) : Half(u, t, k, f, g, e, rest)
    BY <2>0
  <2>2. PICK q : q = 2*t + k
    OBVIOUS
  <2>3. q \in Rank
    BY <2>2, InRank, Zenon
  <2>4. PICK V : V = [Views EXCEPT ![q] = u]
    OBVIOUS
  <2>5. AllOK(V, conf) /\ u.n[f] # 0 /\ View(q) = After(f, u, t, k, conf)
    BY <2>1, <2>2, <2>4 DEF Half
  <2>6. V[q] = u /\ \A x \in Rank : x # q => V[x] = View(x)
    BY <2>3, <2>4 DEF Views
  <2>7. CASE r # q
    <3>1. V[r] = View(r)
      BY <1>0, <2>6, <2>7
    <3>2. RankOK(V[2*s + i], s, i, conf)
      BY <2>5, RankOfAll
    <3>3. V[2*s + i].h.fwdCount < 2 /\ V[2*s + i].h.bwdCount < 2
      BY <2>5, CountOfAll
    <3> QED BY <3>1, <3>2, <3>3 DEF RankHolds
  <2>8. CASE r = q
    <3>1. s = t /\ i = k
      BY <2>2, <2>8 DEF Stages
    <3>2. RankOK(V[2*s + i], s, i, conf)
      BY <2>5, RankOfAll
    <3>3. V[2*s + i].h.fwdCount < 2 /\ V[2*s + i].h.bwdCount < 2
      BY <2>5, CountOfAll
    <3>4. V[2*s + i] = u
      BY <2>6, <2>8
    <3>5. conf \in EventConf
      BY DEF Inv
    <3>6. RankStep(u, After(f, u, s, i, conf), s, i, conf)
      BY <2>5, <3>2, <3>4, <3>5, AfterRank
    <3>7. View(r) = After(f, u, s, i, conf)
      BY <2>5, <2>8, <3>1
    <3>8. RankStep(u, View(r), s, i, conf)
      BY <3>6, <3>7
    <3> QED BY <3>3, <3>4, <3>8 DEF RankHolds, RankStep, GroupStep
  <2> QED BY <2>7, <2>8
<1> QED BY <1>1, <1>2 DEF Inv

RankTyped(r) ==
  /\ h[r].phase \in Phases
  /\ h[r].busy \in BOOLEAN
  /\ h[r].chunk \in Chunk /\ h[r].pendChunk \in Chunk
  /\ {h[r].fwdReady, h[r].bwdReady, h[r].fwdIdx, h[r].bwdIdx} \subseteq 0..conf.chunks
  /\ h[r].inflight \in InflightRange
  /\ {h[r].fwdCount, h[r].bwdCount} \subseteq 0..DP - 1
  /\ h[r].fwdRecv \cup h[r].bwdRecv \subseteq Chunk
  /\ cc[r].recvStep \in 0..DP /\ cc[r].sendStep \in 0..DP
  /\ ringQp[r] \in 0..1 /\ p2pQp[r] \in 0..1

LEMMA RankTypes ==
  ASSUME DP = 2, Inv, NEW r \in Rank
  PROVE  RankTyped(r)
<1>1. PICK s \in Stages, i \in 0..1 : r = 2*s + i
  BY RankForm
<1>2. RankHolds(r, s, i)
  BY <1>1, EveryRank
<1>3. PICK v : v = View(r)
  OBVIOUS
<1>4. v.h = h[r] /\ v.cc = cc[r] /\ v.rq = ringQp[r] /\ v.pq = p2pQp[r]
  BY <1>3 DEF View
<1>5. /\ Types(v, conf) /\ Tokens(v) /\ Notes(v, s, conf) /\ RingOK(v, i) /\ Counts(v, s, conf)
      /\ v.h.fwdCount < 2 /\ v.h.bwdCount < 2
  BY <1>2, <1>3 DEF RankHolds, RankOK
<1>6. conf.chunks \in Nat
  BY DEF Inv, EventConf
<1>7. v.n \in [Fns -> Nat]
  BY <1>5 DEF Types
<1>8. /\ v.h.phase \in Phases /\ v.h.busy \in BOOLEAN
      /\ v.h.chunk \in Chunk /\ v.h.pendChunk \in Chunk
  BY <1>5, <1>6 DEF Types, Chunk
<1>9. {v.h.fwdReady, v.h.bwdReady, v.h.fwdIdx, v.h.bwdIdx} \subseteq 0..conf.chunks
  <2>1. /\ v.h.fwdReady \in Nat /\ v.h.bwdReady \in Nat /\ v.h.fwdIdx \in Nat /\ v.h.bwdIdx \in Nat
        /\ v.n["OnP2PFwdRecv_EventDriven"] \in Nat /\ v.n["OnP2PBwdRecv_EventDriven"] \in Nat
    BY <1>5, <1>7, FnNames DEF Types
  <2>2. /\ v.h.fwdIdx + v.h.fwdReady + v.n["OnP2PFwdRecv_EventDriven"] <= conf.chunks
        /\ v.h.bwdIdx + v.h.bwdReady + v.n["OnP2PBwdRecv_EventDriven"] <= conf.chunks
    BY <1>5 DEF Counts
  <2>3. /\ v.h.fwdReady \in 0..conf.chunks /\ v.h.bwdReady \in 0..conf.chunks
        /\ v.h.fwdIdx \in 0..conf.chunks /\ v.h.bwdIdx \in 0..conf.chunks
    BY <1>6, <2>1, <2>2
  <2> QED BY <2>3
<1>a. v.h.inflight \in InflightRange
  <2>1. v.h.inflight \in 0..1
    BY <1>5 DEF Notes, One
  <2>2. conf.mode = 0
    BY DEF Inv, EventConf
  <2> QED BY <2>1, <2>2 DEF InflightRange
<1>b. {v.h.fwdCount, v.h.bwdCount} \subseteq 0..DP - 1
  BY <1>5 DEF Types
<1>c. v.h.fwdRecv \cup v.h.bwdRecv \subseteq Chunk
  BY <1>5 DEF Types
<1>d. v.cc.recvStep \in 0..DP /\ v.cc.sendStep \in 0..DP
  BY <1>5 DEF Types
<1>e. v.rq \in 0..1
  <2>1. v.rq \in Nat /\ v.n["SendChunkFinish"] \in Nat
    BY <1>5, <1>7, FnNames DEF Types
  <2>2. v.rq + v.n["SendChunkFinish"] \in 0..1
    BY <1>5 DEF RingOK
  <2> QED BY <2>1, <2>2
<1>f. v.pq \in 0..1
  <2>1. /\ v.pq \in Nat /\ v.n["OnP2PSendComplete"] \in Nat
        /\ v.n["OnP2PFwdComplete"] \in Nat /\ v.n["OnP2PBwdComplete"] \in Nat
    BY <1>5, <1>7, FnNames DEF Types
  <2>2. v.pq + v.n["OnP2PSendComplete"] + v.n["OnP2PFwdComplete"] + v.n["OnP2PBwdComplete"] <= 1
    <3>1. One(Act(v) \in P2PPhases) \in 0..1
      BY DEF One
    <3>2. v.pq + v.n["OnP2PSendComplete"] + v.n["OnP2PFwdComplete"] + v.n["OnP2PBwdComplete"]
            <= One(Act(v) \in P2PPhases)
      BY <1>5 DEF Tokens
    <3> QED BY <2>1, <3>1, <3>2
  <2> QED BY SMTT(30), <2>1, <2>2
<1> QED BY <1>4, <1>8, <1>9, <1>a, <1>b, <1>c, <1>d, <1>e, <1>f DEF RankTyped

LEMMA InvTypes ==
  ASSUME DP = 2, Inv
  PROVE  TypeOK
<1>1. \A r \in Rank : RankTyped(r)
  BY RankTypes
<1>2. conf \in Confs /\ ringQp = [r \in Rank |-> ringQp[r]] /\ p2pQp = [r \in Rank |-> p2pQp[r]]
  BY DEF Inv, Shape
<1>3. ringQp \in [Rank -> 0..1] /\ p2pQp \in [Rank -> 0..1]
  BY <1>1, <1>2 DEF RankTyped
<1> QED BY <1>1, <1>2, <1>3 DEF TypeOK, RankTyped

LEMMA SumSplit ==
  ASSUME NEW bs \in Batches, NEW r, NEW F, NEW G, F \cap G = {}
  PROVE  Sum(bs, r, F \cup G) = Sum(bs, r, F) + Sum(bs, r, G)
<1>1. Spots(bs, r, F \cup G) = Spots(bs, r, F) \cup Spots(bs, r, G)
  BY DEF Spots
<1>2. Spots(bs, r, F) \cap Spots(bs, r, G) = {}
  BY DEF Spots
<1>3. IsFiniteSet(Spots(bs, r, F)) /\ IsFiniteSet(Spots(bs, r, G))
  BY SpotsFinite
<1>4. Sum(bs, r, F) \in Nat /\ Sum(bs, r, G) \in Nat
  BY SpotsFinite
<1> DEFINE A == Spots(bs, r, F)
           B == Spots(bs, r, G)
<1>5. A \cap B = {} /\ IsFiniteSet(A) /\ IsFiniteSet(B)
  BY <1>2, <1>3
<1>6. Cardinality(A) \in Nat /\ Cardinality(B) \in Nat
  BY <1>4 DEF Sum
<1> HIDE DEF A, B
<1>7. Cardinality(A \cup B) = Cardinality(A) + Cardinality(B)
  BY <1>5, <1>6, FS_Union, FS_EmptySet
<1> QED BY <1>1, <1>7 DEF A, B, Sum

Outstanding(r, F) == ArmedFor(r, F) + DueFor(r, F)

LEMMA OutstandingSplit ==
  ASSUME Shape, NEW r, NEW F, NEW G, F \cap G = {}
  PROVE  Outstanding(r, F \cup G) = Outstanding(r, F) + Outstanding(r, G)
<1>1. timer.batches["fwd"] \in Batches /\ timer.batches["bwd"] \in Batches /\ events \in Seq(Events)
  BY DEF Shape, TimerOK, BatchesOK, Kinds
<1>2. \A H : /\ ArmedFor(r, H) = Sum(timer.batches["fwd"], r, H) + Sum(timer.batches["bwd"], r, H)
             /\ DueFor(r, H) = Cnt(events, r, H)
             /\ Sum(timer.batches["fwd"], r, H) \in Nat /\ Sum(timer.batches["bwd"], r, H) \in Nat
             /\ Cnt(events, r, H) \in Nat
  <2> TAKE H
  <2>1. ArmedFor(r, H) = Sum(timer.batches["fwd"], r, H) + Sum(timer.batches["bwd"], r, H)
    BY ArmedIs
  <2>2. DueFor(r, H) = Cnt(events, r, H)
    BY DEF DueFor, Cnt, Places
  <2> QED BY <1>1, <2>1, <2>2, SpotsFinite, PlacesFinite
<1>3. Sum(timer.batches["fwd"], r, F \cup G) = Sum(timer.batches["fwd"], r, F) + Sum(timer.batches["fwd"], r, G)
  BY <1>1, SumSplit
<1>4. Sum(timer.batches["bwd"], r, F \cup G) = Sum(timer.batches["bwd"], r, F) + Sum(timer.batches["bwd"], r, G)
  BY <1>1, SumSplit
<1>5. Cnt(events, r, F \cup G) = Cnt(events, r, F) + Cnt(events, r, G)
  BY <1>1, CntSplit
<1> QED BY <1>2, <1>3, <1>4, <1>5 DEF Outstanding

LEMMA DueAtMost ==
  ASSUME Shape, NEW r, NEW F
  PROVE  DueFor(r, F) \in Nat /\ DueFor(r, F) <= Outstanding(r, F) /\ Outstanding(r, F) \in Nat
<1>1. timer.batches["fwd"] \in Batches /\ timer.batches["bwd"] \in Batches /\ events \in Seq(Events)
  BY DEF Shape, TimerOK, BatchesOK, Kinds
<1>2. ArmedFor(r, F) \in Nat
  BY <1>1, ArmedIs, SpotsFinite
<1>3. DueFor(r, F) \in Nat
  <2>1. DueFor(r, F) = Cnt(events, r, F)
    BY DEF DueFor, Cnt, Places
  <2> QED BY <1>1, <2>1, PlacesFinite
<1> QED BY <1>2, <1>3 DEF Outstanding

RankActs(r, p) ==
  /\ Ringing(r)   <= One(p \in {"FWD_AG", "BWD_AG", "BWD_RS"})
  /\ Computing(r) =  One(p \in {"FWD_COMPUTE", "BWD_COMPUTE_1", "BWD_COMPUTE_2"})
  /\ Sending(r)   <= One(p \in {"FWD_P2P", "BWD_P2P"})

LEMMA RankActivity ==
  ASSUME DP = 2, Inv, NEW r \in Rank
  PROVE  RankActs(r, IF h[r].busy THEN h[r].phase ELSE "IDLE")
<1>1. PICK s \in Stages, i \in 0..1 : r = 2*s + i
  BY RankForm
<1>2. RankHolds(r, s, i)
  BY <1>1, EveryRank
<1>3. PICK v : v = View(r)
  OBVIOUS
<1>4. v.h = h[r] /\ v.rq = ringQp[r] /\ v.pq = p2pQp[r] /\ Act(v) = IF h[r].busy THEN h[r].phase ELSE "IDLE"
  BY <1>3 DEF View, Act
<1>5. Types(v, conf) /\ Tokens(v) /\ RingOK(v, i)
  BY <1>2, <1>3 DEF RankHolds, RankOK
<1>6. v.n \in [Fns -> Nat] /\ v.rq \in Nat /\ v.pq \in Nat
  BY <1>5 DEF Types
<1>7. Shape
  BY DEF Inv
<1>8. \A f \in Fns : v.n[f] = Outstanding(r, {f})
  BY <1>3 DEF View, Tok, Outstanding
<1>9. PICK p : p = Act(v)
  OBVIOUS
<1>a. Ringing(r) <= One(p \in {"FWD_AG", "BWD_AG", "BWD_RS"})
  <2> DEFINE F == {"RdmaStart"}
             G == {"SendChunkFinish"}
  <2>1. F \cap G = {} /\ F \cup G = {"RdmaStart", "SendChunkFinish"}
    OBVIOUS
  <2>2. Outstanding(r, F) = v.n["RdmaStart"] /\ Outstanding(r, G) = v.n["SendChunkFinish"]
    BY <1>8, FnNames
  <2> HIDE DEF F, G
  <2>3. Outstanding(r, F \cup G) = Outstanding(r, F) + Outstanding(r, G)
    BY <1>7, <2>1, OutstandingSplit
  <2>4. DueFor(r, F \cup G) \in Nat /\ DueFor(r, F \cup G) <= v.n["RdmaStart"] + v.n["SendChunkFinish"]
    <3>1. DueFor(r, F \cup G) \in Nat /\ DueFor(r, F \cup G) <= Outstanding(r, F \cup G)
      BY <1>7, DueAtMost
    <3> QED BY <2>2, <2>3, <3>1
  <2>5. v.n["RdmaStart"] \in Nat /\ v.n["SendChunkFinish"] \in Nat
    BY <1>6, FnNames
  <2>6. v.rq + v.n["SendChunkFinish"] + v.n["RdmaStart"] <= One(p \in {"FWD_AG", "BWD_AG", "BWD_RS"})
    BY <1>5, <1>6, <1>9, <2>5 DEF RingOK, RingPhases, One
  <2>7. One(p \in {"FWD_AG", "BWD_AG", "BWD_RS"}) \in Nat
    BY DEF One
  <2>8. Ringing(r) = v.rq + DueFor(r, F \cup G)
    BY <1>4, <2>1 DEF Ringing
  <2> QED BY <1>6, <2>4, <2>5, <2>6, <2>7, <2>8
<1>b. Computing(r) = One(p \in {"FWD_COMPUTE", "BWD_COMPUTE_1", "BWD_COMPUTE_2"})
  <2> DEFINE F == {"OnFwdComputeDone"}
             G == {"OnBwdCompute1Done"}
             H == {"OnBwdCompute2Done"}
  <2>1. /\ F \cap (G \cup H) = {} /\ G \cap H = {}
        /\ F \cup (G \cup H) = ComputeEvents
    BY DEF ComputeEvents, TimerEvents
  <2>2. /\ Outstanding(r, F) = v.n["OnFwdComputeDone"] /\ Outstanding(r, G) = v.n["OnBwdCompute1Done"]
        /\ Outstanding(r, H) = v.n["OnBwdCompute2Done"]
    BY <1>8, FnNames
  <2> HIDE DEF F, G, H
  <2>3. Outstanding(r, F \cup (G \cup H)) = Outstanding(r, F) + Outstanding(r, G \cup H)
    BY <1>7, <2>1, OutstandingSplit
  <2>4. Outstanding(r, G \cup H) = Outstanding(r, G) + Outstanding(r, H)
    BY <1>7, <2>1, OutstandingSplit
  <2>5. Computing(r) = Outstanding(r, F \cup (G \cup H))
    BY <2>1 DEF Computing, Outstanding
  <2>6. /\ v.n["OnFwdComputeDone"]  = One(p = "FWD_COMPUTE")
        /\ v.n["OnBwdCompute1Done"] = One(p = "BWD_COMPUTE_1")
        /\ v.n["OnBwdCompute2Done"] = One(p = "BWD_COMPUTE_2")
    BY <1>5, <1>9 DEF Tokens
  <2>7. Computing(r) = One(p = "FWD_COMPUTE") + (One(p = "BWD_COMPUTE_1") + One(p = "BWD_COMPUTE_2"))
    BY <2>2, <2>3, <2>4, <2>5, <2>6
  <2> QED BY <2>7 DEF One
<1>c. Sending(r) <= One(p \in {"FWD_P2P", "BWD_P2P"})
  <2> DEFINE F == {"OnP2PSendComplete"}
  <2>1. Outstanding(r, F) = v.n["OnP2PSendComplete"]
    BY <1>8, FnNames
  <2>2. Sending(r) = v.pq + DueFor(r, F)
    BY <1>4 DEF Sending
  <2> HIDE DEF F
  <2>3. DueFor(r, F) \in Nat /\ DueFor(r, F) <= v.n["OnP2PSendComplete"]
    BY <1>7, <2>1, DueAtMost
  <2>4. /\ v.n["OnP2PSendComplete"] \in Nat /\ v.n["OnP2PFwdComplete"] \in Nat
        /\ v.n["OnP2PBwdComplete"] \in Nat
    BY <1>6, FnNames
  <2>5. v.pq + v.n["OnP2PSendComplete"] + v.n["OnP2PFwdComplete"] + v.n["OnP2PBwdComplete"]
          <= One(p \in {"FWD_P2P", "BWD_P2P"})
    BY <1>5, <1>9 DEF Tokens, P2PPhases
  <2>6. One(p \in {"FWD_P2P", "BWD_P2P"}) \in Nat
    BY DEF One
  <2> QED BY <1>6, <2>2, <2>3, <2>4, <2>5, <2>6
<1> QED BY <1>4, <1>9, <1>a, <1>b, <1>c DEF RankActs

LEMMA InvActivity ==
  ASSUME DP = 2, Inv
  PROVE  OneActivity
BY RankActivity DEF OneActivity, RankActs

LEMMA HalfwayDue ==
  ASSUME Halfway
  PROVE  events # << >>
BY DEF Halfway, Half

\* A rank is ahead of its mate only while events are due.
LEMMA SettledAtRest ==
  ASSUME Inv, events = << >>
  PROVE  Settled
<1>1. ~Halfway
  BY HalfwayDue
<1> QED BY <1>1 DEF Inv

LEMMA NoneDue ==
  ASSUME Shape, events = << >>, NEW r, NEW f \in Fns, f \notin ComputeEvents
  PROVE  View(r).n[f] = 0
<1>1. ASSUME NEW bs, BatchesOK(bs)
      PROVE  Sum(bs, r, {f}) = 0
  <2>1. bs \in Batches /\ \A i \in 1..Len(bs) : \A j \in 1..Len(bs[i]) : bs[i][j].fn \in ComputeEvents
    BY <1>1 DEF BatchesOK
  <2>2. ASSUME NEW p \in Spots(bs, r, {f}) PROVE FALSE
    <3>1. p = <<p[1], p[2]>>
      BY SpotsPairs
    <3>2. PICK i, j : i = p[1] /\ j = p[2]
      OBVIOUS
    <3>3. <<i, j>> \in Spots(bs, r, {f})
      BY <3>1, <3>2
    <3>4. i \in 1..Len(bs) /\ j \in 1..Len(bs[i]) /\ bs[i][j].fn \in {f}
      BY <2>1, <3>3, SpotsAre
    <3> QED BY <2>1, <3>4
  <2>3. Spots(bs, r, {f}) = {}
    BY <2>2
  <2> QED BY <2>3, FS_EmptySet DEF Sum
<1>2. BatchesOK(timer.batches["fwd"]) /\ BatchesOK(timer.batches["bwd"])
  BY DEF Shape, TimerOK, Kinds
<1>3. Sum(timer.batches["fwd"], r, {f}) = 0 /\ Sum(timer.batches["bwd"], r, {f}) = 0
  BY <1>1, <1>2
<1>4. Cnt(events, r, {f}) = 0
  BY CntEmpty
<1>5. Tok(r, f) = 0
  BY <1>3, <1>4, TokIs DEF ArmedOf
<1> QED BY <1>5 DEF View

\* Between two instants only compute timers and queue pairs are outstanding.
Restful(v) ==
  /\ \A f \in {"StartApplication", "OnP2PFwdRecv_EventDriven", "OnP2PBwdRecv_EventDriven",
               "OnP2PFwdRecv", "OnP2PBwdRecv", "OnP2PFwdComplete", "OnP2PBwdComplete",
               "OnP2PSendComplete", "OnP2PFwdStep", "OnP2PBwdStep"} : v.n[f] = 0

LEMMA AtRest ==
  ASSUME Inv, events = << >>, NEW r
  PROVE  Restful(View(r))
<1> SUFFICES ASSUME NEW f \in {"StartApplication", "OnP2PFwdRecv_EventDriven", "OnP2PBwdRecv_EventDriven",
               "OnP2PFwdRecv", "OnP2PBwdRecv", "OnP2PFwdComplete", "OnP2PBwdComplete",
               "OnP2PSendComplete", "OnP2PFwdStep", "OnP2PBwdStep"}
             PROVE  View(r).n[f] = 0
  BY DEF Restful
<1>1. f \in Fns
  BY FnNames
<1>2. f \notin ComputeEvents
  BY DEF ComputeEvents, TimerEvents
<1> QED BY <1>1, <1>2, NoneDue DEF Inv

SamePlace(r, q) ==
  /\ h[r].phase = h[q].phase /\ h[r].busy = h[q].busy /\ h[r].chunk = h[q].chunk
  /\ h[r].fwdIdx = h[q].fwdIdx /\ h[r].fwdReady = h[q].fwdReady
  /\ h[r].bwdIdx = h[q].bwdIdx /\ h[r].bwdReady = h[q].bwdReady
  /\ cc[r].recvStep + cc[r].sendStep + cc[r].stepStu
       = cc[q].recvStep + cc[q].sendStep + cc[q].stepStu

LEMMA MatesTogether ==
  ASSUME DP = 2, Settled, NEW s \in Stages
  PROVE  SamePlace(2*s, 2*s + 1)
<1>1. PairOK(View(2*s), View(2*s + 1))
  BY StageOf DEF StageOK
<1>2. \A r : View(r).h = h[r] /\ View(r).cc = cc[r]
  BY DEF View
<1>3. PICK a, b : a = 2*s /\ b = 2*s + 1
  OBVIOUS
<1>4. PairOK(View(a), View(b))
  BY <1>1, <1>3
<1>5. SamePlace(a, b)
  BY <1>2, <1>4 DEF SamePlace, PairOK, Alike
<1> QED BY <1>3, <1>5

LEMMA GroupSame ==
  ASSUME DP = 2, Settled, NEW s \in Stages, NEW i \in 0..1, NEW j \in 0..1,
         NEW r, r = 2*s + i, NEW q, q = 2*s + j
  PROVE  SamePlace(r, q)
<1>1. SamePlace(2*s, 2*s + 1)
  BY MatesTogether
<1>2. PICK a, b : a = 2*s /\ b = 2*s + 1
  OBVIOUS
<1>3. SamePlace(a, b)
  BY <1>1, <1>2
<1>4. s \in Int
  BY DEF Stages
<1>5. (r = a \/ r = b) /\ (q = a \/ q = b)
  BY <1>2, <1>4
<1> QED BY <1>3, <1>5 DEF SamePlace

LEMMA InvTogether ==
  ASSUME DP = 2, Inv
  PROVE  GroupTogether
<1> SUFFICES ASSUME events = << >>, NEW r \in Rank, NEW q \in Rank, Stage(r) = Stage(q)
             PROVE  SamePlace(r, q)
  BY DEF GroupTogether, SamePlace
<1>1. Settled
  BY SettledAtRest
<1>2. PICK s \in Stages, i \in 0..1 : r = 2*s + i
  BY RankForm
<1>3. PICK t \in Stages, j \in 0..1 : q = 2*t + j
  BY RankForm
<1>4. Stage(r) = s
  BY <1>2, StageFacts DEF AtStage
<1>5. Stage(q) = t
  BY <1>3, StageFacts DEF AtStage
<1>6. t = s
  BY <1>4, <1>5
<1> QED BY <1>1, <1>2, <1>3, <1>6, GroupSame

\* The chunks a leading rank has begun, has ready and is through with.
Books(b, v) ==
  /\ v.h = h[b] /\ Restful(v)
  /\ FwdDone(b) = FwdOut(v) /\ BwdDone(b) = BwdOut(v)
  /\ FwdIn(v) = h[b].fwdIdx + h[b].fwdReady
  /\ BwdIn(v) = h[b].bwdIdx + h[b].bwdReady

LEMMA LeaderBooks ==
  ASSUME DP = 2, Inv, events = << >>, NEW s \in Stages, NEW b, b = 2*s
  PROVE  Books(b, View(b)) /\ Counts(View(b), s, conf)
<1>1. PICK v : v = View(b)
  OBVIOUS
<1>2. RankHolds(b, s, 0)
  <2>1. b = 2*s + 0
    BY DEF Stages
  <2> QED BY <2>1, EveryRank
<1>3. Types(v, conf) /\ Counts(v, s, conf)
  BY <1>1, <1>2 DEF RankHolds, RankOK
<1>4. v.h = h[b] /\ Restful(v)
  BY <1>1, AtRest DEF View
<1>5. v.h.fwdIdx \in Nat /\ v.h.fwdReady \in Nat /\ v.h.bwdIdx \in Nat /\ v.h.bwdReady \in Nat /\ v.h.busy \in BOOLEAN
  BY <1>3 DEF Types
<1>6. /\ One(h[b].busy /\ h[b].phase \in FwdPhases) = One(Act(v) \in FwdPhases)
      /\ One(h[b].busy /\ h[b].phase \in BwdPhases) = One(Act(v) \in BwdPhases)
  BY <1>4, <1>5 DEF Act, One, FwdPhases, BwdPhases
<1>7. One(Act(v) \in FwdPhases) \in 0..1 /\ One(Act(v) \in BwdPhases) \in 0..1
  BY DEF One
<1>8. /\ v.n["OnP2PFwdRecv_EventDriven"] = 0 /\ v.n["OnP2PBwdRecv_EventDriven"] = 0
      /\ v.n["OnP2PFwdRecv"] = 0 /\ v.n["OnP2PBwdRecv"] = 0
      /\ v.n["OnP2PFwdComplete"] = 0 /\ v.n["OnP2PBwdComplete"] = 0
  BY <1>4 DEF Restful
<1>9. FwdDone(b) = FwdOut(v) /\ BwdDone(b) = BwdOut(v)
  BY <1>4, <1>5, <1>6, <1>7, <1>8 DEF FwdDone, BwdDone, FwdOut, BwdOut
<1>a. FwdIn(v) = h[b].fwdIdx + h[b].fwdReady /\ BwdIn(v) = h[b].bwdIdx + h[b].bwdReady
  BY <1>4, <1>5, <1>8 DEF FwdIn, BwdIn
<1> QED BY <1>1, <1>3, <1>4, <1>9, <1>a DEF Books

\* What the chunks of a rank r of stage s, the i-th of its group, add up to.
ChunksAt(r, s, i) ==
  /\ h[r].fwdIdx + h[r].fwdReady = IF s = 0 THEN conf.chunks ELSE FwdDone(2*(s - 1) + i)
  /\ conf.train => h[r].bwdIdx + h[r].bwdReady
                     = IF s = PP - 1 THEN FwdDone(r) ELSE BwdDone(2*(s + 1) + i)

LEMMA LeaderChunks ==
  ASSUME DP = 2, Inv, events = << >>, NEW s \in Stages, NEW b, b = 2*s
  PROVE  ChunksAt(b, s, 0)
<1>0. s \in Nat /\ PP \in Nat /\ s <= PP - 1
  BY Groups DEF Stages
<1>1. PICK v : v = View(b)
  OBVIOUS
<1>2. Books(b, v) /\ Counts(v, s, conf)
  BY <1>1, LeaderBooks
<1>3. Settled
  BY SettledAtRest
<1>4. h[b].fwdIdx + h[b].fwdReady = IF s = 0 THEN conf.chunks ELSE FwdDone(2*(s - 1) + 0)
  <2>1. CASE s = 0
    BY <1>2, <2>1 DEF Books, Restful, Counts
  <2>2. CASE s # 0
    <3>1. PICK t : t = s - 1
      OBVIOUS
    <3>2. t \in Stages /\ t + 1 \in Stages /\ 2*t + 2 = b /\ t + 1 = s
      BY <1>0, <2>2, <3>1 DEF Stages
    <3>3. PICK a : a = 2*t
      OBVIOUS
    <3>4. LinkOK(View(a), View(b))
      BY <1>3, <3>2, <3>3, LinkOf
    <3>5. Books(a, View(a))
      BY <3>2, <3>3, LeaderBooks
    <3>6. h[b].fwdIdx + h[b].fwdReady = FwdDone(a)
      BY <1>1, <1>2, <3>4, <3>5 DEF LinkOK, Books
    <3>7. 2*(s - 1) + 0 = a
      BY <1>0, <3>1, <3>3
    <3> QED BY <2>2, <3>6, <3>7
  <2> QED BY <2>1, <2>2
<1>5. ASSUME conf.train
      PROVE  h[b].bwdIdx + h[b].bwdReady = IF s = PP - 1 THEN FwdDone(b) ELSE BwdDone(2*(s + 1) + 0)
  <2>1. CASE s = PP - 1
    <3>1. v.h.bwdIdx + v.h.bwdReady = v.h.fwdIdx - One(Act(v) \in FwdPhases)
      BY <1>2, <1>5, <2>1 DEF Counts
    <3>2. FwdOut(v) = v.h.fwdIdx - One(Act(v) \in FwdPhases)
      <4>1. v.n["OnP2PFwdComplete"] = 0
        BY <1>2 DEF Books, Restful
      <4>2. v.h.fwdIdx \in Nat
        <5>1. 2*s + 0 = b
          BY <1>0
        <5>2. RankHolds(b, s, 0)
          BY <5>1, EveryRank
        <5> QED BY <1>1, <5>2 DEF RankHolds, RankOK, Types
      <4>3. One(Act(v) \in FwdPhases) \in 0..1
        BY DEF One
      <4> QED BY <4>1, <4>2, <4>3 DEF FwdOut
    <3> QED BY <1>2, <2>1, <3>1, <3>2 DEF Books
  <2>2. CASE s # PP - 1
    <3>1. PICK t : t = s + 1
      OBVIOUS
    <3>2. t \in Stages /\ 2*s + 2 = 2*t
      BY <1>0, <2>2, <3>1 DEF Stages
    <3>3. PICK a : a = 2*t
      OBVIOUS
    <3>4. LinkOK(View(b), View(a))
      <4>1. LinkOK(View(2*s), View(2*s + 2))
        BY <1>3, <3>1, <3>2, LinkOf
      <4> QED BY <3>2, <3>3, <4>1
    <3>5. Books(a, View(a))
      BY <3>2, <3>3, LeaderBooks
    <3>6. h[b].bwdIdx + h[b].bwdReady = BwdDone(a)
      BY <1>1, <1>2, <3>4, <3>5 DEF LinkOK, Books
    <3>7. 2*(s + 1) + 0 = a
      BY <1>0, <3>1, <3>3
    <3> QED BY <2>2, <3>6, <3>7
  <2> QED BY <2>1, <2>2
<1> QED BY <1>4, <1>5 DEF ChunksAt

LEMMA SameDone ==
  ASSUME DP = 2, Settled, NEW s \in Stages, NEW i \in 0..1, NEW r, r = 2*s + i,
         NEW b, b = 2*s
  PROVE  FwdDone(r) = FwdDone(b) /\ BwdDone(r) = BwdDone(b) /\ SamePlace(r, b)
<1>1. 0 \in 0..1 /\ b = 2*s + 0
  BY DEF Stages
<1>2. SamePlace(r, b)
  BY <1>1, GroupSame
<1> QED BY <1>2 DEF SamePlace, FwdDone, BwdDone

LEMMA RankChunks ==
  ASSUME DP = 2, Inv, events = << >>, NEW s \in Stages, NEW i \in 0..1, NEW r, r = 2*s + i
  PROVE  ChunksAt(r, s, i)
<1>0. s \in Nat /\ PP \in Nat /\ s <= PP - 1
  BY Groups DEF Stages
<1>1. Settled
  BY SettledAtRest
<1>2. PICK b : b = 2*s
  OBVIOUS
<1>3. ChunksAt(b, s, 0)
  BY <1>2, LeaderChunks
<1>4. FwdDone(r) = FwdDone(b) /\ SamePlace(r, b)
  BY <1>1, <1>2, SameDone
<1>5. s # 0 => FwdDone(2*(s - 1) + i) = FwdDone(2*(s - 1) + 0)
  <2> SUFFICES ASSUME s # 0 PROVE FwdDone(2*(s - 1) + i) = FwdDone(2*(s - 1) + 0)
    OBVIOUS
  <2>1. PICK t, a, x : t = s - 1 /\ a = 2*t /\ x = 2*t + i
    OBVIOUS
  <2>2. t \in Stages /\ 2*(s - 1) + 0 = a /\ 2*(s - 1) + i = x
    BY <1>0, <2>1 DEF Stages
  <2>3. FwdDone(x) = FwdDone(a)
    BY <1>1, <2>1, <2>2, SameDone
  <2> QED BY <2>2, <2>3
<1>6. s # PP - 1 => BwdDone(2*(s + 1) + i) = BwdDone(2*(s + 1) + 0)
  <2> SUFFICES ASSUME s # PP - 1 PROVE BwdDone(2*(s + 1) + i) = BwdDone(2*(s + 1) + 0)
    OBVIOUS
  <2>1. PICK t, a, x : t = s + 1 /\ a = 2*t /\ x = 2*t + i
    OBVIOUS
  <2>2. t \in Stages /\ 2*(s + 1) + 0 = a /\ 2*(s + 1) + i = x
    BY <1>0, <2>1 DEF Stages
  <2>3. BwdDone(x) = BwdDone(a)
    BY <1>1, <2>1, <2>2, SameDone
  <2> QED BY <2>2, <2>3
<1> DEFINE A == FwdDone(2*(s - 1) + i)
           A0 == FwdDone(2*(s - 1) + 0)
           B == BwdDone(2*(s + 1) + i)
           B0 == BwdDone(2*(s + 1) + 0)
<1>7. /\ h[b].fwdIdx + h[b].fwdReady = IF s = 0 THEN conf.chunks ELSE A0
      /\ conf.train => h[b].bwdIdx + h[b].bwdReady = IF s = PP - 1 THEN FwdDone(b) ELSE B0
  BY <1>3 DEF ChunksAt
<1>8. (s # 0 => A = A0) /\ (s # PP - 1 => B = B0)
  BY <1>5, <1>6
<1> HIDE DEF A, A0, B, B0
<1>9. /\ h[r].fwdIdx + h[r].fwdReady = IF s = 0 THEN conf.chunks ELSE A
      /\ conf.train => h[r].bwdIdx + h[r].bwdReady = IF s = PP - 1 THEN FwdDone(r) ELSE B
  BY <1>4, <1>7, <1>8, Zenon DEF SamePlace
<1> QED BY <1>9 DEF ChunksAt, A, B

LEMMA InvChunks ==
  ASSUME DP = 2, Inv
  PROVE  ChunksConserved
<1> SUFFICES ASSUME events = << >>, NEW r \in Rank
             PROVE  /\ h[r].fwdIdx + h[r].fwdReady = IF IsFirst(r) THEN conf.chunks ELSE FwdDone(r - DP)
                    /\ conf.train => h[r].bwdIdx + h[r].bwdReady
                                       = IF IsLast(r) THEN FwdDone(r) ELSE BwdDone(r + DP)
  BY DEF ChunksConserved
<1>1. PICK s \in Stages, i \in 0..1 : r = 2*s + i
  BY RankForm
<1>2. ChunksAt(r, s, i)
  BY <1>1, RankChunks
<1>3. (IsFirst(r) <=> s = 0) /\ (IsLast(r) <=> s = PP - 1)
  BY <1>1, RankOf
<1>4. 2*(s - 1) + i = r - DP /\ 2*(s + 1) + i = r + DP
  BY <1>1 DEF Stages
<1> QED BY <1>2, <1>3, <1>4 DEF ChunksAt

Holds(S, a, b, x, y) == \A z : z \in S <=> (z = a /\ x # 0) \/ (z = b /\ y # 0)

LEMMA CountTwo ==
  ASSUME NEW a, NEW b, a # b, NEW x \in 0..1, NEW y \in 0..1, NEW S, Holds(S, a, b, x, y)
  PROVE  Cardinality(S) = x + y
<1>0. \A z : z \in S <=> (z = a /\ x # 0) \/ (z = b /\ y # 0)
  BY DEF Holds
<1>1. CASE x = 0 /\ y = 0
  <2>1. S = {}
    BY <1>0, <1>1
  <2> QED BY <1>1, <2>1, FS_EmptySet
<1>2. CASE x = 1 /\ y = 0
  <2>1. S = {a}
    BY <1>0, <1>2
  <2>2. Cardinality({a}) = 1
    BY FS_Singleton
  <2> QED BY <1>2, <2>1, <2>2
<1>3. CASE x = 0 /\ y = 1
  <2>1. S = {b}
    BY <1>0, <1>3
  <2>2. Cardinality({b}) = 1
    BY FS_Singleton
  <2> QED BY <1>3, <2>1, <2>2
<1>4. CASE x = 1 /\ y = 1
  <2>1. S = {a} \cup {b} /\ b \notin {a}
    BY <1>0, <1>4
  <2>2. IsFiniteSet({a}) /\ Cardinality({a}) = 1
    BY FS_Singleton
  <2>3. Cardinality({a} \cup {b}) = Cardinality({a}) + 1
    BY <2>1, <2>2, FS_AddElement
  <2> QED BY <1>4, <2>1, <2>2, <2>3
<1> QED BY <1>1, <1>2, <1>3, <1>4

LEMMA ReportsLeft ==
  ASSUME NEW c, NEW v, Types(v, c), Tokens(v), Restful(v)
  PROVE  v.pq \in 0..1 /\ (Act(v) \notin {"FWD_P2P", "BWD_P2P"} => v.pq = 0)
<1>1. v.pq \in Nat
  BY DEF Types
<1>2. /\ v.n["OnP2PFwdComplete"] = 0 /\ v.n["OnP2PBwdComplete"] = 0
      /\ v.n["OnP2PSendComplete"] = 0
  BY DEF Restful
<1>3. v.pq + 0 + 0 + 0 <= One(Act(v) \in P2PPhases)
  BY <1>2 DEF Tokens
<1> QED BY <1>1, <1>3 DEF One, P2PPhases

\* The reports of a group of stage s, counted and to come, in each direction.
Reports(s) ==
  LET sends(dir) == {r \in Group(s) : p2pQp[r] > 0 /\ h[r].pendFwd = dir} IN
  /\ h[Base(s)].fwdCount + Cardinality(sends(TRUE)) \in {0, DP}
  /\ h[Base(s)].bwdCount + Cardinality(sends(FALSE)) \in {0, DP}

LEMMA StageReports ==
  ASSUME DP = 2, Inv, events = << >>, NEW s \in Stages
  PROVE  Reports(s)
<1>0. s \in Nat
  BY DEF Stages
<1>1. PICK a, b : a = 2*s /\ b = 2*s + 1
  OBVIOUS
<1>2. a # b /\ Base(s) = a /\ \A r : r \in Group(s) <=> r = a \/ r = b
  BY <1>0, <1>1 DEF Group, Base
<1>3. PICK v, w : v = View(a) /\ w = View(b)
  OBVIOUS
<1>4. StageOK(v, w, s, conf)
  BY <1>1, <1>3, SettledAtRest, StageOf
<1>5. /\ v.h = h[a] /\ w.h = h[b] /\ v.pq = p2pQp[a] /\ w.pq = p2pQp[b]
      /\ Restful(v) /\ Restful(w)
  BY <1>3, AtRest DEF View
<1>6. /\ Types(v, conf) /\ Tokens(v) /\ Notes(v, s, conf)
      /\ Types(w, conf) /\ Tokens(w) /\ Notes(w, s, conf)
      /\ Act(w) = Act(v) /\ GroupOK(v, w) /\ v.h.pendFwd = w.h.pendFwd
  BY <1>4 DEF StageOK, RankOK, PairOK, Alike, Act
<1>8. /\ v.pq \in 0..1 /\ w.pq \in 0..1
      /\ Act(v) \notin {"FWD_P2P", "BWD_P2P"} => v.pq = 0 /\ w.pq = 0
  <2>1. v.pq \in 0..1 /\ (Act(v) \notin {"FWD_P2P", "BWD_P2P"} => v.pq = 0)
    BY <1>5, <1>6, ReportsLeft
  <2>2. w.pq \in 0..1 /\ (Act(w) \notin {"FWD_P2P", "BWD_P2P"} => w.pq = 0)
    BY <1>5, <1>6, ReportsLeft
  <2> QED BY <1>6, <2>1, <2>2
<1>9. v.h.fwdCount \in Nat /\ v.h.bwdCount \in Nat
  BY <1>6 DEF Types
<1>a. /\ Act(v) = "FWD_P2P" => v.h.fwdCount + (v.pq + w.pq) = 2 /\ v.h.bwdCount = 0
      /\ Act(v) = "BWD_P2P" => v.h.bwdCount + (v.pq + w.pq) = 2 /\ v.h.fwdCount = 0
      /\ Act(v) \notin {"FWD_P2P", "BWD_P2P"} => v.h.fwdCount = 0 /\ v.h.bwdCount = 0
  <2>1. /\ v.n["OnP2PFwdComplete"] = 0 /\ v.n["OnP2PBwdComplete"] = 0
        /\ v.n["OnP2PFwdStep"] = 0 /\ v.n["OnP2PBwdStep"] = 0
        /\ v.n["OnP2PSendComplete"] = 0 /\ w.n["OnP2PSendComplete"] = 0
    BY <1>5 DEF Restful
  <2>2. /\ v.h.fwdCount + 0 + Reporting(v, w, "FWD_P2P") = IF Act(v) = "FWD_P2P" THEN 2 ELSE 0
        /\ v.h.bwdCount + 0 + Reporting(v, w, "BWD_P2P") = IF Act(v) = "BWD_P2P" THEN 2 ELSE 0
    BY <1>6, <2>1 DEF GroupOK
  <2>3. \A p : Reporting(v, w, p) = IF Act(v) = p THEN v.pq + w.pq ELSE 0
    <3>1. v.pq + 0 + w.pq + 0 = v.pq + w.pq
      BY <1>8
    <3> QED BY <2>1, <3>1 DEF Reporting
  <2>4. CASE Act(v) = "FWD_P2P"
    BY <1>8, <1>9, <2>2, <2>3, <2>4
  <2>5. CASE Act(v) = "BWD_P2P"
    <3>1. Act(v) # "FWD_P2P"
      BY <2>5
    <3>2. Reporting(v, w, "FWD_P2P") = 0 /\ Reporting(v, w, "BWD_P2P") = v.pq + w.pq
      BY <2>3, <2>5, <3>1
    <3>3. v.h.fwdCount + 0 + 0 = 0 /\ v.h.bwdCount + 0 + (v.pq + w.pq) = 2
      BY <2>2, <2>5, <3>1, <3>2
    <3>4. v.h.fwdCount = 0 /\ v.h.bwdCount + (v.pq + w.pq) = 2
      <4> DEFINE x == v.h.fwdCount
                 y == v.h.bwdCount
                 z == v.pq + w.pq
      <4>1. x \in Nat /\ y \in Nat /\ z \in Nat
        BY <1>8, <1>9
      <4>2. x + 0 + 0 = 0 /\ y + 0 + z = 2
        BY <3>3
      <4> HIDE DEF x, y, z
      <4>3. x = 0 /\ y + z = 2
        BY <4>1, <4>2
      <4> QED BY <4>3 DEF x, y, z
    <3> QED BY <2>5, <3>1, <3>4, Zenon
  <2>6. CASE Act(v) \notin {"FWD_P2P", "BWD_P2P"}
    <3>1. Act(v) # "FWD_P2P" /\ Act(v) # "BWD_P2P"
      BY <2>6
    <3>2. Reporting(v, w, "FWD_P2P") = 0 /\ Reporting(v, w, "BWD_P2P") = 0
      BY <2>3, <3>1
    <3>3. v.h.fwdCount + 0 + 0 = 0 /\ v.h.bwdCount + 0 + 0 = 0
      BY <2>2, <3>1, <3>2
    <3>4. v.h.fwdCount = 0 /\ v.h.bwdCount = 0
      <4> DEFINE x == v.h.fwdCount
                 y == v.h.bwdCount
      <4>1. x \in Nat /\ y \in Nat
        BY <1>9
      <4>2. x + 0 + 0 = 0 /\ y + 0 + 0 = 0
        BY <3>3
      <4> HIDE DEF x, y
      <4>3. x = 0 /\ y = 0
        BY <4>1, <4>2
      <4> QED BY <4>3 DEF x, y
    <3> QED BY <3>1, <3>4, Zenon
  <2> QED BY <2>4, <2>5, <2>6
<1>b. /\ v.h.pendFwd \in BOOLEAN
      /\ Act(v) = "FWD_P2P" => v.h.pendFwd
      /\ Act(v) = "BWD_P2P" => ~v.h.pendFwd
  BY <1>6 DEF Types, Notes
<1> DEFINE sends(dir) == {r \in Group(s) : p2pQp[r] > 0 /\ h[r].pendFwd = dir}
<1>c. ASSUME NEW dir \in BOOLEAN
      PROVE  Cardinality(sends(dir)) = IF v.h.pendFwd = dir THEN v.pq + w.pq ELSE 0
  <2>1. \A z : z \in sends(dir) <=> (z = a \/ z = b) /\ p2pQp[z] > 0 /\ h[z].pendFwd = dir
    BY <1>2
  <2>2. CASE v.h.pendFwd = dir
    <3>1. \A z : z \in sends(dir) <=> (z = a /\ v.pq # 0) \/ (z = b /\ w.pq # 0)
      <4>1. (p2pQp[a] > 0 <=> v.pq # 0) /\ (p2pQp[b] > 0 <=> w.pq # 0)
        BY <1>5, <1>8
      <4>2. h[a].pendFwd = dir /\ h[b].pendFwd = dir
        BY <1>5, <1>6, <2>2, Zenon
      <4> HIDE DEF sends
      <4> QED BY <2>1, <4>1, <4>2, Zenon
    <3> HIDE DEF sends
    <3>2. PICK S : S = sends(dir)
      OBVIOUS
    <3>3. \A z : z \in S <=> (z = a /\ v.pq # 0) \/ (z = b /\ w.pq # 0)
      BY <3>1, <3>2
    <3>5. PICK x, y : x = v.pq /\ y = w.pq
      OBVIOUS
    <3>6. x \in 0..1 /\ y \in 0..1 /\ Holds(S, a, b, x, y)
      BY <1>8, <3>3, <3>5 DEF Holds
    <3>7. Cardinality(S) = x + y
      BY <1>2, <3>6, CountTwo
    <3>4. Cardinality(S) = v.pq + w.pq
      BY <3>5, <3>7
    <3> QED BY <2>2, <3>2, <3>4, Zenon
  <2>3. CASE v.h.pendFwd # dir
    <3>1. sends(dir) = {}
      BY <1>5, <1>6, <2>1, <2>3
    <3> HIDE DEF sends
    <3> QED BY <2>3, <3>1, FS_EmptySet
  <2> QED BY <2>2, <2>3
<1>d. Cardinality(sends(TRUE)) = IF v.h.pendFwd = TRUE THEN v.pq + w.pq ELSE 0
  BY <1>c
<1>e. Cardinality(sends(FALSE)) = IF v.h.pendFwd = FALSE THEN v.pq + w.pq ELSE 0
  BY <1>c
<1> HIDE DEF sends
<1> DEFINE m == Cardinality(sends(TRUE))
           n == Cardinality(sends(FALSE))
           both == v.pq + w.pq
<1>g. both \in Nat /\ (Act(v) \notin {"FWD_P2P", "BWD_P2P"} => both = 0)
  BY <1>8
<1>h. m = (IF v.h.pendFwd = TRUE THEN both ELSE 0) /\ n = (IF v.h.pendFwd = FALSE THEN both ELSE 0)
  BY <1>d, <1>e
<1>i. /\ Act(v) = "FWD_P2P" => v.h.fwdCount + both = 2 /\ v.h.bwdCount = 0
      /\ Act(v) = "BWD_P2P" => v.h.bwdCount + both = 2 /\ v.h.fwdCount = 0
  BY <1>a
<1> HIDE DEF m, n, both
<1>f. v.h.fwdCount + m \in {0, 2} /\ v.h.bwdCount + n \in {0, 2}
  <2>1. CASE Act(v) = "FWD_P2P"
    <3>1. m = both /\ n = 0
      BY <1>b, <1>h, <2>1, Zenon
    <3> QED BY <1>9, <1>i, <2>1, <3>1
  <2>2. CASE Act(v) = "BWD_P2P"
    <3>1. m = 0 /\ n = both
      BY <1>b, <1>h, <2>2, Zenon
    <3>2. v.h.bwdCount + both = 2 /\ v.h.fwdCount = 0
      BY <1>i, <2>2
    <3> QED BY <3>1, <3>2
  <2>3. CASE Act(v) \notin {"FWD_P2P", "BWD_P2P"}
    <3>1. m = 0 /\ n = 0
      BY <1>g, <1>h, <2>3, Zenon
    <3> QED BY <1>9, <1>a, <2>3, <3>1
  <2> QED BY <2>1, <2>2, <2>3
<1> QED BY <1>2, <1>5, <1>f DEF Reports, sends, m, n

LEMMA InvBarrier ==
  ASSUME DP = 2, Inv
  PROVE  BarrierComplete
BY StageReports DEF BarrierComplete, Reports, Stages

-----------------------------------------------------------------------------
(***************************************************************************)
(* The theorems, in event mode with groups of two.                         *)
(***************************************************************************)

\* Every counter of a rank stays in its range: begun and ready chunks within the
\* chunks there are, at most one chunk in flight and never one less than none, and
\* at most one queue pair of each kind.
THEOREM HybridTypes ==
  ASSUME DP = 2, EventMode
  PROVE  Spec => []TypeOK
<1>1. Inv => TypeOK
  BY InvTypes
<1>2. Spec => []Inv
  BY InvAlways
<1> QED BY <1>1, <1>2, PTL

\* A rank does one thing at a time, as the comment of m_busy says: whatever
\* timers, queue pairs and queued calls are outstanding, they are one step of
\* one operation, the one m_phase names.
THEOREM OneActivityAtATime ==
  ASSUME DP = 2, EventMode
  PROVE  Spec => []OneActivity
<1>1. Inv => OneActivity
  BY InvActivity
<1>2. Spec => []Inv
  BY InvAlways
<1> QED BY <1>1, <1>2, PTL

\* The ranks of a group, which decide each for itself what to run next, are at
\* the same step of the same operation on the same chunk whenever an instant ends.
THEOREM GroupsStayTogether ==
  ASSUME DP = 2, EventMode
  PROVE  Spec => []GroupTogether
<1>1. Inv => GroupTogether
  BY InvTogether
<1>2. Spec => []Inv
  BY InvAlways
<1> QED BY <1>1, <1>2, PTL

\* The handlers of arriving chunks and the scheduler lose no chunk and count none
\* twice: between instants what a stage has taken or has ready is what its
\* neighbour is through with.
THEOREM NoChunkIsLost ==
  ASSUME DP = 2, EventMode
  PROVE  Spec => []ChunksConserved
<1>1. Inv => ChunksConserved
  BY InvChunks
<1>2. Spec => []Inv
  BY InvAlways
<1> QED BY <1>1, <1>2, PTL

\* The barrier between stages (OnP2PFwdStep, OnP2PBwdStep) loses no report, and
\* its counter never mixes the reports of two chunks.
THEOREM BarrierIsWhole ==
  ASSUME DP = 2, EventMode
  PROVE  Spec => []BarrierComplete
<1>1. Inv => BarrierComplete
  BY InvBarrier
<1>2. Spec => []Inv
  BY InvAlways
<1> QED BY <1>1, <1>2, PTL
=============================================================================
