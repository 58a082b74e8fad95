-------------------------- MODULE SwitchMmuProofs --------------------------
(***************************************************************************)
(* Proofs about SwitchMmu.tla for any ports, packet sizes and thresholds,  *)
(* as long as the configured headroom and reserve leave a pool.  The       *)
(* inductive invariant has three parts: what the counters add up to, what  *)
(* a pause says about them, and in which order the PFC frames are under    *)
(* way.  To them come the sums over all ports, and, for PfcLink.tla, what  *)
(* may still arrive on a link until a pause stops its sender.              *)
(***************************************************************************)
EXTENDS PfcLink, FiniteSetTheorems, TLAPS

\* The configuration: headroom and reserve of all ports fit into the buffer.
Fits == Pool \in Nat

CountersInv ==
    /\ ingress \in [Port -> Nat]
    /\ hdrm \in [Port -> Nat]
    /\ queued \in [Port -> Nat]
    /\ shared \in Int /\ shared <= Pool
    /\ Accounted
    /\ HeadroomBound

PauseInv ==
    /\ paused \in [Port -> 0..1]
    /\ HeadroomMeansPaused
    /\ NoStuckPause

\* Frames st, 1-st, st, ... from what the other end knows to what was sent last.
Alternate(f, st, pa) ==
    IF f = << >> THEN st = pa
    ELSE /\ f[1] = 1 - st
         /\ f[Len(f)] = pa
         /\ \A i \in 1 .. Len(f) - 1 : f[i + 1] = 1 - f[i]

FramesInv ==
    /\ stopped \in [Port -> 0..1]
    /\ frames \in [Port -> Seq(0..1)]
    /\ \A p \in Port : Alternate(frames[p], stopped[p], paused[p])

-----------------------------------------------------------------------------
(***************************************************************************)
(* The counters.                                                           *)
(***************************************************************************)
\* A quotient is no more than the dividend.
LEMMA DivBounds ==
    ASSUME NEW a \in Nat \ {0}, NEW y \in Nat
    PROVE  y \div a \in 0..y
<1>1. y \div a \in Int
  OBVIOUS
<1>2. y \div a <= y
  BY SMTT(60)
<1>3. y \div a >= 0
  BY SMTT(60)
<1> QED BY <1>1, <1>2, <1>3

\* However full the pool is, the threshold of a port is no more than the rest.
LEMMA ThresholdBound ==
    ASSUME Fits, NEW p \in Port, shared \in Int, shared <= Pool
    PROVE  GetPfcThreshold(p) \in 0 .. Pool - shared
<1> DEFINE x == Pool - shared
           y == x % Wrap
<1>1. x \in Nat /\ Wrap \in Nat \ {0} /\ Alpha[p] \in Nat \ {0}
  BY MmuAssumption DEF Fits
<1>2. y \in 0..x
  <2> HIDE DEF x
  <2> QED BY <1>1
<1>3. y \div Alpha[p] \in 0..y
  BY <1>1, <1>2, DivBounds
<1> QED BY <1>1, <1>2, <1>3 DEF GetPfcThreshold

LEMMA AdmissionCounters ==
    ASSUME Fits, CountersInv, NEW p \in Port, NEW s \in Sizes,
           CheckIngressAdmission(p, s), UpdateIngressAdmission(p, s),
           queued' = [queued EXCEPT ![p] = @ + s]
    PROVE  CountersInv'
<1>1. s \in Nat /\ s > 0 /\ Reserve \in Nat /\ Headroom \in [Port -> Nat]
  BY MmuAssumption
<1>2. GetPfcThreshold(p) \in 0 .. Pool - shared /\ Pool \in Nat
  BY ThresholdBound DEF CountersInv, Fits
<1> DEFINE new == ingress[p] + s
<1>3. CASE new <= Reserve /\ ingress' = [ingress EXCEPT ![p] = new] /\ UNCHANGED <<hdrm, shared>>
  BY <1>1, <1>3 DEF CountersInv, Accounted, HeadroomBound
<1>4. CASE new > Reserve /\ new - Reserve > GetPfcThreshold(p)
           /\ hdrm' = [hdrm EXCEPT ![p] = @ + s] /\ UNCHANGED <<ingress, shared>>
  <2>1. s + GetSharedUsed(p) > GetPfcThreshold(p)
    BY <1>1, <1>2, <1>4 DEF GetSharedUsed, CountersInv
  <2>2. s + hdrm[p] <= Headroom[p]
    BY <1>1, <1>2, <2>1 DEF CheckIngressAdmission, CountersInv, GetSharedUsed
  <2> QED BY <1>1, <1>4, <2>2 DEF CountersInv, Accounted, HeadroomBound
<1>5. CASE new > Reserve /\ new - Reserve <= GetPfcThreshold(p)
           /\ ingress' = [ingress EXCEPT ![p] = new]
           /\ shared' = shared + Less(s, new - Reserve) /\ UNCHANGED hdrm
  <2>1. Less(s, new - Reserve) \in Int /\ Less(s, new - Reserve) <= new - Reserve
    BY <1>1 DEF Less, CountersInv
  <2>2. shared' \in Int /\ shared' <= Pool
    BY <1>1, <1>2, <1>5, <2>1 DEF CountersInv
  <2> QED BY <1>1, <1>5, <2>2 DEF CountersInv, Accounted, HeadroomBound
<1> QED BY <1>3, <1>4, <1>5 DEF UpdateIngressAdmission

LEMMA RemovalCounters ==
    ASSUME CountersInv, NEW p \in Port, NEW s \in Sizes, Fits,
           s <= queued[p], RemoveFromIngressAdmission(p, s),
           queued' = [queued EXCEPT ![p] = @ - s]
    PROVE  CountersInv'
<1> DEFINE fromHdrm   == Less(hdrm[p], s)
           fromShared == Less(s - fromHdrm, GetSharedUsed(p))
<1>1. s \in Nat /\ s > 0 /\ Reserve \in Nat /\ Headroom \in [Port -> Nat] /\ Pool \in Nat
  BY MmuAssumption DEF Fits
<1>2. /\ ingress[p] \in Nat /\ hdrm[p] \in Nat /\ ingress[p] + hdrm[p] = queued[p]
      /\ hdrm[p] <= Headroom[p]
  BY DEF CountersInv, Accounted, HeadroomBound
<1>3. fromHdrm \in 0..s /\ fromHdrm <= hdrm[p] /\ s - fromHdrm <= ingress[p]
  BY <1>1, <1>2 DEF Less
<1>4. fromShared \in Nat
  BY <1>1, <1>2, <1>3 DEF Less, GetSharedUsed
<1>5. /\ hdrm' = [hdrm EXCEPT ![p] = @ - fromHdrm]
      /\ ingress' = [ingress EXCEPT ![p] = @ - (s - fromHdrm)]
      /\ shared' = shared - fromShared
  BY DEF RemoveFromIngressAdmission
<1> HIDE DEF fromHdrm, fromShared
<1>6. shared' \in Int /\ shared' <= Pool
  BY <1>1, <1>4, <1>5 DEF CountersInv
<1> QED BY <1>1, <1>2, <1>3, <1>5, <1>6 DEF CountersInv, Accounted, HeadroomBound

\* Dropping a packet, or a PFC frame that arrives, leaves the counters alone.
LEMMA CountersKept ==
    ASSUME CountersInv, UNCHANGED mmu
    PROVE  CountersInv'
BY DEF CountersInv, Accounted, HeadroomBound, mmu

-----------------------------------------------------------------------------
(***************************************************************************)
(* The pause flag.                                                         *)
(***************************************************************************)
\* After CheckAndSendPfc, a port that must pause has been paused.
LEMMA PauseIsSent ==
    ASSUME NEW p \in Port, paused \in [Port -> 0..1], CheckAndSendPfc(p)
    PROVE  /\ paused' \in [Port -> 0..1]
           /\ MustPause(p)' => paused'[p] = 1
           /\ paused[p] = 1 => paused'[p] = 1
           /\ \A q \in Port \ {p} : paused'[q] = paused[q]
<1> DEFINE mp == MustPause(p)'
<1>1. CASE paused[p] = 0 /\ mp /\ paused' = [paused EXCEPT ![p] = 1]
  BY <1>1
<1>2. CASE ~(paused[p] = 0 /\ mp) /\ UNCHANGED paused
  BY <1>2
<1> QED BY <1>1, <1>2 DEF CheckAndSendPfc

\* An admitted packet keeps the pause invariant: if it was charged to the
\* headroom its port is paused at once.
LEMMA AdmissionPause ==
    ASSUME CountersInv, CountersInv', PauseInv, NEW p \in Port, NEW s \in Sizes,
           UpdateIngressAdmission(p, s), CheckAndSendPfc(p),
           queued' = [queued EXCEPT ![p] = @ + s]
    PROVE  PauseInv'
<1>1. s \in Nat /\ s > 0
  BY MmuAssumption
<1>2. \A q \in Port \ {p} : hdrm'[q] = hdrm[q] /\ queued'[q] = queued[q] /\ paused'[q] = paused[q]
  BY PauseIsSent DEF UpdateIngressAdmission, CountersInv, PauseInv
<1>3. queued'[p] > 0
  BY <1>1 DEF CountersInv
<1>4. hdrm'[p] > 0 => paused'[p] = 1
  BY PauseIsSent DEF PauseInv, MustPause
<1>5. paused' \in [Port -> 0..1]
  BY PauseIsSent DEF PauseInv
<1> QED BY <1>2, <1>3, <1>4, <1>5 DEF PauseInv, HeadroomMeansPaused, NoStuckPause

\* A packet that leaves keeps the pause invariant: the resume waits for the
\* headroom to be free, and the last packet to leave always sends it.
LEMMA RemovalPause ==
    ASSUME CountersInv, CountersInv', PauseInv, NEW p \in Port, NEW s \in Sizes,
           RemoveFromIngressAdmission(p, s), CheckAndSendResume(p),
           s <= queued[p], queued' = [queued EXCEPT ![p] = @ - s]
    PROVE  PauseInv'
<1> DEFINE mr == MayResume(p)'
<1>1. s \in Nat /\ Reserve \in Nat
  BY MmuAssumption
<1>2. \A q \in Port \ {p} : hdrm'[q] = hdrm[q] /\ queued'[q] = queued[q]
  BY DEF RemoveFromIngressAdmission, CountersInv
<1>3. hdrm'[p] > 0 => hdrm[p] > 0
  BY <1>1 DEF RemoveFromIngressAdmission, CountersInv, Less
<1>4. queued'[p] = 0 => mr
  <2>1. /\ ingress'[p] \in Nat /\ hdrm'[p] \in Nat
        /\ ingress'[p] + hdrm'[p] = queued'[p]
    BY DEF CountersInv, Accounted
  <2>2. queued'[p] = 0 => ingress'[p] = 0 /\ hdrm'[p] = 0
    BY <2>1
  <2> QED BY <1>1, <2>2 DEF MayResume, GetSharedUsed
<1>5. mr => hdrm'[p] = 0
  BY DEF MayResume
<1>6. queued'[p] \in Nat /\ hdrm'[p] \in Nat
  BY DEF CountersInv
<1>7. CASE paused[p] = 1 /\ mr /\ paused' = [paused EXCEPT ![p] = 0]
  <2> HIDE DEF mr
  <2> QED BY <1>2, <1>5, <1>7 DEF PauseInv, HeadroomMeansPaused, NoStuckPause
<1>8. CASE ~(paused[p] = 1 /\ mr) /\ UNCHANGED paused
  <2> HIDE DEF mr
  <2> QED BY <1>2, <1>3, <1>4, <1>6, <1>8 DEF PauseInv, HeadroomMeansPaused, NoStuckPause
<1> QED BY <1>7, <1>8 DEF CheckAndSendResume

-----------------------------------------------------------------------------
(***************************************************************************)
(* The PFC frames under way.                                               *)
(***************************************************************************)
\* A frame that changes what was sent last continues the alternation.
LEMMA AppendAlternate ==
    ASSUME NEW f \in Seq(0..1), NEW st \in 0..1, NEW pa \in 0..1, NEW t \in 0..1,
           Alternate(f, st, pa), t = 1 - pa
    PROVE  Append(f, t) \in Seq(0..1) /\ Alternate(Append(f, t), st, t)
<1> DEFINE g == Append(f, t)
<1>1. /\ g \in Seq(0..1) /\ g # << >> /\ Len(g) = Len(f) + 1 /\ Len(f) \in Nat
      /\ g[Len(g)] = t /\ \A i \in 1 .. Len(f) : g[i] = f[i]
  <2>1. g \in Seq(0..1)
    OBVIOUS
  <2>2. Len(f) \in Nat /\ Len(g) = Len(f) + 1
    OBVIOUS
  <2>3. g[Len(f) + 1] = t
    OBVIOUS
  <2>4. \A i \in 1 .. Len(f) : g[i] = f[i]
    OBVIOUS
  <2>5. g # << >>
    BY <2>2
  <2> HIDE DEF g
  <2> QED BY <2>1, <2>2, <2>3, <2>4, <2>5
<1>2. CASE f = << >>
  BY <1>1, <1>2 DEF Alternate
<1>3. CASE f # << >>
  <2>1. Len(f) >= 1 /\ f[1] = 1 - st /\ f[Len(f)] = pa
    BY <1>3 DEF Alternate
  <2>2. \A i \in 1 .. Len(f) - 1 : f[i + 1] = 1 - f[i]
    BY <1>3 DEF Alternate
  <2> HIDE DEF g
  <2>3. \A i \in 1 .. Len(g) - 1 : g[i + 1] = 1 - g[i]
    <3>1. TAKE i \in 1 .. Len(g) - 1
    <3>2. CASE i = Len(f)
      BY <1>1, <2>1, <3>2
    <3>3. CASE i < Len(f)
      BY <1>1, <2>2, <3>3
    <3> QED BY <1>1, <3>2, <3>3
  <2>4. g[1] = 1 - st
    BY <1>1, <2>1
  <2> QED BY <1>1, <2>3, <2>4 DEF Alternate, g
<1> QED BY <1>2, <1>3

\* The other end takes the oldest frame and knows what it said.
LEMMA TailAlternate ==
    ASSUME NEW f \in Seq(0..1), NEW st \in 0..1, NEW pa \in 0..1,
           Alternate(f, st, pa), f # << >>
    PROVE  /\ Tail(f) \in Seq(0..1) /\ Head(f) \in 0..1
           /\ Alternate(Tail(f), Head(f), pa)
<1> DEFINE g == Tail(f)
<1>1. /\ g \in Seq(0..1) /\ Head(f) = f[1] /\ f[1] \in 0..1
      /\ Len(f) \in Nat /\ Len(f) >= 1 /\ Len(g) = Len(f) - 1
      /\ \A i \in 1 .. Len(g) : g[i] = f[i + 1]
  OBVIOUS
<1>2. f[Len(f)] = pa /\ \A i \in 1 .. Len(f) - 1 : f[i + 1] = 1 - f[i]
  BY DEF Alternate
<1>3. CASE g = << >>
  <2>1. Len(f) = 1
    <3> HIDE DEF g
    <3>1. Len(g) = 0
      BY <1>3
    <3> QED BY <1>1, <3>1
  <2> QED BY <1>1, <1>2, <1>3, <2>1 DEF Alternate
<1>4. CASE g # << >>
  <2>1. Len(g) >= 1
    BY <1>1, <1>4
  <2> HIDE DEF g
  <2>2. g[1] = 1 - f[1]
    BY <1>1, <1>2, <2>1
  <2>3. g[Len(g)] = pa
    BY <1>1, <1>2, <2>1
  <2>4. \A i \in 1 .. Len(g) - 1 : g[i + 1] = 1 - g[i]
    <3>1. TAKE i \in 1 .. Len(g) - 1
    <3>2. g[i] = f[i + 1] /\ g[i + 1] = f[(i + 1) + 1]
      BY <1>1
    <3>3. i + 1 \in 1 .. Len(f) - 1
      BY <1>1
    <3> QED BY <1>2, <3>2, <3>3
  <2> QED BY <1>1, <1>4, <2>2, <2>3, <2>4 DEF Alternate, g
<1> QED BY <1>3, <1>4

\* A frame is sent exactly when the pause flag changes.
LEMMA SendFrames ==
    ASSUME FramesInv, PauseInv, NEW p \in Port, UNCHANGED stopped,
           \/ /\ paused[p] = 0 /\ SendPfc(p, 1) /\ paused' = [paused EXCEPT ![p] = 1]
           \/ /\ paused[p] = 1 /\ SendPfc(p, 0) /\ paused' = [paused EXCEPT ![p] = 0]
           \/ UNCHANGED <<frames, paused>>
    PROVE  FramesInv'
<1>1. /\ frames[p] \in Seq(0..1) /\ stopped[p] \in 0..1 /\ paused[p] \in 0..1
      /\ Alternate(frames[p], stopped[p], paused[p])
      /\ paused \in [Port -> 0..1]
  BY DEF FramesInv, PauseInv
<1>2. ASSUME NEW t \in 0..1, t = 1 - paused[p], SendPfc(p, t),
             paused' = [paused EXCEPT ![p] = t]
      PROVE  FramesInv'
  <2> DEFINE g == Append(frames[p], t)
  <2>1. g \in Seq(0..1) /\ Alternate(g, stopped[p], t)
    BY <1>1, <1>2, AppendAlternate
  <2>2. frames' = [frames EXCEPT ![p] = g]
    BY <1>2 DEF SendPfc, FramesInv
  <2> HIDE DEF g
  <2>3. frames' \in [Port -> Seq(0..1)]
    BY <2>1, <2>2 DEF FramesInv
  <2>4. ASSUME NEW q \in Port
        PROVE  Alternate(frames'[q], stopped'[q], paused'[q])
    <3>1. CASE q = p
      <4>1. frames'[q] = g /\ stopped'[q] = stopped[p] /\ paused'[q] = t
        BY <1>1, <1>2, <2>2, <3>1 DEF FramesInv
      <4> QED BY <2>1, <4>1
    <3>2. CASE q # p
      <4>1. frames'[q] = frames[q] /\ stopped'[q] = stopped[q] /\ paused'[q] = paused[q]
        BY <1>1, <1>2, <2>2, <3>2 DEF FramesInv
      <4> QED BY <4>1 DEF FramesInv
    <3> QED BY <3>1, <3>2
  <2> QED BY <2>3, <2>4 DEF FramesInv
<1>3. CASE UNCHANGED <<frames, paused>>
  BY <1>3 DEF FramesInv
<1> QED BY <1>2, <1>3

\* An arriving frame keeps the alternation.
LEMMA ArrivalFrames ==
    ASSUME FramesInv, PauseInv, NEW p \in Port, PfcArrives(p)
    PROVE  FramesInv'
<1> DEFINE h == Head(frames[p])
           g == Tail(frames[p])
<1>1. /\ frames[p] \in Seq(0..1) /\ stopped[p] \in 0..1 /\ paused[p] \in 0..1
      /\ Alternate(frames[p], stopped[p], paused[p]) /\ frames[p] # << >>
  BY DEF FramesInv, PauseInv, PfcArrives
<1>2. g \in Seq(0..1) /\ h \in 0..1 /\ Alternate(g, h, paused[p])
  BY <1>1, TailAlternate
<1>3. frames' = [frames EXCEPT ![p] = g] /\ stopped' = [stopped EXCEPT ![p] = h]
      /\ paused' = paused
  BY DEF PfcArrives, FramesInv
<1> HIDE DEF g, h
<1>4. frames' \in [Port -> Seq(0..1)] /\ stopped' \in [Port -> 0..1]
  BY <1>2, <1>3 DEF FramesInv
<1>5. ASSUME NEW q \in Port
      PROVE  Alternate(frames'[q], stopped'[q], paused'[q])
  <2>1. CASE q = p
    <3>1. frames'[q] = g /\ stopped'[q] = h /\ paused'[q] = paused[p]
      BY <1>3, <2>1 DEF FramesInv
    <3> QED BY <1>2, <3>1
  <2>2. CASE q # p
    <3>1. frames'[q] = frames[q] /\ stopped'[q] = stopped[q] /\ paused'[q] = paused[q]
      BY <1>3, <2>2 DEF FramesInv
    <3> QED BY <3>1 DEF FramesInv
  <2> QED BY <2>1, <2>2
<1> QED BY <1>4, <1>5 DEF FramesInv

-----------------------------------------------------------------------------
(***************************************************************************)
(* The inductive invariant and what follows from it.                       *)
(***************************************************************************)
IInv == CountersInv /\ PauseInv /\ FramesInv

\* It holds of an empty switch.
LEMMA InitIInv == Fits /\ Init => IInv
<1> SUFFICES ASSUME Fits, Init PROVE IInv
  OBVIOUS
<1>1. CountersInv
  BY MmuAssumption DEF Init, CountersInv, Accounted, HeadroomBound, Fits
<1>2. PauseInv
  BY DEF Init, PauseInv, HeadroomMeansPaused, NoStuckPause
<1>3. FramesInv
  <2>1. << >> \in Seq(0..1)
    OBVIOUS
  <2> QED BY <2>1 DEF Init, FramesInv, Alternate
<1> QED BY <1>1, <1>2, <1>3 DEF IInv

\* A packet that comes in, admitted or dropped, preserves it.
LEMMA ReceiveIInv ==
    ASSUME Fits, IInv, NEW p \in Port, NEW s \in Sizes, Receive(p, s)
    PROVE  IInv'
<1> USE DEF IInv
<1>1. CASE /\ CheckIngressAdmission(p, s) /\ UpdateIngressAdmission(p, s)
           /\ CheckAndSendPfc(p) /\ queued' = [queued EXCEPT ![p] = @ + s]
           /\ UNCHANGED stopped
  <2>1. CountersInv'
    BY <1>1, AdmissionCounters
  <2>2. PauseInv'
    BY <1>1, <2>1, AdmissionPause
  <2>3. FramesInv'
    BY <1>1, SendFrames DEF CheckAndSendPfc
  <2> QED BY <2>1, <2>2, <2>3
<1>2. CASE UNCHANGED <<mmu, frames, paused, stopped>>
  <2>1. CountersInv'
    BY <1>2, CountersKept
  <2>2. PauseInv'
    BY <1>2 DEF PauseInv, HeadroomMeansPaused, NoStuckPause, mmu
  <2>3. FramesInv'
    BY <1>2 DEF FramesInv
  <2> QED BY <2>1, <2>2, <2>3
<1> QED BY <1>1, <1>2 DEF Receive

\* So does a packet that leaves,
LEMMA DequeueIInv ==
    ASSUME Fits, IInv, NEW p \in Port, NEW s \in Sizes, Dequeue(p, s)
    PROVE  IInv'
<1> USE DEF IInv
<1>1. CountersInv'
  BY RemovalCounters DEF Dequeue
<1>2. PauseInv'
  BY <1>1, RemovalPause DEF Dequeue
<1>3. FramesInv'
  BY SendFrames DEF Dequeue, CheckAndSendResume
<1> QED BY <1>1, <1>2, <1>3

\* and a frame that reaches the other end.
LEMMA PfcArrivesIInv ==
    ASSUME IInv, NEW p \in Port, PfcArrives(p)
    PROVE  IInv'
<1> USE DEF IInv
<1>1. CountersInv'
  BY CountersKept DEF PfcArrives
<1>2. PauseInv'
  BY DEF PfcArrives, PauseInv, HeadroomMeansPaused, NoStuckPause, mmu
<1>3. FramesInv'
  BY ArrivalFrames
<1> QED BY <1>1, <1>2, <1>3

\* A step that leaves the switch alone preserves it.
LEMMA KeptIInv ==
    ASSUME IInv, UNCHANGED vars
    PROVE  IInv'
BY DEF IInv, vars, mmu, pfc, CountersInv, PauseInv, FramesInv, Accounted,
       HeadroomBound, HeadroomMeansPaused, NoStuckPause

\* Every step preserves it.
LEMMA NextIInv == Fits /\ IInv /\ [Next]_vars => IInv'
BY ReceiveIInv, DequeueIInv, PfcArrivesIInv, KeptIInv DEF Next

\* The inductive invariant holds in every reachable state.
THEOREM MmuInvariance == Fits /\ Spec => []IInv
<1> SUFFICES ASSUME Fits PROVE Spec => []IInv
  OBVIOUS
<1>1. Init => IInv
  BY InitIInv
<1>2. IInv /\ [Next]_vars => IInv'
  BY NextIInv
<1> QED BY <1>1, <1>2, PTL DEF Spec

\* No byte is charged or released twice, whatever the thresholds.
THEOREM BytesAccounted == Fits /\ Spec => []Accounted
<1>1. IInv => Accounted
  BY DEF IInv, CountersInv
<1> QED BY <1>1, MmuInvariance, PTL

\* The headroom of a port is never exceeded, although CheckIngressAdmission
\* and UpdateIngressAdmission test the thresholds in different ways.
THEOREM HeadroomSafe == Fits /\ Spec => []HeadroomBound
<1>1. IInv => HeadroomBound
  BY DEF IInv, CountersInv
<1> QED BY <1>1, MmuInvariance, PTL

\* A port that uses headroom has been paused.
THEOREM HeadroomPaused == Fits /\ Spec => []HeadroomMeansPaused
<1>1. IInv => HeadroomMeansPaused
  BY DEF IInv, PauseInv
<1> QED BY <1>1, MmuInvariance, PTL

\* A paused port still holds a packet, whose departure can send the resume.
THEOREM NeverStuck == Fits /\ Spec => []NoStuckPause
<1>1. IInv => NoStuckPause
  BY DEF IInv, PauseInv
<1> QED BY <1>1, MmuInvariance, PTL

\* The assertion of Resume holds and the two ends of a link agree.
THEOREM PfcOrder == Fits /\ Spec => []PfcAgrees
<1>1. IInv => PfcAgrees
  <2> SUFFICES ASSUME IInv, NEW p \in Port
               PROVE  IF frames[p] = << >> THEN stopped[p] = paused[p]
                      ELSE Head(frames[p]) = 0 => stopped[p] = 1
    BY DEF PfcAgrees
  <2>1. /\ frames[p] \in Seq(0..1) /\ stopped[p] \in 0..1
        /\ Alternate(frames[p], stopped[p], paused[p])
    BY DEF IInv, FramesInv
  <2> QED BY <2>1 DEF Alternate
<1> QED BY <1>1, MmuInvariance, PTL

-----------------------------------------------------------------------------
(***************************************************************************)
(* Sums over the ports.  Total adds one port at a time, by a function that *)
(* is defined in terms of itself: that there is such a function, and what  *)
(* it returns, follows from looking at the smallest set of ports for which *)
(* it would not be so.                                                     *)
(***************************************************************************)
\* A set of naturals has a least element.
LEMMA LeastNatural ==
    ASSUME NEW T, T \subseteq Nat, T # {}
    PROVE  \E n \in T : \A m \in T : n <= m
<1>1. IsWellFoundedOn(OpToRel(<, Nat), Nat)
  BY NatLessThanWellFounded
<1>2. \E n \in T : \A m \in T : ~ (<<m, n>> \in OpToRel(<, Nat))
  BY <1>1, WFMin
<1>3. PICK n \in T : \A m \in T : ~ (<<m, n>> \in OpToRel(<, Nat))
  BY <1>2
<1>4. \A m \in T : n <= m
  <2>1. TAKE m \in T
  <2>2. m \in Nat /\ n \in Nat
    OBVIOUS
  <2>3. m < n => <<m, n>> \in OpToRel(<, Nat)
    BY <2>2 DEF OpToRel
  <2>4. ~ (m < n)
    BY <1>3, <2>3
  <2> QED BY <2>2, <2>4
<1> QED BY <1>4

\* What Total makes of a set of ports, from what it makes of smaller ones.
First(s) == CHOOSE x \in s : TRUE
AddFirst(f, g, s) == IF s = {} THEN 0 ELSE f[First(s)] + g[s \ {First(s)}]
Adds(f, g) == g = [s \in SUBSET Port |-> AddFirst(f, g, s)]
PartSum(f) == CHOOSE g : Adds(f, g)

Small(n) == {s \in SUBSET Port : Cardinality(s) <= n}

LEMMA TotalIsPartSum ==
    ASSUME NEW f
    PROVE  Total(f) = PartSum(f)[Port]
BY DEF Total, MapThenSumSet, MapThenFoldSet, PartSum, Adds, AddFirst, First

\* Taking the first port away leaves fewer.
LEMMA FirstLeaves ==
    ASSUME NEW s \in SUBSET Port, s # {}
    PROVE  /\ First(s) \in s /\ First(s) \in Port
           /\ s \ {First(s)} \in SUBSET Port
           /\ Cardinality(s) \in Nat /\ Cardinality(s) >= 1
           /\ Cardinality(s \ {First(s)}) = Cardinality(s) - 1
<1>1. IsFiniteSet(s)
  BY MmuAssumption, FS_Subset
<1>2. First(s) \in s
  BY DEF First
<1>3. Cardinality(s) \in Nat /\ Cardinality(s) # 0
  BY <1>1, FS_CardinalityType, FS_EmptySet
<1>4. Cardinality(s \ {First(s)}) = Cardinality(s) - 1
  BY <1>1, <1>2, FS_RemoveElement
<1> QED BY <1>2, <1>3, <1>4

\* There is such a function: were there none for the sets of n ports, take the
\* least n; then there is one for fewer ports, and it extends to n.
AddsUpTo(f, g, n) == g = [s \in Small(n) |-> AddFirst(f, g, s)]

LEMMA PartSumExtends ==
    ASSUME NEW f, NEW g, NEW n \in Nat, n >= 1, AddsUpTo(f, g, n - 1)
    PROVE  AddsUpTo(f, [s \in Small(n) |-> AddFirst(f, g, s)], n)
<1> DEFINE h == [s \in Small(n) |-> AddFirst(f, g, s)]
<1>1. ASSUME NEW s \in Small(n)
      PROVE  AddFirst(f, g, s) = AddFirst(f, h, s)
  <2>1. CASE s = {}
    BY <2>1 DEF AddFirst
  <2>2. CASE s # {}
    <3> DEFINE r == s \ {First(s)}
    <3>1. s \in SUBSET Port /\ Cardinality(s) <= n
      BY DEF Small
    <3>2. r \in SUBSET Port /\ Cardinality(r) <= n - 1 /\ Cardinality(r) \in Int
      BY <2>2, <3>1, FirstLeaves
    <3>3. r \in Small(n - 1) /\ r \in Small(n)
      BY <3>2 DEF Small
    <3> HIDE DEF r
    <3>4. g[r] = AddFirst(f, g, r)
      BY <3>3 DEF AddsUpTo
    <3>5. h[r] = AddFirst(f, g, r)
      BY <3>3
    <3>6. h[r] = g[r]
      BY <3>4, <3>5
    <3> HIDE DEF h
    <3> QED BY <2>2, <3>6 DEF AddFirst, r
  <2> QED BY <2>1, <2>2
<1>2. h = [s \in Small(n) |-> AddFirst(f, h, s)]
  BY <1>1
<1> QED BY <1>2 DEF AddsUpTo

LEMMA PartSumExists ==
    ASSUME NEW f
    PROVE  PartSum(f) = [s \in SUBSET Port |-> AddFirst(f, PartSum(f), s)]
<1> DEFINE T == {n \in Nat : ~ \E g : AddsUpTo(f, g, n)}
<1>1. IsFiniteSet(Port) /\ Cardinality(Port) \in Nat
  BY MmuAssumption, FS_CardinalityType
<1>2. T = {}
  <2>1. SUFFICES ASSUME T # {} PROVE FALSE
    OBVIOUS
  <2>2. PICK n \in T : \A m \in T : n <= m
    <3>1. T \subseteq Nat
      OBVIOUS
    <3> HIDE DEF T
    <3> QED BY <2>1, <3>1, LeastNatural
  <2>3. n \in Nat /\ ~ \E g : AddsUpTo(f, g, n)
    OBVIOUS
  <2>4. n # 0
    <3>1. SUFFICES ASSUME n = 0 PROVE FALSE
      OBVIOUS
    <3>2. \A s \in Small(0) : s = {}
      <4>1. TAKE s \in Small(0)
      <4>2. IsFiniteSet(s) /\ Cardinality(s) <= 0
        BY MmuAssumption, FS_Subset DEF Small
      <4>3. Cardinality(s) = 0
        BY <4>2, FS_CardinalityType
      <4> QED BY <4>2, <4>3, FS_EmptySet
    <3> DEFINE g == [s \in Small(0) |-> 0]
    <3>3. g = [s \in Small(0) |-> AddFirst(f, g, s)]
      <4> HIDE DEF g
      <4>1. \A s \in Small(0) : AddFirst(f, g, s) = 0
        BY <3>2 DEF AddFirst
      <4> QED BY <4>1 DEF g
    <3> QED BY <2>3, <3>1, <3>3 DEF AddsUpTo
  <2>5. n - 1 \in Nat /\ n - 1 \notin T
    BY <2>2, <2>3, <2>4
  <2>6. PICK g : AddsUpTo(f, g, n - 1)
    BY <2>5
  <2>7. n \in Nat /\ n >= 1
    BY <2>3, <2>4
  <2>8. AddsUpTo(f, [s \in Small(n) |-> AddFirst(f, g, s)], n)
    BY <2>6, <2>7, PartSumExtends
  <2> QED BY <2>3, <2>8
<1>3. PICK g : AddsUpTo(f, g, Cardinality(Port))
  BY <1>1, <1>2
<1>4. Small(Cardinality(Port)) = SUBSET Port
  BY <1>1, FS_Subset DEF Small
<1>5. Adds(f, g)
  BY <1>3, <1>4 DEF AddsUpTo, Adds
<1>6. Adds(f, PartSum(f))
  BY <1>5 DEF PartSum
<1> QED BY <1>6 DEF Adds

\* So the sum of a set of ports adds the first to the sum of the others.
LEMMA PartSumStep ==
    ASSUME NEW f, NEW s \in SUBSET Port
    PROVE  PartSum(f)[s] = IF s = {} THEN 0 ELSE f[First(s)] + PartSum(f)[s \ {First(s)}]
<1> DEFINE g == PartSum(f)
<1>1. g = [t \in SUBSET Port |-> AddFirst(f, g, t)]
  BY PartSumExists
<1> HIDE DEF g
<1>2. g[s] = AddFirst(f, g, s)
  BY <1>1
<1> QED BY <1>2 DEF AddFirst, g

\* The sum over no ports.
LEMMA PartSumEmpty ==
    ASSUME NEW f
    PROVE  PartSum(f)[{}] = 0 /\ {} \in SUBSET Port
<1>1. {} \in SUBSET Port
  OBVIOUS
<1> QED BY <1>1, PartSumStep

\* What holds of no port, and of a set of ports when it does without the first,
\* holds of every set of ports.
LEMMA PortInduction ==
    ASSUME NEW T, {} \in T,
           \A s \in SUBSET Port : s # {} /\ s \ {First(s)} \in T => s \in T
    PROVE  \A s \in SUBSET Port : s \in T
<1> DEFINE C == {Cardinality(s) : s \in (SUBSET Port) \ T}
<1>1. \A s \in SUBSET Port : Cardinality(s) \in Nat
  BY MmuAssumption, FS_Subset, FS_CardinalityType
<1>2. SUFFICES ASSUME C # {} PROVE FALSE
  OBVIOUS
<1>3. PICK n \in C : \A m \in C : n <= m
  <2>1. C \subseteq Nat
    BY <1>1
  <2> HIDE DEF C
  <2> QED BY <1>2, <2>1, LeastNatural
<1>4. PICK s \in (SUBSET Port) \ T : Cardinality(s) = n
  OBVIOUS
<1>5. s # {} /\ s \ {First(s)} \notin T
  OBVIOUS
<1>6. /\ s \ {First(s)} \in SUBSET Port
      /\ Cardinality(s \ {First(s)}) = Cardinality(s) - 1
  BY <1>5, FirstLeaves
<1>7. n <= Cardinality(s \ {First(s)})
  BY <1>3, <1>5, <1>6
<1> QED BY <1>1, <1>4, <1>6, <1>7

\* Sums of integers are integers, sums of naturals are naturals.
LEMMA TotalType ==
    ASSUME NEW f \in [Port -> Int]
    PROVE  \A s \in SUBSET Port : PartSum(f)[s] \in Int
<1> DEFINE T == {s \in SUBSET Port : PartSum(f)[s] \in Int}
<1>1. {} \in T
  BY PartSumEmpty
<1>2. ASSUME NEW s \in SUBSET Port, s # {}, s \ {First(s)} \in T
      PROVE  s \in T
  <2>1. PartSum(f)[s] = f[First(s)] + PartSum(f)[s \ {First(s)}]
    BY <1>2, PartSumStep
  <2> QED BY <1>2, <2>1, FirstLeaves
<1> HIDE DEF T
<1>3. \A s \in SUBSET Port : s \in T
  BY <1>1, <1>2, PortInduction
<1> QED BY <1>3 DEF T

LEMMA TotalNat ==
    ASSUME NEW f \in [Port -> Nat]
    PROVE  Total(f) \in Nat
<1> DEFINE T == {s \in SUBSET Port : PartSum(f)[s] \in Nat}
<1>1. {} \in T
  BY PartSumEmpty
<1>2. ASSUME NEW s \in SUBSET Port, s # {}, s \ {First(s)} \in T
      PROVE  s \in T
  <2>1. PartSum(f)[s] = f[First(s)] + PartSum(f)[s \ {First(s)}]
    BY <1>2, PartSumStep
  <2> QED BY <1>2, <2>1, FirstLeaves
<1> HIDE DEF T
<1>3. \A s \in SUBSET Port : s \in T
  BY <1>1, <1>2, PortInduction
<1> QED BY <1>3, TotalIsPartSum DEF T

\* A change at one port changes the sum by as much.
LEMMA TotalChange ==
    ASSUME NEW f \in [Port -> Int], NEW g \in [Port -> Int], NEW p \in Port,
           \A q \in Port \ {p} : g[q] = f[q]
    PROVE  Total(g) = Total(f) + (g[p] - f[p])
<1> DEFINE T == {s \in SUBSET Port :
                    PartSum(g)[s] = PartSum(f)[s] + (IF p \in s THEN g[p] - f[p] ELSE 0)}
<1>1. {} \in T
  BY PartSumEmpty
<1>2. ASSUME NEW s \in SUBSET Port, s # {}, s \ {First(s)} \in T
      PROVE  s \in T
  <2> DEFINE x == First(s)
             r == s \ {x}
  <2>1. /\ PartSum(g)[s] = g[x] + PartSum(g)[r]
        /\ PartSum(f)[s] = f[x] + PartSum(f)[r]
    BY <1>2, PartSumStep
  <2>2. x \in s /\ x \in Port /\ r \in SUBSET Port
    BY <1>2, FirstLeaves
  <2>3. PartSum(g)[r] = PartSum(f)[r] + (IF p \in r THEN g[p] - f[p] ELSE 0)
    BY <1>2
  <2>4. PartSum(f)[r] \in Int /\ PartSum(g)[r] \in Int
    BY <2>2, TotalType
  <2>5. (p \in s) <=> (p \in r \/ p = x)
    BY <2>2
  <2>6. ~(p \in r /\ p = x)
    OBVIOUS
  <2> HIDE DEF x, r
  <2>7. PartSum(g)[s] = PartSum(f)[s] + (IF p \in s THEN g[p] - f[p] ELSE 0)
    BY <2>1, <2>2, <2>3, <2>4, <2>5, <2>6
  <2> QED BY <2>7
<1> HIDE DEF T
<1>3. \A s \in SUBSET Port : s \in T
  BY <1>1, <1>2, PortInduction
<1>4. Port \in T
  BY <1>3
<1> QED BY <1>4, TotalIsPartSum DEF T

\* A sum is bounded by what bounds each of its terms.
LEMMA TotalBound ==
    ASSUME NEW f \in [Port -> Int], NEW a \in [Port -> Int], NEW b \in [Port -> Int],
           NEW c \in [Port -> Int], \A p \in Port : f[p] <= a[p] + b[p] + c[p]
    PROVE  Total(f) <= Total(a) + Total(b) + Total(c)
<1> DEFINE T == {s \in SUBSET Port :
                    PartSum(f)[s] <= PartSum(a)[s] + PartSum(b)[s] + PartSum(c)[s]}
<1>1. {} \in T
  BY PartSumEmpty
<1>2. ASSUME NEW s \in SUBSET Port, s # {}, s \ {First(s)} \in T
      PROVE  s \in T
  <2> DEFINE x == First(s)
             r == s \ {x}
  <2>1. /\ PartSum(f)[s] = f[x] + PartSum(f)[r]
        /\ PartSum(a)[s] = a[x] + PartSum(a)[r]
        /\ PartSum(b)[s] = b[x] + PartSum(b)[r]
        /\ PartSum(c)[s] = c[x] + PartSum(c)[r]
    BY <1>2, PartSumStep
  <2>2. x \in Port /\ r \in SUBSET Port
    BY <1>2, FirstLeaves
  <2>3. PartSum(f)[r] <= PartSum(a)[r] + PartSum(b)[r] + PartSum(c)[r]
    BY <1>2
  <2>4. /\ PartSum(f)[r] \in Int /\ PartSum(a)[r] \in Int
        /\ PartSum(b)[r] \in Int /\ PartSum(c)[r] \in Int
    BY <2>2, TotalType
  <2> HIDE DEF x, r
  <2>5. PartSum(f)[s] <= PartSum(a)[s] + PartSum(b)[s] + PartSum(c)[s]
    BY <2>1, <2>2, <2>3, <2>4
  <2> QED BY <2>5
<1> HIDE DEF T
<1>3. \A s \in SUBSET Port : s \in T
  BY <1>1, <1>2, PortInduction
<1>4. Port \in T
  BY <1>3
<1> QED BY <1>4, TotalIsPartSum DEF T

Used == [p \in Port |-> GetSharedUsed(p)]

\* A step that changes one port and what it uses of the pool by the same.
LEMMA UsedChange ==
    ASSUME CountersInv, CountersInv', SharedIsSum, NEW p \in Port,
           \A q \in Port \ {p} : ingress'[q] = ingress[q],
           shared' = shared + (GetSharedUsed(p)' - GetSharedUsed(p))
    PROVE  SharedIsSum'
<1> DEFINE f == Used
           g == Used'
<1>1. Reserve \in Nat /\ ingress \in [Port -> Nat] /\ ingress' \in [Port -> Nat]
  BY MmuAssumption DEF CountersInv
<1>2. f \in [Port -> Int] /\ g \in [Port -> Int]
  BY <1>1 DEF Used, GetSharedUsed
<1>3. \A q \in Port \ {p} : g[q] = f[q]
  BY DEF Used, GetSharedUsed
<1>4. g[p] = GetSharedUsed(p)' /\ f[p] = GetSharedUsed(p)
  BY DEF Used
<1>5. shared = Total(f)
  BY DEF SharedIsSum, Used
<1>6. shared' = Total(g) => SharedIsSum'
  BY DEF SharedIsSum, Used
<1> HIDE DEF f, g
<1>7. Total(g) = Total(f) + (g[p] - f[p])
  BY <1>2, <1>3, TotalChange
<1> QED BY <1>4, <1>5, <1>6, <1>7

\* What UpdateIngressAdmission adds to the pool is what the port uses more of it.
LEMMA AdmissionShared ==
    ASSUME CountersInv, CountersInv', SharedIsSum, NEW p \in Port, NEW s \in Sizes,
           UpdateIngressAdmission(p, s)
    PROVE  SharedIsSum'
<1>1. s \in Nat /\ Reserve \in Nat /\ ingress \in [Port -> Nat] /\ shared \in Int
  BY MmuAssumption DEF CountersInv
<1>2. \A q \in Port \ {p} : ingress'[q] = ingress[q]
  BY <1>1 DEF UpdateIngressAdmission
<1>3. shared' = shared + (GetSharedUsed(p)' - GetSharedUsed(p))
  BY <1>1 DEF UpdateIngressAdmission, GetSharedUsed, Less
<1> QED BY <1>2, <1>3, UsedChange

\* And what RemoveFromIngressAdmission takes is what it uses less.
LEMMA RemovalShared ==
    ASSUME CountersInv, CountersInv', SharedIsSum, NEW p \in Port, NEW s \in Sizes,
           s <= queued[p], RemoveFromIngressAdmission(p, s)
    PROVE  SharedIsSum'
<1> DEFINE x == s - Less(hdrm[p], s)
<1>1. s \in Nat /\ Reserve \in Nat /\ ingress \in [Port -> Nat] /\ shared \in Int
      /\ ingress[p] \in Nat /\ hdrm[p] \in Nat /\ ingress[p] + hdrm[p] = queued[p]
  BY MmuAssumption DEF CountersInv, Accounted
<1>2. x \in Nat /\ x <= ingress[p]
  BY <1>1 DEF Less
<1>3. ingress' = [ingress EXCEPT ![p] = @ - x] /\ shared' = shared - Less(x, GetSharedUsed(p))
  BY DEF RemoveFromIngressAdmission
<1> HIDE DEF x
<1>4. \A q \in Port \ {p} : ingress'[q] = ingress[q]
  BY <1>1, <1>3
<1>5. shared' = shared + (GetSharedUsed(p)' - GetSharedUsed(p))
  BY <1>1, <1>2, <1>3 DEF GetSharedUsed, Less
<1> QED BY <1>4, <1>5, UsedChange

\* The sum is kept by every step.
LEMMA NextShared == Fits /\ IInv /\ SharedIsSum /\ [Next]_vars => SharedIsSum'
<1> SUFFICES ASSUME Fits, IInv, SharedIsSum, [Next]_vars PROVE SharedIsSum'
  OBVIOUS
<1>1. IInv'
  BY NextIInv
<1>2. CountersInv /\ CountersInv'
  BY <1>1 DEF IInv
<1>3. UNCHANGED mmu => SharedIsSum'
  BY DEF mmu, SharedIsSum, GetSharedUsed
<1>4. ASSUME NEW p \in Port, NEW s \in Sizes, Receive(p, s)
      PROVE  SharedIsSum'
  BY <1>2, <1>3, <1>4, AdmissionShared DEF Receive
<1>5. ASSUME NEW p \in Port, NEW s \in Sizes, Dequeue(p, s)
      PROVE  SharedIsSum'
  BY <1>2, <1>5, RemovalShared DEF Dequeue
<1>6. ASSUME NEW p \in Port, PfcArrives(p)
      PROVE  SharedIsSum'
  BY <1>3, <1>6 DEF PfcArrives
<1>7. CASE UNCHANGED vars
  BY <1>3, <1>7 DEF vars
<1> QED BY <1>4, <1>5, <1>6, <1>7 DEF Next

\* shared_used_bytes is what the ports together use of the pool: no packet is
\* charged to it when it comes in and to something else when it leaves.
THEOREM SharedSummed == Fits /\ Spec => []SharedIsSum
<1> SUFFICES ASSUME Fits PROVE Spec => []SharedIsSum
  OBVIOUS
<1>1. Init => SharedIsSum
  <2> SUFFICES ASSUME Init PROVE SharedIsSum
    OBVIOUS
  <2> DEFINE z == [p \in Port |-> GetSharedUsed(p)]
             T == {s \in SUBSET Port : PartSum(z)[s] = 0}
  <2>1. \A p \in Port : z[p] = 0
    BY MmuAssumption DEF Init, GetSharedUsed
  <2> HIDE DEF z
  <2>2. {} \in T
    BY PartSumEmpty
  <2>3. ASSUME NEW s \in SUBSET Port, s # {}, s \ {First(s)} \in T
        PROVE  s \in T
    <3>1. PartSum(z)[s] = z[First(s)] + PartSum(z)[s \ {First(s)}]
      BY <2>3, PartSumStep
    <3>2. First(s) \in Port
      BY <2>3, FirstLeaves
    <3>3. PartSum(z)[s \ {First(s)}] = 0
      BY <2>3
    <3>4. PartSum(z)[s] = 0
      BY <2>1, <3>1, <3>2, <3>3
    <3> QED BY <3>4
  <2> HIDE DEF T
  <2>4. \A s \in SUBSET Port : s \in T
    BY <2>2, <2>3, PortInduction
  <2>5. PartSum(z)[Port] = 0
    BY <2>4 DEF T
  <2> QED BY <2>5, TotalIsPartSum DEF SharedIsSum, Init, z
<1>2. IInv /\ SharedIsSum /\ [Next]_vars => SharedIsSum'
  BY NextShared
<1> QED BY <1>1, <1>2, MmuInvariance, PTL DEF Spec

\* The counters never go below zero, where they would wrap, and the pool is
\* never used beyond its size.
THEOREM MmuTypes == Fits /\ Spec => []TypeOK
<1>1. IInv /\ SharedIsSum => TypeOK
  <2> SUFFICES ASSUME IInv, SharedIsSum PROVE TypeOK
    OBVIOUS
  <2>1. Used \in [Port -> Nat]
    BY MmuAssumption DEF Used, GetSharedUsed, IInv, CountersInv
  <2>2. shared \in Nat
    BY <2>1, TotalNat DEF SharedIsSum, Used
  <2>3. frames \in [Port -> Seq(0..1)]
    BY DEF IInv, FramesInv
  <2> QED BY <2>2, <2>3 DEF TypeOK, IInv, CountersInv, PauseInv, FramesInv
<1> QED BY <1>1, MmuInvariance, SharedSummed, PTL

\* The switch never holds more than its buffer, although each packet is tested
\* against its own port only: what a port holds is reserve, pool or headroom.
THEOREM BufferNotExceeded == Fits /\ Spec => []BufferBound
<1>1. Fits /\ IInv /\ SharedIsSum => BufferBound
  <2> SUFFICES ASSUME Fits, IInv, SharedIsSum PROVE BufferBound
    OBVIOUS
  <2> DEFINE r == [p \in Port |-> Reserve]
             u == Used
  <2>1. /\ queued \in [Port -> Int] /\ r \in [Port -> Int] /\ u \in [Port -> Int]
        /\ Headroom \in [Port -> Int]
    BY MmuAssumption DEF Used, GetSharedUsed, IInv, CountersInv
  <2>2. \A p \in Port : queued[p] <= r[p] + u[p] + Headroom[p]
    BY MmuAssumption DEF IInv, CountersInv, Accounted, HeadroomBound, Used, GetSharedUsed
  <2>3. Total(u) = shared /\ shared \in Int /\ shared <= Pool
    BY DEF SharedIsSum, Used, IInv, CountersInv
  <2>4. Pool = BufferSize - Total(Headroom) - Total(r) /\ BufferSize \in Nat
    BY MmuAssumption DEF Pool
  <2> HIDE DEF r, u
  <2>5. Total(queued) <= Total(r) + Total(u) + Total(Headroom)
    BY <2>1, <2>2, TotalBound
  <2>6. Total(queued) \in Int /\ Total(r) \in Int /\ Total(Headroom) \in Int
    BY <2>1, TotalType, TotalIsPartSum
  <2>7. Total(queued) <= BufferSize
    BY <2>3, <2>4, <2>5, <2>6
  <2> QED BY <2>7 DEF BufferBound
<1>2. Fits /\ Spec => [](IInv /\ SharedIsSum)
  BY MmuInvariance, SharedSummed, PTL
<1> SUFFICES ASSUME Fits PROVE Spec => []BufferBound
  OBVIOUS
<1>3. IInv /\ SharedIsSum => BufferBound
  BY <1>1
<1> QED BY <1>2, <1>3, PTL

-----------------------------------------------------------------------------
(***************************************************************************)
(* PfcLink.tla.  While a pause is under way, each packet on the link and   *)
(* each one that can still be sent before it arrives needs a place in the  *)
(* headroom.                                                               *)
(***************************************************************************)
LinkShape ==
    /\ sent \in BOOLEAN
    /\ flight \in SUBSET (0 .. Delay + 1)
    /\ sent = FALSE => Delay + 1 \notin flight
    /\ due \in Seq(0 .. Latest)
    /\ Len(due) = Len(frames[Link])

\* The packets that may still arrive before the other end stops.
Coming == IF due = << >> THEN Cardinality(flight)
          ELSE Cardinality(flight) + due[Len(due)] + (IF sent THEN 0 ELSE 1)

\* M is the size of the largest packet.
Room(M) == paused[Link] = 1 => hdrm[Link] + Coming * M <= Headroom[Link]

LinkIInv(M) == IInv /\ LinkShape /\ Room(M)

\* Products with the size of a packet, which the solvers do not expand.
LEMMA Times ==
    ASSUME NEW a \in Nat, NEW b \in Nat, NEW M \in Nat
    PROVE  /\ a * M \in Nat
           /\ a <= b => a * M <= b * M
           /\ (a + 1) * M = a * M + M
<1>1. a * M \in Nat
  BY SMTT(60)
<1>2. a <= b => a * M <= b * M
  BY SMTT(60)
<1>3. (a + 1) * M = a * M + M
  BY SMTT(60)
<1> QED BY <1>1, <1>2, <1>3

\* The last element of a sequence, and what Append and Tail make of it.
LEMMA LastElement ==
    ASSUME NEW S, NEW q \in Seq(S)
    PROVE  /\ q # << >> => Len(q) \in Nat /\ Len(q) >= 1 /\ q[Len(q)] \in S
           /\ \A t \in S : /\ Append(q, t) \in Seq(S)
                           /\ Append(q, t) # << >>
                           /\ Len(Append(q, t)) = Len(q) + 1
                           /\ Append(q, t)[Len(Append(q, t))] = t
           /\ q # << >> => /\ Tail(q) \in Seq(S)
                           /\ Len(Tail(q)) = Len(q) - 1
                           /\ Head(q) = q[1]
                           /\ Tail(q) = << >> => Len(q) = 1
                           /\ Tail(q) # << >> => Tail(q)[Len(Tail(q))] = q[Len(q)]
<1>1. q # << >> => Len(q) \in Nat /\ Len(q) >= 1 /\ q[Len(q)] \in S
  OBVIOUS
<1>2. ASSUME NEW t \in S
      PROVE  /\ Append(q, t) \in Seq(S)
             /\ Append(q, t) # << >>
             /\ Len(Append(q, t)) = Len(q) + 1
             /\ Append(q, t)[Len(Append(q, t))] = t
  <2> DEFINE g == Append(q, t)
  <2>1. g \in Seq(S) /\ Len(g) = Len(q) + 1 /\ g[Len(q) + 1] = t /\ Len(q) \in Nat
    OBVIOUS
  <2> HIDE DEF g
  <2>2. g # << >>
    BY <2>1
  <2>3. g[Len(g)] = t
    BY <2>1
  <2> QED BY <2>1, <2>2, <2>3 DEF g
<1>3. ASSUME q # << >>
      PROVE  /\ Tail(q) \in Seq(S)
             /\ Len(Tail(q)) = Len(q) - 1
             /\ Head(q) = q[1]
             /\ Tail(q) = << >> => Len(q) = 1
             /\ Tail(q) # << >> => Tail(q)[Len(Tail(q))] = q[Len(q)]
  <2> DEFINE g == Tail(q)
  <2>1. /\ g \in Seq(S) /\ Len(g) = Len(q) - 1 /\ Len(q) \in Nat /\ Len(q) >= 1
        /\ \A i \in 1 .. Len(g) : g[i] = q[i + 1]
    BY <1>3
  <2>2. Head(q) = q[1]
    BY <1>3
  <2> HIDE DEF g
  <2>3. g = << >> => Len(g) = 0
    OBVIOUS
  <2>4. g # << >> => Len(g) >= 1
    BY <2>1
  <2>5. g # << >> => g[Len(g)] = q[Len(q)]
    BY <2>1, <2>4
  <2> QED BY <2>1, <2>2, <2>3, <2>5 DEF g
<1> QED BY <1>1, <1>2, <1>3

\* A frame may arrive as late as this.
LEMMA LatestBound ==
    Delay \in Nat /\ Ahead \in Nat /\ Latest \in Nat /\ Latest = Delay + 1 + Ahead
  BY LinkAssumption DEF Latest

\* A link holds at most one packet for each slot of its length.
LEMMA FlightBound ==
    ASSUME LinkShape
    PROVE  /\ IsFiniteSet(flight)
           /\ Cardinality(flight) \in Nat
           /\ Cardinality(flight) + (IF sent THEN 0 ELSE 1) <= Delay + 2
           /\ 0 \in flight => /\ Cardinality(flight \ {0}) = Cardinality(flight) - 1
                              /\ Cardinality(flight) >= 1
<1>1. Delay \in Nat /\ Delay + 1 \in Nat
  BY LinkAssumption
<1>2. IsFiniteSet(0 .. Delay + 1) /\ Cardinality(0 .. Delay + 1) = Delay + 2
  BY <1>1, FS_Interval
<1>3. flight \in SUBSET (0 .. Delay + 1)
  BY DEF LinkShape
<1>4. IsFiniteSet(flight) /\ Cardinality(flight) <= Delay + 2
  BY <1>2, <1>3, FS_Subset
<1>5. Cardinality(flight) \in Nat
  BY <1>4, FS_CardinalityType
<1>6. CASE sent = FALSE
  <2>1. IsFiniteSet(0 .. Delay) /\ Cardinality(0 .. Delay) = Delay + 1
    BY <1>1, FS_Interval
  <2>2. flight \in SUBSET (0 .. Delay)
    BY <1>1, <1>3, <1>6 DEF LinkShape
  <2>3. Cardinality(flight) <= Delay + 1
    BY <2>1, <2>2, FS_Subset
  <2> QED BY <1>1, <1>4, <1>5, <1>6, <2>3, FS_RemoveElement, FS_EmptySet
<1>7. CASE sent = TRUE
  BY <1>1, <1>4, <1>5, <1>7, FS_RemoveElement, FS_EmptySet
<1>8. 0 \in flight => /\ Cardinality(flight \ {0}) = Cardinality(flight) - 1
                      /\ Cardinality(flight) >= 1
  <2>1. SUFFICES ASSUME 0 \in flight
                 PROVE  /\ Cardinality(flight \ {0}) = Cardinality(flight) - 1
                        /\ Cardinality(flight) >= 1
    OBVIOUS
  <2>2. Cardinality(flight \ {0}) = Cardinality(flight) - 1
    BY <1>4, <2>1, FS_RemoveElement
  <2>3. Cardinality(flight) # 0
    BY <1>4, <2>1, FS_EmptySet
  <2> QED BY <1>5, <2>2, <2>3
<1> QED BY <1>1, <1>4, <1>5, <1>6, <1>7, <1>8 DEF LinkShape

\* A count of packets, those on the link among them.
LEMMA ComingBound ==
    ASSUME LinkShape
    PROVE  /\ Coming \in Nat
           /\ Cardinality(flight) <= Coming
<1>1. /\ Cardinality(flight) \in Nat /\ Delay \in Nat
  BY FlightBound, LinkAssumption
<1>2. CASE due = << >>
  BY <1>1, <1>2 DEF Coming
<1>3. CASE due # << >>
  <2>1. due[Len(due)] \in 0 .. Latest
    BY <1>3, LastElement DEF LinkShape
  <2>2. due[Len(due)] \in Nat
    BY <2>1, LatestBound
  <2>3. (IF sent THEN 0 ELSE 1) \in Nat
    OBVIOUS
  <2> QED BY <1>1, <1>3, <2>2, <2>3 DEF Coming
<1> QED BY <1>2, <1>3

\* What an arriving packet does to its port, and that it leaves the others alone.
LEMMA ReceiveEffect ==
    ASSUME IInv, NEW p \in Port, NEW s \in Sizes, Receive(p, s)
    PROVE  /\ hdrm'[p] <= hdrm[p] + s
           /\ \A q \in Port \ {p} : /\ hdrm'[q] = hdrm[q] /\ paused'[q] = paused[q]
                                    /\ frames'[q] = frames[q]
           /\ \/ paused'[p] = paused[p] /\ frames'[p] = frames[p]
              \/ /\ paused[p] = 0 /\ paused'[p] = 1
                 /\ frames'[p] = Append(frames[p], 1)
<1>1. s \in Nat /\ hdrm \in [Port -> Nat] /\ paused \in [Port -> 0..1]
      /\ frames \in [Port -> Seq(0..1)]
  BY MmuAssumption DEF IInv, CountersInv, PauseInv, FramesInv
<1>2. CASE UNCHANGED <<mmu, frames, paused>>
  BY <1>1, <1>2 DEF mmu
<1>3. CASE UpdateIngressAdmission(p, s) /\ CheckAndSendPfc(p)
  <2>1. hdrm'[p] <= hdrm[p] + s /\ \A q \in Port \ {p} : hdrm'[q] = hdrm[q]
    BY <1>1, <1>3 DEF UpdateIngressAdmission
  <2>2. \/ paused[p] = 0 /\ SendPfc(p, 1) /\ paused' = [paused EXCEPT ![p] = 1]
        \/ UNCHANGED <<frames, paused>>
    BY <1>3 DEF CheckAndSendPfc
  <2> QED BY <1>1, <2>1, <2>2 DEF SendPfc
<1> QED BY <1>2, <1>3 DEF Receive

\* The same of a packet that leaves.
LEMMA DequeueEffect ==
    ASSUME IInv, NEW p \in Port, NEW s \in Sizes, Dequeue(p, s)
    PROVE  /\ hdrm'[p] <= hdrm[p]
           /\ \A q \in Port \ {p} : /\ hdrm'[q] = hdrm[q] /\ paused'[q] = paused[q]
                                    /\ frames'[q] = frames[q]
           /\ \/ paused'[p] = paused[p] /\ frames'[p] = frames[p]
              \/ /\ paused[p] = 1 /\ paused'[p] = 0
                 /\ frames'[p] = Append(frames[p], 0)
<1>1. s \in Nat /\ hdrm \in [Port -> Nat] /\ paused \in [Port -> 0..1]
      /\ frames \in [Port -> Seq(0..1)]
  BY MmuAssumption DEF IInv, CountersInv, PauseInv, FramesInv
<1>2. hdrm'[p] <= hdrm[p] /\ \A q \in Port \ {p} : hdrm'[q] = hdrm[q]
  BY <1>1 DEF Dequeue, RemoveFromIngressAdmission, Less
<1>3. \/ paused[p] = 1 /\ SendPfc(p, 0) /\ paused' = [paused EXCEPT ![p] = 0]
      \/ UNCHANGED <<frames, paused>>
  BY DEF Dequeue, CheckAndSendResume
<1> QED BY <1>1, <1>2, <1>3 DEF SendPfc

\* A new frame takes its place last.
LEMMA FramesFollowShape ==
    ASSUME LinkShape, FramesFollow, frames[Link] \in Seq(0..1), NEW t \in 0..1,
           \/ frames'[Link] = frames[Link]
           \/ frames'[Link] = Append(frames[Link], t)
    PROVE  /\ due' \in Seq(0 .. Latest)
           /\ Len(due') = Len(frames'[Link])
           /\ frames'[Link] = frames[Link] => due' = due
           /\ frames'[Link] = Append(frames[Link], t)
                 => due' # << >> /\ due'[Len(due')] \in 0 .. Latest
<1>1. Delay \in Nat /\ due \in Seq(0 .. Latest) /\ Len(due) = Len(frames[Link])
      /\ Len(frames[Link]) \in Nat
  BY LinkAssumption DEF LinkShape
<1>2. Len(Append(frames[Link], t)) = Len(frames[Link]) + 1
  BY LastElement
<1>3. CASE frames'[Link] = frames[Link]
  <2>1. frames'[Link] # Append(frames[Link], t)
    BY <1>1, <1>2, <1>3
  <2>2. due' = due
    BY <1>3 DEF FramesFollow
  <2> QED BY <1>1, <1>3, <2>1, <2>2
<1>4. CASE frames'[Link] = Append(frames[Link], t) /\ frames'[Link] # frames[Link]
  <2>1. Earliest >= Delay /\ Earliest \in Int
    <3>1. due # << >> => due[Len(due)] \in 0 .. Latest
      BY <1>1, LastElement
    <3> QED BY <1>1, <3>1, LatestBound DEF Earliest
  <2>2. PICK u \in Earliest .. Latest : due' = Append(due, u)
    BY <1>4 DEF FramesFollow
  <2>3. u \in 0 .. Latest
    BY <1>1, <2>1, <2>2, LatestBound
  <2>4. /\ due' \in Seq(0 .. Latest) /\ due' # << >>
        /\ Len(due') = Len(due) + 1 /\ due'[Len(due')] = u
    BY <1>1, <2>2, <2>3, LastElement
  <2> QED BY <1>1, <1>2, <1>4, <2>3, <2>4
<1> QED BY <1>3, <1>4

\* Slots pass: every packet is a slot nearer, and no two fall together.
LEMMA TickFlight ==
    ASSUME LinkShape, 0 \notin flight, flight' = {t - 1 : t \in flight}
    PROVE  /\ flight' \in SUBSET (0 .. Delay)
           /\ Cardinality(flight') = Cardinality(flight)
<1> DEFINE f == [t \in flight |-> t - 1]
<1>1. Delay \in Nat /\ flight \in SUBSET (0 .. Delay + 1) /\ IsFiniteSet(flight)
  BY FlightBound, LinkAssumption DEF LinkShape
<1>2. flight' \in SUBSET (0 .. Delay)
  BY <1>1
<1>3. \A t \in flight : t \in Int
  BY <1>1
<1>4. f \in Bijection(flight, flight')
  <2>1. f \in [flight -> flight']
    OBVIOUS
  <2>2. \A a, b \in flight : f[a] = f[b] => a = b
    BY <1>3
  <2>3. \A b \in flight' : \E a \in flight : f[a] = b
    OBVIOUS
  <2> HIDE DEF f
  <2> QED BY <2>1, <2>2, <2>3 DEF Bijection, Injection, Surjection, IsInjective
<1>5. ExistsBijection(flight, flight')
  BY <1>4 DEF ExistsBijection
<1> QED BY <1>1, <1>2, <1>5, FS_Bijection

\* The same after a step.
LEMMA ComingNext == (LinkShape => Coming \in Nat)'
<1>1. LinkShape => Coming \in Nat
  BY ComingBound
<1> QED BY <1>1, PTL

\* The headroom covers a round trip over the link, the packets that wait
\* at both of its ends, and the ACKs that a frame waits for.
Covered(M) ==
    /\ M \in Nat
    /\ \A s \in Sizes : s <= M
    /\ (2 * Delay + 3 + Ahead) * M <= Headroom[Link]

\* What is known of the link before each step.
LEMMA LinkFacts ==
    ASSUME IInv, LinkShape
    PROVE  /\ Delay \in Nat /\ Link \in Port
           /\ due \in Seq(0 .. Latest) /\ Len(due) = Len(frames[Link])
           /\ frames[Link] \in Seq(0..1) /\ paused[Link] \in 0..1 /\ stopped[Link] \in 0..1
           /\ due = << >> <=> frames[Link] = << >>
           /\ paused[Link] = 1 /\ stopped[Link] = 0 => due # << >>
           /\ hdrm[Link] \in Nat /\ Headroom[Link] \in Nat
           /\ paused[Link] = 0 => hdrm[Link] = 0
           /\ Coming \in Nat
<1>1. /\ Delay \in Nat /\ Link \in Port
      /\ due \in Seq(0 .. Latest) /\ Len(due) = Len(frames[Link])
      /\ frames[Link] \in Seq(0..1) /\ paused[Link] \in 0..1 /\ stopped[Link] \in 0..1
      /\ hdrm[Link] \in Nat /\ Headroom[Link] \in Nat
      /\ Alternate(frames[Link], stopped[Link], paused[Link])
  BY LinkAssumption, MmuAssumption DEF LinkShape, IInv, CountersInv, PauseInv, FramesInv
<1>2. due = << >> <=> frames[Link] = << >>
  <2>1. due = << >> <=> Len(due) = 0
    BY <1>1
  <2>2. frames[Link] = << >> <=> Len(frames[Link]) = 0
    BY <1>1
  <2> QED BY <1>1, <2>1, <2>2
<1>3. paused[Link] = 1 /\ stopped[Link] = 0 => due # << >>
  BY <1>1, <1>2 DEF Alternate
<1>4. paused[Link] = 0 => hdrm[Link] = 0
  BY <1>1 DEF IInv, PauseInv, HeadroomMeansPaused
<1> QED BY <1>1, <1>2, <1>3, <1>4, ComingBound

\* The other end sends only while the pause has not reached it: the packet was
\* counted before it was sent.
LEMMA SendLink ==
    ASSUME NEW M, Covered(M), LinkIInv(M), Send
    PROVE  LinkIInv(M)'
<1> USE DEF LinkIInv
<1>1. IInv'
  BY KeptIInv DEF Send
<1>2. /\ stopped[Link] = 0 /\ sent = FALSE /\ sent' = TRUE
      /\ flight' = flight \cup {Delay + 1} /\ due' = due
      /\ frames' = frames /\ paused' = paused /\ hdrm' = hdrm
  BY DEF Send, vars, mmu, pfc, LinkShape
<1>3. Delay + 1 \notin flight /\ IsFiniteSet(flight) /\ Cardinality(flight) \in Nat
  BY <1>2, FlightBound DEF LinkShape
<1>4. LinkShape'
  <2>1. Delay \in Nat /\ flight \in SUBSET (0 .. Delay + 1)
    BY LinkFacts DEF LinkShape
  <2>2. flight' \in SUBSET (0 .. Delay + 1)
    BY <1>2, <2>1
  <2> QED BY <1>2, <2>2 DEF LinkShape
<1>5. Cardinality(flight') = Cardinality(flight) + 1
  BY <1>2, <1>3, FS_AddElement
<1>6. Room(M)'
  <2>1. SUFFICES ASSUME paused[Link] = 1
                 PROVE  hdrm[Link] + (Coming') * M <= Headroom[Link]
    BY <1>2 DEF Room
  <2>2. due # << >>
    BY <1>2, <2>1, LinkFacts
  <2>3. due[Len(due)] \in Int
    <3>1. due \in Seq(0 .. Latest)
      BY LinkFacts
    <3>2. due[Len(due)] \in 0 .. Latest
      BY <2>2, <3>1, LastElement
    <3> QED BY <3>2, LatestBound
  <2>4. Coming' = Coming
    BY <1>2, <1>3, <1>5, <2>2, <2>3 DEF Coming
  <2> QED BY <2>1, <2>4 DEF Room
<1> QED BY <1>1, <1>4, <1>6

\* A packet that arrives takes at most its own place, and the first to be
\* charged to the headroom sends the pause while the link holds its length.
LEMMA PacketArrivesLink ==
    ASSUME NEW M, Covered(M), Fits, LinkIInv(M), PacketArrives
    PROVE  LinkIInv(M)'
<1> USE DEF LinkIInv
<1>1. PICK s \in Sizes : Receive(Link, s)
  BY DEF PacketArrives
<1>2. Link \in Port /\ s \in Nat /\ M \in Nat /\ s <= M /\ Delay \in Nat
  BY LinkAssumption, MmuAssumption DEF Covered
<1>3. IInv'
  BY <1>1, <1>2, ReceiveIInv
<1>4. /\ hdrm'[Link] <= hdrm[Link] + s
      /\ \/ paused'[Link] = paused[Link] /\ frames'[Link] = frames[Link]
         \/ /\ paused[Link] = 0 /\ paused'[Link] = 1
            /\ frames'[Link] = Append(frames[Link], 1)
  BY <1>1, <1>2, ReceiveEffect
<1>5. 0 \in flight /\ flight' = flight \ {0} /\ sent' = sent /\ FramesFollow
  BY DEF PacketArrives
<1>6. /\ due' \in Seq(0 .. Latest)
      /\ Len(due') = Len(frames'[Link])
      /\ frames'[Link] = frames[Link] => due' = due
      /\ frames'[Link] = Append(frames[Link], 1)
            => due' # << >> /\ due'[Len(due')] \in 0 .. Latest
  BY <1>4, <1>5, LinkFacts, FramesFollowShape
<1>7. LinkShape'
  BY <1>2, <1>5, <1>6 DEF LinkShape
<1>8. /\ Cardinality(flight) \in Nat /\ Cardinality(flight) >= 1
      /\ Cardinality(flight') = Cardinality(flight) - 1
      /\ Cardinality(flight) + (IF sent THEN 0 ELSE 1) <= Delay + 2
  BY <1>5, FlightBound
<1>9. Room(M)'
  <2>1. SUFFICES ASSUME paused'[Link] = 1
                 PROVE  hdrm'[Link] + (Coming') * M <= Headroom[Link]
    BY DEF Room
  <2>2. Coming' \in Nat /\ hdrm'[Link] \in Nat /\ hdrm[Link] \in Nat /\ Headroom[Link] \in Nat
    <3>1. Coming' \in Nat
      BY <1>7, ComingNext
    <3> QED BY <1>3, <3>1, <1>2, LinkFacts, MmuAssumption DEF IInv, CountersInv
  <2>3. CASE paused[Link] = 1
    <3>1. due' = due
      BY <1>4, <1>6, <2>3
    <3>2. due # << >> => due[Len(due)] \in Int
      <4>1. due \in Seq(0 .. Latest)
        BY LinkFacts
      <4>2. due # << >> => due[Len(due)] \in 0 .. Latest
        BY <4>1, LastElement
      <4> QED BY <4>2, LatestBound
    <3>3. Coming = Coming' + 1
      BY <1>5, <1>8, <3>1, <3>2 DEF Coming
    <3>4. hdrm[Link] + Coming * M <= Headroom[Link]
      BY <2>3 DEF Room
    <3> DEFINE c == Coming'
               x == c * M
    <3>5. (c + 1) * M = x + M /\ x \in Nat
      <4> HIDE DEF c
      <4> QED BY <1>2, <2>2, Times DEF c
    <3>6. hdrm[Link] + (x + M) <= Headroom[Link]
      BY <3>3, <3>4, <3>5
    <3>7. hdrm'[Link] + x <= Headroom[Link]
      <4>1. hdrm'[Link] <= hdrm[Link] + M
        BY <1>2, <1>4, <2>2
      <4> HIDE DEF c, x
      <4> QED BY <1>2, <2>2, <3>5, <3>6, <4>1
    <3> QED BY <3>7
  <2>4. CASE paused[Link] # 1
    <3>1. due' # << >> /\ due'[Len(due')] \in 0 .. Latest /\ hdrm[Link] = 0
      BY <1>4, <1>6, <2>1, <2>4, LinkFacts
    <3>2. Coming' <= 2 * Delay + 2 + Ahead
      BY <1>2, LatestBound, <1>5, <1>8, <3>1 DEF Coming
    <3> DEFINE c == Coming'
               k == 2 * Delay + 2 + Ahead
               x == c * M
               y == k * M
    <3>3. k \in Nat /\ k + 1 = 2 * Delay + 3 + Ahead /\ c \in Nat /\ c <= k
      BY <1>2, <2>2, <3>2, LatestBound
    <3>4. (k + 1) * M <= Headroom[Link]
      BY <3>3 DEF Covered
    <3>5. x <= y /\ x \in Nat /\ y \in Nat /\ (k + 1) * M = y + M
      <4> HIDE DEF c, k
      <4> QED BY <1>2, <3>3, Times
    <3>6. hdrm'[Link] + x <= Headroom[Link]
      <4>1. y + M <= Headroom[Link]
        BY <3>4, <3>5
      <4>2. hdrm'[Link] <= M
        BY <1>2, <1>4, <2>2, <3>1
      <4> HIDE DEF c, k, x, y
      <4> QED BY <1>2, <2>2, <3>5, <4>1, <4>2
    <3> QED BY <3>6
  <2> QED BY <2>3, <2>4
<1> QED BY <1>3, <1>7, <1>9

\* A packet that leaves gives headroom back, and may end the pause.
LEMMA PacketLeavesLink ==
    ASSUME NEW M, Covered(M), Fits, LinkIInv(M), PacketLeaves
    PROVE  LinkIInv(M)'
<1> USE DEF LinkIInv
<1>1. PICK s \in Sizes : Dequeue(Link, s)
  BY DEF PacketLeaves
<1>2. Link \in Port
  BY LinkAssumption
<1>3. IInv'
  BY <1>1, <1>2, DequeueIInv
<1>4. /\ hdrm'[Link] <= hdrm[Link]
      /\ \/ paused'[Link] = paused[Link] /\ frames'[Link] = frames[Link]
         \/ /\ paused[Link] = 1 /\ paused'[Link] = 0
            /\ frames'[Link] = Append(frames[Link], 0)
  BY <1>1, <1>2, DequeueEffect
<1>5. flight' = flight /\ sent' = sent /\ FramesFollow
  BY DEF PacketLeaves
<1>6. /\ due' \in Seq(0 .. Latest)
      /\ Len(due') = Len(frames'[Link])
      /\ frames'[Link] = frames[Link] => due' = due
  BY <1>4, <1>5, LinkFacts, FramesFollowShape
<1>7. LinkShape'
  BY <1>2, <1>5, <1>6 DEF LinkShape
<1>8. Room(M)'
  <2>1. SUFFICES ASSUME paused'[Link] = 1
                 PROVE  hdrm'[Link] + (Coming') * M <= Headroom[Link]
    BY DEF Room
  <2>2. due' = due /\ paused[Link] = 1
    BY <1>4, <1>6, <2>1
  <2>3. Coming' = Coming
    BY <1>5, <2>2 DEF Coming
  <2>4. hdrm[Link] + Coming * M <= Headroom[Link]
    BY <2>2 DEF Room
  <2>5. /\ hdrm'[Link] \in Nat /\ hdrm[Link] \in Nat /\ Headroom[Link] \in Nat
        /\ Coming * M \in Nat
    BY <1>2, <1>3, LinkFacts, Times DEF IInv, CountersInv, Covered
  <2> QED BY <1>4, <2>3, <2>4, <2>5
<1> QED BY <1>3, <1>7, <1>8

\* The frame at the head reaches the other end; the last one stays the last.
LEMMA FrameArrivesLink ==
    ASSUME NEW M, Covered(M), LinkIInv(M), FrameArrives
    PROVE  LinkIInv(M)'
<1> USE DEF LinkIInv
<1>1. Link \in Port
  BY LinkAssumption
<1>2. IInv'
  BY <1>1, PfcArrivesIInv DEF FrameArrives
<1>3. /\ due # << >> /\ Head(due) = 0 /\ due' = Tail(due) /\ flight' = flight /\ sent' = sent
      /\ frames'[Link] = Tail(frames[Link]) /\ frames[Link] # << >>
      /\ hdrm' = hdrm /\ paused' = paused
  BY <1>1 DEF FrameArrives, PfcArrives, mmu, IInv, FramesInv
<1>4. /\ due' \in Seq(0 .. Latest) /\ Len(due') = Len(due) - 1
      /\ due[1] = 0 /\ due[Len(due)] \in 0 .. Latest
      /\ due' = << >> => Len(due) = 1
      /\ due' # << >> => due'[Len(due')] = due[Len(due)]
  BY <1>3, LinkFacts, LastElement
<1>5. Len(frames'[Link]) = Len(frames[Link]) - 1
  BY <1>3, LinkFacts, LastElement
<1>6. LinkShape'
  BY <1>3, <1>4, <1>5 DEF LinkShape
<1>7. Coming' <= Coming
  <2>1. Cardinality(flight) \in Nat /\ due[Len(due)] \in Nat
    BY <1>4, LatestBound, FlightBound
  <2>2. CASE due' = << >>
    BY <1>3, <2>1, <2>2 DEF Coming
  <2>3. CASE due' # << >>
    BY <1>3, <1>4, <2>1, <2>3 DEF Coming
  <2> QED BY <2>2, <2>3
<1>8. Room(M)'
  <2>1. Coming \in Nat /\ Coming' \in Nat
    BY <1>6, ComingNext, LinkFacts
  <2>2. Coming' * M <= Coming * M /\ Coming * M \in Nat /\ Coming' * M \in Nat
    BY <1>7, <2>1, Times DEF Covered
  <2> QED BY <1>3, <2>2, LinkFacts DEF Room
<1> QED BY <1>2, <1>6, <1>8

\* In a slot that passes, what may still be sent moves onto the link.
LEMMA TickLink ==
    ASSUME NEW M, Covered(M), LinkIInv(M), Tick
    PROVE  LinkIInv(M)'
<1> USE DEF LinkIInv
<1>1. IInv'
  BY KeptIInv DEF Tick
<1>2. /\ 0 \notin flight /\ \A i \in 1 .. Len(due) : due[i] # 0
      /\ sent' = FALSE /\ flight' = {t - 1 : t \in flight}
      /\ due' = [i \in 1 .. Len(due) |-> due[i] - 1]
      /\ frames' = frames /\ paused' = paused /\ hdrm' = hdrm
  BY DEF Tick, vars, mmu, pfc
<1>3. flight' \in SUBSET (0 .. Delay) /\ Cardinality(flight') = Cardinality(flight)
  BY <1>2, TickFlight
<1>4. /\ due' \in Seq(0 .. Latest) /\ Len(due') = Len(due)
      /\ due = << >> <=> due' = << >>
      /\ due # << >> => /\ due'[Len(due')] = due[Len(due)] - 1
                        /\ due[Len(due)] \in 1 .. Latest
  <2>1. due \in Seq(0 .. Latest) /\ Delay \in Nat /\ Len(due) \in Nat
    BY LinkFacts
  <2>2. \A i \in 1 .. Len(due) : due[i] \in 0 .. Latest
    <3> DEFINE S == 0 .. Latest
    <3> HIDE DEF S
    <3>1. due \in Seq(S)
      BY <2>1 DEF S
    <3>2. \A i \in 1 .. Len(due) : due[i] \in S
      BY <3>1
    <3> QED BY <3>2 DEF S
  <2>3. \A i \in 1 .. Len(due) : due[i] - 1 \in 0 .. Latest
    BY <1>2, <2>2, LatestBound
  <2>4. due' \in [1 .. Len(due) -> 0 .. Latest]
    BY <1>2, <2>3
  <2>5. due' \in Seq(0 .. Latest) /\ Len(due') = Len(due)
    BY <1>2, <2>1, <2>4, <2>3
  <2>6. due # << >> => Len(due) \in 1 .. Len(due)
    BY <2>1
  <2>7. due = << >> <=> due' = << >>
    BY <2>1, <2>5
  <2> QED BY <1>2, <2>1, <2>2, <2>5, <2>6, <2>7, LatestBound
<1>5. LinkShape'
  <2>1. Delay \in Nat
    BY LinkFacts
  <2>2. flight' \in SUBSET (0 .. Delay + 1) /\ Delay + 1 \notin flight'
    BY <1>3, <2>1
  <2>3. Len(due') = Len(frames'[Link])
    BY <1>2, <1>4 DEF LinkShape
  <2> QED BY <1>2, <1>4, <2>2, <2>3 DEF LinkShape
<1>6. Coming' <= Coming
  <2>1. Cardinality(flight) \in Nat /\ Delay \in Nat
    BY LinkFacts, FlightBound
  <2>2. CASE due = << >>
    BY <1>3, <1>4, <2>1, <2>2 DEF Coming
  <2>3. CASE due # << >>
    BY <1>2, <1>3, <1>4, <2>1, <2>3, LatestBound DEF Coming
  <2> QED BY <2>2, <2>3
<1>7. Room(M)'
  <2>1. Coming \in Nat /\ Coming' \in Nat
    BY <1>5, ComingNext, LinkFacts
  <2>2. Coming' * M <= Coming * M /\ Coming * M \in Nat /\ Coming' * M \in Nat
    BY <1>6, <2>1, Times DEF Covered
  <2> QED BY <1>2, <2>2, LinkFacts DEF Room
<1> QED BY <1>1, <1>5, <1>7

\* The other ports take from the pool, never from the headroom of the link.
LEMMA OtherPortLink ==
    ASSUME NEW M, Covered(M), Fits, LinkIInv(M), NEW p \in Port \ {Link}, OtherPort(p)
    PROVE  LinkIInv(M)'
<1> USE DEF LinkIInv
<1>1. Link \in Port \ {p}
  BY LinkAssumption
<1>2. IInv'
  BY ReceiveIInv, DequeueIInv, PfcArrivesIInv DEF OtherPort
<1>3. hdrm'[Link] = hdrm[Link] /\ paused'[Link] = paused[Link] /\ frames'[Link] = frames[Link]
  <2>1. CASE \E s \in Sizes : Receive(p, s)
    BY <1>1, <2>1, ReceiveEffect
  <2>2. CASE \E s \in Sizes : Dequeue(p, s)
    BY <1>1, <2>2, DequeueEffect
  <2>3. CASE PfcArrives(p)
    BY <1>1, <2>3 DEF PfcArrives, mmu, IInv, FramesInv
  <2> QED BY <2>1, <2>2, <2>3 DEF OtherPort
<1>4. sent' = sent /\ flight' = flight /\ due' = due
  BY DEF OtherPort, linkVars
<1>5. LinkShape' /\ Coming' = Coming
  BY <1>3, <1>4 DEF LinkShape, Coming
<1> QED BY <1>2, <1>3, <1>5 DEF Room

\* The invariant of the link holds in every reachable state.
LEMMA LinkInvariance ==
    ASSUME NEW M, Covered(M), Fits
    PROVE  LinkSpec => []LinkIInv(M)
<1>1. LinkInit => LinkIInv(M)
  <2> SUFFICES ASSUME LinkInit PROVE LinkIInv(M)
    OBVIOUS
  <2>1. IInv
    BY InitIInv DEF LinkInit
  <2>2. Link \in Port /\ Delay \in Nat
    BY LinkAssumption
  <2>3. frames[Link] = << >> /\ paused[Link] = 0 /\ due = << >> /\ sent = FALSE /\ flight = {}
    BY <2>2 DEF LinkInit, Init
  <2>4. << >> \in Seq(0 .. Latest)
    OBVIOUS
  <2>5. LinkShape
    BY <2>3, <2>4 DEF LinkShape
  <2> QED BY <2>1, <2>3, <2>5 DEF LinkIInv, Room
<1>2. LinkIInv(M) /\ [LinkNext]_<<vars, linkVars>> => LinkIInv(M)'
  <2> SUFFICES ASSUME LinkIInv(M), [LinkNext]_<<vars, linkVars>> PROVE LinkIInv(M)'
    OBVIOUS
  <2>1. CASE UNCHANGED <<vars, linkVars>>
    <3>1. IInv'
      BY <2>1, KeptIInv DEF LinkIInv
    <3>2. LinkShape' /\ Room(M)'
      BY <2>1 DEF LinkIInv, LinkShape, Room, Coming, vars, mmu, pfc, linkVars
    <3> QED BY <3>1, <3>2 DEF LinkIInv
  <2> QED BY <2>1, SendLink, PacketArrivesLink, PacketLeavesLink, FrameArrivesLink,
             TickLink, OtherPortLink DEF LinkNext
<1> QED BY <1>1, <1>2, PTL DEF LinkSpec

\* Lossless: if the headroom covers two delays, three packets and the ACKs that
\* may be sent before a frame, no packet that arrives on the link is dropped,
\* however frames and packets race and whatever the other ports leave of the
\* pool.  That no frame waits for more ACKs than Ahead is an assumption.
THEOREM LinkIsLossless ==
    ASSUME NEW M, Covered(M), Fits
    PROVE  LinkSpec => []NoDrop
<1>1. LinkIInv(M) => NoDrop
  <2> SUFFICES ASSUME LinkIInv(M), 0 \in flight, NEW s \in Sizes
               PROVE  s + hdrm[Link] <= Headroom[Link]
    BY DEF NoDrop, CheckIngressAdmission
  <2>1. s \in Nat /\ M \in Nat /\ s <= M
    BY MmuAssumption DEF Covered
  <2>2. Coming >= 1 /\ Coming \in Nat
    BY FlightBound, ComingBound DEF LinkIInv
  <2>3. 1 * M <= Coming * M /\ Coming * M \in Nat
    BY <2>1, <2>2, Times
  <2>4. CASE paused[Link] = 1
    BY <2>1, <2>3, <2>4, LinkFacts DEF LinkIInv, Room
  <2>5. CASE paused[Link] # 1
    <3>1. hdrm[Link] = 0 /\ Headroom[Link] \in Nat /\ Delay \in Nat
      BY <2>5, LinkFacts DEF LinkIInv
    <3>2. 1 * M <= (2 * Delay + 3 + Ahead) * M /\ (2 * Delay + 3 + Ahead) * M \in Nat
      BY <2>1, <3>1, LatestBound, Times
    <3> QED BY <2>1, <3>1, <3>2 DEF Covered
  <2> QED BY <2>4, <2>5
<1> QED BY <1>1, LinkInvariance, PTL

\* The headroom that hybrid_dppp.cc configures, three times the delay, is
\* enough on every link that is at least three packets longer than the ACKs
\* that a frame may wait for.
THEOREM ConfiguredHeadroom ==
    ASSUME NEW M \in Nat, \A s \in Sizes : s <= M, Fits,
           Delay >= 3 + Ahead, Headroom[Link] >= (3 * Delay) * M
    PROVE  LinkSpec => []NoDrop
<1>1. Delay \in Nat /\ Ahead \in Nat /\ Headroom[Link] \in Nat
  BY LinkAssumption, MmuAssumption
<1>2. /\ (2 * Delay + 3 + Ahead) * M <= (3 * Delay) * M /\ (2 * Delay + 3 + Ahead) * M \in Nat
      /\ (3 * Delay) * M \in Nat
  BY <1>1, Times
<1>3. Covered(M)
  BY <1>1, <1>2 DEF Covered
<1> QED BY <1>3, LinkIsLossless
=============================================================================
