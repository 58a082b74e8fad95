----------------------------- MODULE SwitchMmu -----------------------------
(***************************************************************************)
(* The shared buffer of a switch and its priority flow control: SwitchMmu  *)
(* (switch-mmu.cc), the admission path of SwitchNode (switch-node.cc) and  *)
(* the pause flag of the device at the other end of each link              *)
(* (qbb-net-device.cc).  One priority group, the one the collectives use.  *)
(* A packet is its size; where it is queued inside the switch is left out, *)
(* so any packet that is queued may be the next to leave.                  *)
(***************************************************************************)
EXTENDS Integers, Sequences, FiniteSetsExt

CONSTANTS Port,          \* ports 1..n_port
          Sizes,         \* sizes of packets
          BufferSize,    \* buffer_size
          Reserve,       \* reserve
          ResumeOffset,  \* resume_offset
          Headroom,      \* headroom[port]
          Alpha,         \* 2^pfc_a_shift[port]
          Wrap,          \* unsigned arithmetic is modulo Wrap (2^32 in the code)
          MaxFrames      \* bound: PFC frames under way on one link

ASSUME MmuAssumption ==
    /\ IsFiniteSet(Port)
    /\ Sizes \subseteq Nat \ {0}
    /\ BufferSize \in Nat /\ Reserve \in Nat /\ ResumeOffset \in Nat
    /\ Wrap \in Nat /\ BufferSize < Wrap
    /\ Headroom \in [Port -> Nat]
    /\ Alpha \in [Port -> Nat \ {0}]
    /\ MaxFrames \in Nat

VARIABLES ingress,       \* ingress_bytes[port]
          hdrm,          \* hdrm_bytes[port]
          shared,        \* shared_used_bytes
          paused,        \* paused[port]: 1 pause, 0 resume, the last frame sent
          queued,        \* bytes received from a port and still in the switch (m_bytes)
          frames,        \* frames[port]: PFC frames on the way to the other end
          stopped        \* m_paused of the device at the other end

mmu  == <<ingress, hdrm, shared, queued>>
pfc  == <<paused, frames, stopped>>
vars == <<mmu, pfc>>

\* What ConfigNPort leaves to be shared among the ports.
Total(f) == MapThenSumSet(LAMBDA p : f[p], Port)
Pool == BufferSize - Total(Headroom) - Total([p \in Port |-> Reserve])

Less(a, b) == IF a <= b THEN a ELSE b

Init == /\ ingress = [p \in Port |-> 0]
        /\ hdrm    = [p \in Port |-> 0]
        /\ shared  = 0
        /\ paused  = [p \in Port |-> 0]
        /\ queued  = [p \in Port |-> 0]
        /\ frames  = [p \in Port |-> << >>]
        /\ stopped = [p \in Port |-> 0]

GetSharedUsed(p) == IF ingress[p] > Reserve THEN ingress[p] - Reserve ELSE 0
GetPfcThresholdStatic(p) == Pool \div Alpha[p]   \* faulty: the buffer in use is not deducted
GetPfcThreshold(p) == ((Pool - shared) % Wrap) \div Alpha[p]

CheckIngressAdmissionAny(p, s) == s \in Sizes    \* faulty: every packet is admitted
CheckIngressAdmission(p, s) ==
    \/ s + hdrm[p] <= Headroom[p]
    \/ s + GetSharedUsed(p) <= GetPfcThreshold(p)

\* Faulty: the reserve is charged to the shared pool.
UpdateIngressAdmissionWhole(p, s) ==
    LET new == ingress[p] + s IN
    \/ /\ new <= Reserve
       /\ ingress' = [ingress EXCEPT ![p] = new]
       /\ UNCHANGED <<hdrm, shared>>
    \/ /\ new > Reserve
       /\ new - Reserve > GetPfcThreshold(p)
       /\ hdrm' = [hdrm EXCEPT ![p] = @ + s]
       /\ UNCHANGED <<ingress, shared>>
    \/ /\ new > Reserve
       /\ new - Reserve <= GetPfcThreshold(p)
       /\ ingress' = [ingress EXCEPT ![p] = new]
       /\ shared' = shared + s
       /\ UNCHANGED hdrm

UpdateIngressAdmission(p, s) ==
    LET new == ingress[p] + s IN
    \/ /\ new <= Reserve
       /\ ingress' = [ingress EXCEPT ![p] = new]
       /\ UNCHANGED <<hdrm, shared>>
    \/ /\ new > Reserve
       /\ new - Reserve > GetPfcThreshold(p)
       /\ hdrm' = [hdrm EXCEPT ![p] = @ + s]
       /\ UNCHANGED <<ingress, shared>>
    \/ /\ new > Reserve
       /\ new - Reserve <= GetPfcThreshold(p)
       /\ ingress' = [ingress EXCEPT ![p] = new]
       /\ shared' = shared + Less(s, new - Reserve)
       /\ UNCHANGED hdrm

\* Faulty: what comes from the headroom is taken from the ingress bytes too.
RemoveFromIngressAdmissionTwice(p, s) ==
    LET fromHdrm   == Less(hdrm[p], s)
        fromShared == Less(s - fromHdrm, GetSharedUsed(p))
    IN  /\ hdrm'    = [hdrm EXCEPT ![p] = @ - fromHdrm]
        /\ ingress' = [ingress EXCEPT ![p] = @ - s]
        /\ shared'  = shared - fromShared

RemoveFromIngressAdmission(p, s) ==
    LET fromHdrm   == Less(hdrm[p], s)
        fromShared == Less(s - fromHdrm, GetSharedUsed(p))
    IN  /\ hdrm'    = [hdrm EXCEPT ![p] = @ - fromHdrm]
        /\ ingress' = [ingress EXCEPT ![p] = @ - (s - fromHdrm)]
        /\ shared'  = shared - fromShared

MustPauseShared(p) == GetSharedUsed(p) >= GetPfcThreshold(p)  \* faulty: not for headroom
MustPause(p) == hdrm[p] > 0 \/ GetSharedUsed(p) >= GetPfcThreshold(p)

MayResumeBelow(p) ==   \* faulty: nothing shared is not enough
    hdrm[p] = 0 /\ GetSharedUsed(p) + ResumeOffset <= GetPfcThreshold(p)
MayResume(p) ==
    /\ hdrm[p] = 0
    /\ \/ GetSharedUsed(p) = 0
       \/ GetSharedUsed(p) + ResumeOffset <= GetPfcThreshold(p)

SendPfc(p, type) == frames' = [frames EXCEPT ![p] = Append(@, type)]

\* Faulty: the pause is not remembered.
CheckAndSendPfcAgain(p) ==
    \/ paused[p] = 0 /\ MustPause(p)' /\ SendPfc(p, 1) /\ UNCHANGED paused
    \/ ~(paused[p] = 0 /\ MustPause(p)') /\ UNCHANGED <<frames, paused>>

CheckAndSendPfc(p) ==   \* after the counters are updated
    \/ paused[p] = 0 /\ MustPause(p)' /\ SendPfc(p, 1) /\ paused' = [paused EXCEPT ![p] = 1]
    \/ ~(paused[p] = 0 /\ MustPause(p)') /\ UNCHANGED <<frames, paused>>

CheckAndSendResume(p) ==
    \/ paused[p] = 1 /\ MayResume(p)' /\ SendPfc(p, 0) /\ paused' = [paused EXCEPT ![p] = 0]
    \/ ~(paused[p] = 1 /\ MayResume(p)') /\ UNCHANGED <<frames, paused>>

\* SendToDev: a packet of size s comes in at port p.
Receive(p, s) ==
    /\ \/ /\ CheckIngressAdmission(p, s)
          /\ UpdateIngressAdmission(p, s)
          /\ CheckAndSendPfc(p)
          /\ queued' = [queued EXCEPT ![p] = @ + s]
       \/ /\ ~CheckIngressAdmission(p, s)   \* "Drop: ... Headroom full"
          /\ UNCHANGED <<mmu, frames, paused>>
    /\ UNCHANGED stopped

\* SwitchNotifyDequeue: one of the packets that came in at p is transmitted.
Dequeue(p, s) ==
    /\ s <= queued[p]
    /\ queued' = [queued EXCEPT ![p] = @ - s]
    /\ RemoveFromIngressAdmission(p, s)
    /\ CheckAndSendResume(p)
    /\ UNCHANGED stopped

\* QbbNetDevice::Receive of a PFC frame at the other end of p's link.
PfcArrives(p) ==
    /\ frames[p] # << >>
    /\ stopped' = [stopped EXCEPT ![p] = Head(frames[p])]
    /\ frames' = [frames EXCEPT ![p] = Tail(@)]
    /\ UNCHANGED <<mmu, paused>>

Next == /\ \E p \in Port : \/ \E s \in Sizes : Receive(p, s) \/ Dequeue(p, s)
                           \/ PfcArrives(p)
        /\ \A p \in Port : Len(frames'[p]) <= MaxFrames

Spec == Init /\ [][Next]_vars
-----------------------------------------------------------------------------
\* The range of each counter: none goes below zero, where it would wrap, and
\* the pool is never used beyond its size.
TypeOK ==
    /\ ingress \in [Port -> Nat]
    /\ hdrm \in [Port -> Nat]
    /\ shared \in 0..Pool
    /\ paused \in [Port -> 0..1]
    /\ queued \in [Port -> Nat]
    /\ stopped \in [Port -> 0..1]
    /\ \A p \in Port : frames[p] \in Seq(0..1)

\* Whatever mixture of reserve, shared pool and headroom a packet was charged
\* to, and whatever it is released from, no byte is charged or released twice.
Accounted == \A p \in Port : ingress[p] + hdrm[p] = queued[p]

\* shared_used_bytes is the sum of what GetSharedUsed says of the ports.
SharedIsSum == shared = Total([p \in Port |-> GetSharedUsed(p)])

\* No port uses more than its headroom, although CheckIngressAdmission admits
\* packets beyond it when the shared pool has room.
HeadroomBound == \A p \in Port : hdrm[p] <= Headroom[p]

\* The switch holds no more than BUFFER_SIZE, "buffer size per switch".
BufferBound == Total(queued) <= BufferSize

\* A port that uses headroom has told the other end to stop.
HeadroomMeansPaused == \A p \in Port : hdrm[p] > 0 => paused[p] = 1

\* A resume is only sent when a packet leaves, so a paused port must still
\* have one: otherwise the other end would wait for ever.
NoStuckPause == \A p \in Port : paused[p] = 1 => queued[p] > 0

\* The frames reach the other end in the order pause, resume, pause, ...:
\* Resume's assertion "Must be PAUSEd" holds, and once the frames are in both
\* ends agree.
PfcAgrees ==
    \A p \in Port : IF frames[p] = << >> THEN stopped[p] = paused[p]
                    ELSE Head(frames[p]) = 0 => stopped[p] = 1
=============================================================================
