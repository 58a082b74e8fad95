----------------------------- MODULE HostDevice -----------------------------
(***************************************************************************)
(* The sending side of a host's link device: RdmaEgressQueue and           *)
(* DequeueAndTransmit of qbb-net-device.cc, paced by rdma-hw.cc.  The      *)
(* queue pairs of a NIC take turns; each has a window, a rate that says    *)
(* when its next packet may go, and packets (all full) left to send.  The  *)
(* device is woken by the end of a transmission, an ACK, a new queue pair, *)
(* the end of a pause, or m_nextSend, the one timer it keeps.              *)
(*                                                                         *)
(* Times are relative to now.  A packet or an ACK takes TxTime on the      *)
(* wire; a rate is the time between two packets of a queue pair.  ACKs and *)
(* NACKs arrive as the transport lets them: none is for what has been set  *)
(* back by a NACK (the module Transport has the cases where one is).       *)
(***************************************************************************)
EXTENDS Integers, Sequences, FiniteSets, FiniteSetsExt, SequencesExt

CONSTANTS Size,        \* packets of a message
          TxTime,      \* time of a packet on the wire
          Confs        \* the configurations: see ConfAssumption

NoEvent == -1          \* m_nextSend has expired, or no packet is on the wire

\* A host that opens "qps" queue pairs of window "win", 0 for none.  A rate, set
\* by DCQCN ("mlx") or another algorithm, is the time from the start of a packet
\* to that of the next: one of "gaps".  Bounds: "acks" to send for
\* data received, PAUSE frames and NACKs to receive.
ConfAssumption ==
    \A c \in Confs :
      /\ c.mlx \in BOOLEAN /\ c.qps \in Nat \ {0}
      /\ \A g \in c.gaps : g \in Nat /\ g >= TxTime
      /\ \E g \in c.gaps : \A h \in c.gaps : h <= g     \* that of m_minRate
      /\ {c.win, c.acks, c.pauses, c.nacks} \subseteq Nat

ASSUME HostAssumption ==
    /\ Size \in Nat \ {0} /\ TxTime \in Nat \ {0}
    /\ ConfAssumption

VARIABLES conf,        \* the configuration of this behaviour
          qp,          \* of each queue pair: its RdmaQueuePair
          nic,         \* the device and its RdmaEgressQueue
          spent,       \* bound: what has been used of the bounds of conf
          bypassed     \* history: packets that went before a queue pair's turn

vars == <<conf, qp, nic, spent, bypassed>>

Gaps   == conf.gaps
MaxGap == Max(Gaps)
MinGap == Min(Gaps)

QPs == 1 .. conf.qps   \* in the order in which they are opened

Init ==
    /\ conf \in Confs
    /\ qp = [q \in QPs |-> [open |-> FALSE, snd_una |-> 0, snd_nxt |-> 0,
                            nextAvail |-> 0, gap |-> MinGap]]
    /\ nic = [qps |-> << >>, rrlast |-> 0, ackQ |-> 0, paused |-> FALSE,
              tx |-> NoEvent, nextSend |-> NoEvent]
    /\ spent = [acks |-> 0, pauses |-> 0, nacks |-> 0]
    /\ bypassed = [q \in QPs |-> 0]
-----------------------------------------------------------------------------
\* A queue pair r.

GetBytesLeft(r) == Size - r.snd_nxt
IsFinished(r)   == r.snd_una >= Size
IsWinBound(r)   == conf.win # 0 /\ r.snd_nxt - r.snd_una >= conf.win

Willing(n, r)   == ~n.paused /\ GetBytesLeft(r) > 0 /\ ~IsWinBound(r)
Available(r)    == r.nextAvail <= 0
May(n, r)       == Willing(n, r) /\ Available(r)
-----------------------------------------------------------------------------
\* RdmaEgressQueue::GetNextQindex on device n with queue pairs p.  Indices are
\* the code's, from 0.

At(n, idx) == n.qps[idx + 1]

\* Faulty: always from the first queue pair on.
ScannedFromFirst(n, k) == (k - 1) % Len(n.qps)

Scanned(n, k) == (k + n.rrlast) % Len(n.qps)

\* The turn, counted from 1, in which a queue pair is found; 0 if in none.
Found(n, p) ==
    LET hits == {k \in 1 .. Len(n.qps) : May(n, p[At(n, Scanned(n, k))])}
    IN  IF hits = {} THEN 0 ELSE Min(hits)

\* The finished queue pairs passed over before.
Cleared(n, p) ==
    LET upto == IF Found(n, p) = 0 THEN Len(n.qps) ELSE Found(n, p) - 1
    IN  {i \in {Scanned(n, k) : k \in 1 .. upto} :
            ~Willing(n, p[At(n, i)]) /\ IsFinished(p[At(n, i)])}

\* From the first of them on every finished queue pair leaves the list.
Staying(n, p) ==
    LET from == Min(Cleared(n, p))
    IN  {i \in 0 .. Len(n.qps) - 1 : i < from \/ ~IsFinished(p[At(n, i)])}

\* The place of index i among those of set S.
Place(S, i) == Cardinality({j \in S : j < i})

\* The list of the indices of S, in its order.
Only(n, S) ==
    [k \in 1 .. Cardinality(S) |-> At(n, CHOOSE i \in S : Place(S, i) = k - 1)]

Kept(n, p) == IF Cleared(n, p) = {} THEN n.qps ELSE Only(n, Staying(n, p))

\* Faulty: the index is that of the list before (the last one, behind the end).
NewIndexOld(n, p, res) == Min({res, Len(Kept(n, p)) - 1})

\* The index of queue pair res of the old list in the new one.
NewIndex(n, p, res) ==
    LET from == Min(Cleared(n, p))
    IN  IF Cleared(n, p) = {} \/ res <= from \/ IsFinished(p[At(n, res)])
        THEN res
        ELSE from + Cardinality({i \in from + 1 .. res - 1 : ~IsFinished(p[At(n, i)])})
-----------------------------------------------------------------------------
\* QbbNetDevice::DequeueAndTransmit: what becomes of device n and queue pairs
\* p, and which queue pair has sent (a set of at most one).

Quiet(n, p) == [nic |-> n, qp |-> p, sent |-> {}]

SendAck(n, p) ==
    Quiet([n EXCEPT !.ackQ = @ - 1, !.tx = TxTime], p)

\* GetNxtPacket and, after TransmitStart, PktSent.
SendData(n, p) ==
    LET m == [n EXCEPT !.qps = Kept(n, p),
                       !.rrlast = NewIndex(n, p, Scanned(n, Found(n, p))),
                       !.tx = TxTime]
        q == At(m, m.rrlast)
    IN  [nic |-> m,
         qp |-> [p EXCEPT ![q].snd_nxt = @ + 1, ![q].nextAvail = p[q].gap],
         sent |-> {q}]

\* Faulty: a timer that is set is thought to be the right one for ever.
MaySetTimerNever(n, t) == FALSE

MaySetTimer(n, t) == n.nextSend = NoEvent /\ t > 0

\* No packet to send: the earliest time of a queue pair with bytes left counts,
\* whether it waits for its time, for its window or for a resume.
SetTimer(n, p) ==
    LET m     == [n EXCEPT !.qps = Kept(n, p)]
        times == {p[q].nextAvail :
                     q \in {q \in ToSet(m.qps) : GetBytesLeft(p[q]) > 0}}
    IN  IF times # {} /\ MaySetTimer(n, Min(times))
        THEN Quiet([m EXCEPT !.nextSend = Min(times)], p)
        ELSE Quiet(m, p)

DequeueAndTransmit(n, p) ==
    IF n.tx # NoEvent THEN Quiet(n, p)
    ELSE IF ~n.paused /\ n.ackQ > 0 THEN SendAck(n, p)
    ELSE IF Found(n, p) # 0 THEN SendData(n, p)
    ELSE SetTimer(n, p)

\* The step of a handler that leaves n and p and calls DequeueAndTransmit.
Transmit(n, p) ==
    \E d \in {DequeueAndTransmit(n, p)} :
      /\ nic' = d.nic /\ qp' = d.qp
      /\ bypassed' =
           [q \in QPs |->
              IF d.sent = {} THEN bypassed[q]
              ELSE IF q \in d.sent \/ q \notin ToSet(n.qps) \/ ~May(n, p[q]) THEN 0
              ELSE bypassed[q] + 1]
-----------------------------------------------------------------------------
\* The events of the simulator.

Spend(b) == spent[b] < conf[b] /\ spent' = [spent EXCEPT ![b] = @ + 1]

\* RdmaHw::AddQueuePair: the queue pair joins the list and NewQp is called.
AddQp(q) ==
    /\ ~qp[q].open /\ (q > 1 => qp[q - 1].open)
    /\ Transmit([nic EXCEPT !.qps = Append(@, q)],
                [qp EXCEPT ![q].open = TRUE, ![q].nextAvail = 0])
    /\ UNCHANGED <<conf, spent>>

TransmitComplete ==
    /\ nic.tx = 0
    /\ Transmit([nic EXCEPT !.tx = NoEvent], qp)
    /\ UNCHANGED <<conf, spent>>

NextSend ==
    /\ nic.nextSend = 0
    /\ Transmit([nic EXCEPT !.nextSend = NoEvent], qp)
    /\ UNCHANGED <<conf, spent>>

\* Times further back than this are as good as it: no change of rate brings
\* them back to the future.
LongAgo(t) == Max({t, MinGap - MaxGap})

\* QbbNetDevice::UpdateNextAvail.
UpdateNextAvail(n, t) ==
    IF n.nextSend # NoEvent /\ t < n.nextSend
    THEN [n EXCEPT !.nextSend = Max({t, 0})] ELSE n

\* RdmaHw::ReceiveAck for packets below s: an ACK, or a NACK that sets the
\* queue pair back.  With DCQCN a notification may change the rate; the other
\* algorithms call ChangeRate, which moves the time of the next packet.
ReceiveAck(q, s, nack, g) ==
    LET moved == LongAgo(qp[q].nextAvail + g - qp[q].gap)
        r == [qp[q] EXCEPT !.snd_una = s, !.gap = g,
                           !.snd_nxt = IF nack THEN s ELSE @,
                           !.nextAvail = IF conf.mlx THEN @ ELSE moved]
    IN
    /\ qp[q].open /\ ~IsFinished(qp[q])
    /\ Transmit(IF conf.mlx THEN nic ELSE UpdateNextAvail(nic, r.nextAvail),
                [qp EXCEPT ![q] = r])
    /\ UNCHANGED conf

AckArrives(q) ==
    /\ \E s \in qp[q].snd_una + 1 .. qp[q].snd_nxt, g \in Gaps :
           ReceiveAck(q, s, FALSE, g)
    /\ UNCHANGED spent

NackArrives(q) ==
    /\ Spend("nacks")
    /\ \E s \in qp[q].snd_una .. qp[q].snd_nxt - 1, g \in Gaps :
           ReceiveAck(q, s, TRUE, g)

\* A timer of DCQCN: what is scheduled stays as it is.
RateTimer(q, g) ==
    /\ conf.mlx /\ qp[q].open /\ ~IsFinished(qp[q]) /\ qp[q].gap # g
    /\ qp' = [qp EXCEPT ![q].gap = g]
    /\ UNCHANGED <<conf, nic, spent, bypassed>>

\* RdmaHw::ReceiveUdp has an ACK or NACK to send.
SendAnswer ==
    /\ Spend("acks")
    /\ Transmit([nic EXCEPT !.ackQ = @ + 1], qp)
    /\ UNCHANGED conf

Pause ==
    /\ Spend("pauses")
    /\ nic' = [nic EXCEPT !.paused = TRUE]
    /\ UNCHANGED <<conf, qp, bypassed>>

\* Faulty: the device waits for its next event.
ResumeSilently ==
    /\ nic.paused
    /\ nic' = [nic EXCEPT !.paused = FALSE]
    /\ UNCHANGED <<conf, qp, spent, bypassed>>

Resume ==
    /\ nic.paused
    /\ Transmit([nic EXCEPT !.paused = FALSE], qp)
    /\ UNCHANGED <<conf, spent>>

\* Time goes on when no event is due.
Tick ==
    /\ nic.tx # 0 /\ nic.nextSend # 0
    /\ \/ nic.tx # NoEvent \/ nic.nextSend # NoEvent
       \/ \E q \in QPs : qp[q].nextAvail > MinGap - MaxGap
    /\ nic' = [nic EXCEPT !.tx       = Max({@ - 1, NoEvent}),
                          !.nextSend = Max({@ - 1, NoEvent})]
    /\ qp' = [q \in QPs |-> [qp[q] EXCEPT !.nextAvail = LongAgo(@ - 1)]]
    /\ UNCHANGED <<conf, spent, bypassed>>

Event == \/ TransmitComplete \/ NextSend \/ Resume \/ Tick
         \/ \E q \in QPs : AddQp(q) \/ AckArrives(q)

Next ==
    \/ Event \/ SendAnswer \/ Pause
    \/ \E q \in QPs : NackArrives(q) \/ \E g \in Gaps : RateTimer(q, g)

Spec == Init /\ [][Next]_vars

\* The simulator goes on while there is an event: a transmission ends, a timer
\* expires, what has been sent is acknowledged, a paused link is resumed.
FairSpec == Spec /\ WF_vars(Event)
-----------------------------------------------------------------------------
\* The shape of the state: no queue pair is in the list twice, none sends more
\* than its message or its window, though the device picks it by an index that
\* shifts as others leave the list.
TypeOK ==
    /\ conf \in Confs
    /\ \A q \in QPs :
          /\ qp[q].open \in BOOLEAN /\ qp[q].gap \in Gaps
          /\ 0 <= qp[q].snd_una /\ qp[q].snd_una <= qp[q].snd_nxt
          /\ qp[q].snd_nxt <= Size
          /\ qp[q].nextAvail \in MinGap - MaxGap .. MaxGap
          /\ conf.win # 0 => qp[q].snd_nxt - qp[q].snd_una <= conf.win
    /\ nic.qps \in Seq(QPs) /\ IsInjective(nic.qps)
    /\ nic.rrlast \in Nat /\ nic.ackQ \in 0 .. conf.acks
    /\ nic.paused \in BOOLEAN
    /\ nic.tx \in NoEvent .. TxTime /\ nic.nextSend \in NoEvent .. MaxGap
    /\ \A b \in DOMAIN spent : spent[b] \in 0 .. conf[b]
    /\ bypassed \in [QPs -> Nat]

AckOutstanding(r) == r.snd_una < r.snd_nxt

\* No wake-up is lost.  An idle device with something to send is woken by its
\* timer, or by the ACK of a queue pair whose window is closed: such a queue
\* pair has a time in the past, and keeps the timer from being set for others.
NoLostWakeUp ==
    nic.tx = NoEvent /\ ~nic.paused =>
      /\ nic.ackQ = 0
      /\ (\E q \in ToSet(nic.qps) : Willing(nic, qp[q])) =>
           \/ nic.nextSend # NoEvent
           \/ \E q \in ToSet(nic.qps) : IsWinBound(qp[q]) /\ AckOutstanding(qp[q])

\* Turns are taken: while a queue pair may send, each of the others goes before
\* it at most once, and once more for each queue pair that has been finished:
\* m_rrlast is not shifted when one leaves the list, and a turn may be missed.
BoundedBypass ==
    LET turns == 1 + Cardinality({q \in QPs : IsFinished(qp[q])})
    IN  \A q \in QPs : bypassed[q] <= turns * (conf.qps - 1)

\* Every message is sent and acknowledged, under pauses and losses that end,
\* whichever queue pairs leave the list while the device picks the next.
Finishes == <>(\A q \in QPs : IsFinished(qp[q]))
=============================================================================
