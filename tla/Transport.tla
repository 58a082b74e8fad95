----------------------------- MODULE Transport -----------------------------
(***************************************************************************)
(* The go-back-N transport of rdma-hw.cc between two hosts: queue pairs of *)
(* the same addresses, ports and priority group, one after another, as a   *)
(* rank opens them for the steps of a collective.  A message has one queue *)
(* pair at the sender; the receiver's state is found by the ports, so what *)
(* is late is taken for what the next queue pair sends.  Data packets keep *)
(* their order on the way (one path per flow), and so do ACKs and NACKs.   *)
(*                                                                         *)
(* Rates decide when a packet is sent, never whether, and are left out; so *)
(* is the variable window, which is at least 1 and at most win.            *)
(***************************************************************************)
EXTENDS Naturals, Sequences, SequencesExt

CONSTANTS Confs,       \* the configurations: see ConfAssumption
          Mtu,         \* payload of a full packet
          MaxFlight,   \* bound: packets under way in one direction
          Wrap         \* unsigned arithmetic is modulo Wrap

Losses == {"nothing", "inside", "anything"}

\* L2ChunkSize, L2AckInterval and L2BackToZero; "win" is the window of a queue
\* pair, 0 for none; at most "losses" packets are lost, of the kind "lose".
ConfAssumption ==
    \A c \in Confs :
      /\ {c.messages, c.size, c.chunk, c.ackInterval} \subseteq Nat \ {0}
      /\ {c.win, c.losses} \subseteq Nat
      /\ c.backToZero \in BOOLEAN /\ c.lose \in Losses

ASSUME TransportAssumption ==
    /\ ConfAssumption
    /\ Mtu \in Nat \ {0} /\ MaxFlight \in Nat \ {0} /\ Wrap \in Nat \ {0}

VARIABLES conf,        \* the configuration of this behaviour
          begun,       \* queue pairs opened so far, the last one the current
          live,        \* the current one is in m_qpMap
          snd_una,     \* of each queue pair: bytes acknowledged
          snd_nxt,     \* of each queue pair: next byte to send
          rxQp,        \* the receiver's state, or NoRxQp
          data,        \* data packets under way
          acks,        \* ACKs and NACKs under way
          lost,        \* packets lost so far
          got,         \* history: bytes of each message received without a gap
          finished     \* history: messages reported to the application

sender   == <<begun, live, snd_una, snd_nxt, finished>>
receiver == <<rxQp, got>>
vars == <<conf, sender, receiver, data, acks, lost>>

NoRxQp  == [here |-> FALSE, expected |-> 0, lastNACK |-> 0, wait |-> FALSE]
NewRxQp == [NoRxQp EXCEPT !.here = TRUE]

Messages == 1 .. conf.messages
Chunked(seq) == (seq \div conf.chunk) * conf.chunk

Init ==
    /\ conf \in Confs
    /\ begun = 0 /\ live = FALSE /\ finished = 0
    /\ snd_una = [m \in Messages |-> 0] /\ snd_nxt = snd_una /\ got = snd_una
    /\ rxQp = NoRxQp
    /\ data = << >> /\ acks = << >> /\ lost = 0
-----------------------------------------------------------------------------
\* The sender.

AddQueuePair ==
    /\ ~live
    /\ begun < conf.messages
    /\ begun' = begun + 1
    /\ live' = TRUE
    /\ UNCHANGED <<conf, snd_una, snd_nxt, finished, receiver, data, acks, lost>>

GetBytesLeft(m) == IF conf.size >= snd_nxt[m] THEN conf.size - snd_nxt[m] ELSE 0
GetOnTheFly(m)  == (snd_nxt[m] - snd_una[m]) % Wrap
IsWinBound(m)   == conf.win # 0 /\ GetOnTheFly(m) >= conf.win

Payload(m) == IF Mtu < GetBytesLeft(m) THEN Mtu ELSE GetBytesLeft(m)

\* GetNextQindex picks a queue pair, GetNxtPacket makes its packet.  A finished
\* queue pair that may still send is picked like any other.
SendPacket(m) ==
    /\ m <= begun
    /\ GetBytesLeft(m) > 0 /\ ~IsWinBound(m)
    /\ Len(data) < MaxFlight
    /\ data' = Append(data, [msg |-> m, seq |-> snd_nxt[m], size |-> Payload(m)])
    /\ snd_nxt' = [snd_nxt EXCEPT ![m] = @ + Payload(m)]
    /\ UNCHANGED <<conf, begun, live, snd_una, finished, receiver, acks, lost>>

\* Faulty: rounded up to a chunk.
AcknowledgedUp(seq) == IF conf.backToZero THEN Chunked(seq) + conf.chunk ELSE seq

\* What ReceiveAck passes to Acknowledge.
Acknowledged(seq) == IF conf.backToZero THEN Chunked(seq) ELSE seq

\* Faulty: the last packet is taken for acknowledged.
IsFinishedEarly(una) == una + Mtu >= conf.size

IsFinished(una) == una >= conf.size

\* Faulty: a NACK does not move the sender back.
RecoverQueueNot(nxt, una) == nxt

RecoverQueue(nxt, una) == una

\* ReceiveAck; with QpComplete, whose callback deletes the receiver's state.
AckArrives ==
    LET a   == Head(acks)
        una == IF Acknowledged(a.seq) > snd_una[begun]
               THEN Acknowledged(a.seq) ELSE snd_una[begun]
    IN
    /\ acks # << >>
    /\ acks' = Tail(acks)
    /\ IF ~live
       THEN UNCHANGED <<sender, rxQp>>       \* "NIC cannot find the flow"
       ELSE /\ snd_una' = [snd_una EXCEPT ![begun] = una]
            /\ snd_nxt' = IF a.nack
                          THEN [snd_nxt EXCEPT ![begun] = RecoverQueue(@, una)]
                          ELSE snd_nxt
            /\ IF IsFinished(una)
               THEN live' = FALSE /\ finished' = finished + 1 /\ rxQp' = NoRxQp
               ELSE UNCHANGED <<live, finished, rxQp>>
            /\ UNCHANGED begun
    /\ UNCHANGED <<conf, got, data, lost>>
-----------------------------------------------------------------------------
\* The receiver.

InOrder(q, p) == p.seq = q.expected
Gap(q, p)     == p.seq > q.expected

\* m_milestone_rx is set back to the interval for every packet, so from the
\* first interval on every packet is acknowledged.
AckDue(expected) == expected >= conf.ackInterval \/ expected % conf.chunk = 0

MayNack(q) == ~q.wait \/ q.lastNACK # q.expected

\* The receiver's state after ReceiverCheckSeq.
ReceiverCheckSeq(q, p) ==
    IF InOrder(q, p)
    THEN [q EXCEPT !.expected = p.seq + p.size]
    ELSE IF Gap(q, p) /\ MayNack(q)
    THEN [q EXCEPT !.wait = TRUE, !.lastNACK = q.expected,
                   !.expected = IF conf.backToZero THEN Chunked(@) ELSE @]
    ELSE q

\* The answers of ReceiveUdp to packet p: at most one.
Answer(q, p) ==
    LET r == ReceiverCheckSeq(q, p) IN
    IF InOrder(q, p)
    THEN IF AckDue(r.expected) THEN <<[seq |-> r.expected, nack |-> FALSE]>>
                               ELSE << >>
    ELSE IF Gap(q, p) /\ MayNack(q) THEN <<[seq |-> r.expected, nack |-> TRUE]>>
    ELSE << >>

\* Bytes of message m received without a gap, once p is accepted.
Gathered(m, p) == IF p.msg = m /\ p.seq <= got[m] /\ p.seq + p.size > got[m]
                  THEN p.seq + p.size ELSE got[m]

\* ReceiveUdp.
DataArrives ==
    LET p == Head(data)
        q == IF rxQp.here THEN rxQp ELSE NewRxQp
    IN
    /\ data # << >>
    /\ Len(acks) < MaxFlight
    /\ data' = Tail(data)
    /\ rxQp' = ReceiverCheckSeq(q, p)
    /\ acks' = acks \o Answer(q, p)
    /\ got' = IF InOrder(q, p) THEN [m \in Messages |-> Gathered(m, p)] ELSE got
    /\ UNCHANGED <<conf, sender, lost>>

\* m_nack_interval has passed since the last NACK.
NackTimerExpires ==
    /\ rxQp.wait
    /\ rxQp' = [rxQp EXCEPT !.wait = FALSE]
    /\ UNCHANGED <<conf, sender, got, data, acks, lost>>
-----------------------------------------------------------------------------
\* The network.  "inside": what is lost is shown by what follows it.

MayLoseData(p) ==
    CASE conf.lose = "nothing"  -> FALSE
      [] conf.lose = "inside"   -> p.seq + p.size < conf.size
      [] conf.lose = "anything" -> TRUE

MayLoseAck(a) ==
    CASE conf.lose = "nothing"  -> FALSE
      [] conf.lose = "inside"   -> ~a.nack /\ a.seq < conf.size
      [] conf.lose = "anything" -> TRUE

Lose ==
    /\ lost < conf.losses
    /\ lost' = lost + 1
    /\ \/ /\ \E i \in 1 .. Len(data) :
               MayLoseData(data[i]) /\ data' = RemoveAt(data, i)
          /\ UNCHANGED acks
       \/ /\ \E i \in 1 .. Len(acks) :
               MayLoseAck(acks[i]) /\ acks' = RemoveAt(acks, i)
          /\ UNCHANGED data
    /\ UNCHANGED <<conf, sender, receiver>>
-----------------------------------------------------------------------------
Next == \/ AddQueuePair \/ AckArrives \/ DataArrives \/ NackTimerExpires \/ Lose
        \/ \E m \in Messages : SendPacket(m)

Spec == Init /\ [][Next]_vars

\* The simulator executes what is due; what is on the way arrives unless it is
\* lost; a queue pair that may send is picked in its turn.
FairSpec ==
    /\ Spec
    /\ WF_vars(AddQueuePair)
    /\ WF_vars(\E m \in Messages : SendPacket(m))
    /\ WF_vars(DataArrives)
    /\ WF_vars(AckArrives)
    /\ WF_vars(NackTimerExpires)
-----------------------------------------------------------------------------
Packet == [msg : Messages, seq : 0 .. conf.size - 1, size : 1 .. Mtu]
Ack    == [seq : 0 .. conf.size, nack : BOOLEAN]
RxQp   == [here : BOOLEAN, expected : 0 .. conf.size,
           lastNACK : 0 .. conf.size, wait : BOOLEAN]

\* The shape of the state: no sequence number passes the end of the message.
TypeOK ==
    /\ conf \in Confs
    /\ begun \in 0 .. conf.messages /\ finished \in 0 .. begun /\ live \in BOOLEAN
    /\ snd_una \in [Messages -> 0 .. conf.size]
    /\ snd_nxt \in [Messages -> 0 .. conf.size]
    /\ got \in [Messages -> 0 .. conf.size]
    /\ rxQp \in RxQp /\ data \in Seq(Packet) /\ acks \in Seq(Ack)
    /\ lost \in 0 .. conf.losses

\* The sender never takes for delivered what the receiver has not got,
\* whatever ACKs are lost, repeated by a NACK or rounded to a chunk.
AckedIsReceived ==
    live => /\ snd_una[begun] <= got[begun]
            /\ \A i \in 1 .. Len(acks) : acks[i].seq <= got[begun]

\* On a lossless fabric nothing is under way when a message is finished: the
\* next queue pair may take the same ports, although nothing but the ports
\* tells its packets and ACKs from those of the one before.
QuietAtEnd ==
    conf.lose = "nothing" /\ ~live => data = << >> /\ acks = << >>

\* Every message is finished, unless the loss is one that nothing shows: the
\* sender has no retransmission timer.  This needs a configuration that sends
\* ACKs at least once a window, with back-to-zero a size that the chunk divides,
\* and of a message at most one loss, which a window of one packet, or of three
\* and more, does not always show.
Completes == conf.lose # "anything" => <>(finished = conf.messages)

\* The queue pairs are kept apart although they follow each other on the same
\* ports: nothing is lost, there is one message, or so few packets are under
\* way that all are gone when the message is finished.  With a loss and a
\* window of three packets a second NACK leaves a packet to the next queue pair,
\* which takes it for its own and is finished too early.
Separate == \/ conf.lose = "nothing" \/ conf.messages = 1
            \/ conf.win # 0 /\ conf.win <= 2 * Mtu

\* Against losses and recovery, an application is told once of every message,
\* and only when it has arrived in full, where queue pairs are kept apart.
Received == {m \in Messages : got[m] = conf.size}
D == INSTANCE Delivery WITH received <- Received
ImplementsDelivery ==
    D!Init /\ [][Separate => D!Next]_<<begun, Received, finished>>

\* "ACK may advance the on-the-fly window, allowing more packets to send"
\* (rdma-hw.cc:446): an ACK never adds to what is on the fly.
AckOpensWindow ==
    [][live' /\ begun' = begun /\ begun > 0 /\ snd_una'[begun] > snd_una[begun]
         => GetOnTheFly(begun)' <= GetOnTheFly(begun)]_vars
=============================================================================
