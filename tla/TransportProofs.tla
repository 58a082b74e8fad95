-------------------------- MODULE TransportProofs --------------------------
(***************************************************************************)
(* Proofs about the transport, for any sizes, windows and intervals.       *)
(* Without loss, for any number of messages: nothing is under way between  *)
(* two of them, and the messages are delivered as Delivery.tla says.  With *)
(* any losses the same is true of a single message.  With losses and       *)
(* several messages it is not: see the README.                             *)
(***************************************************************************)
EXTENDS Transport, SequenceTheorems, TLAPS

\* No packet goes past the end of its message.
Fitting == {p \in Packet : p.seq + p.size <= conf.size}

\* Every queue pair but a live one has been reported.
Counted ==
    /\ live => begun >= 1
    /\ finished = IF live THEN begun - 1 ELSE begun

\* What QpComplete deletes begins anew.
Fresh == rxQp.here \/ rxQp = NoRxQp

Shape == TypeOK /\ data \in Seq(Fitting) /\ Counted /\ Fresh

Done(m) == m < begun \/ (m = begun /\ ~live)

\* Packets that follow each other from one byte to another.
Contiguous(s, from, to) ==
    IF s = << >> THEN from = to
    ELSE /\ s[1].seq = from
         /\ s[Len(s)].seq + s[Len(s)].size = to
         /\ \A i \in 1 .. Len(s) - 1 : s[i + 1].seq = s[i].seq + s[i].size

\* ACKs each of more than the one before.
Increasing(s, most) ==
    /\ \A i \in 1 .. Len(s) : s[i].nack = FALSE /\ s[i].seq <= most
    /\ \A i \in 1 .. Len(s) - 1 : s[i].seq < s[i + 1].seq

\* What is under way between the ends of the live queue pair.
Stream ==
    /\ got[begun] = rxQp.expected
    /\ snd_una[begun] <= got[begun] /\ snd_una[begun] < conf.size
    /\ \A i \in 1 .. Len(data) : data[i].msg = begun
    /\ Contiguous(data, rxQp.expected, snd_nxt[begun])
    /\ Increasing(acks, rxQp.expected)

Quiet == data = << >> /\ acks = << >> /\ rxQp = NoRxQp

LosslessInv ==
    /\ rxQp.wait = FALSE
    /\ \A m \in Messages : Done(m) => snd_nxt[m] = conf.size /\ got[m] = conf.size
    /\ \A m \in Messages : m > begun => snd_nxt[m] = 0 /\ snd_una[m] = 0 /\ got[m] = 0
    /\ IF live THEN Stream ELSE Quiet

\* ACKs of no more than so many bytes.
UpTo(most) == {a \in Ack : a.seq <= most}

\* One message: neither end believes in more than was received.
SingleInv ==
    /\ begun = 0 => data = << >>
    /\ IF Done(1) THEN got[1] = conf.size
       ELSE /\ snd_una[1] <= got[1] /\ snd_una[1] < conf.size
            /\ rxQp.expected <= got[1]
            /\ acks \in Seq(UpTo(got[1]))

TransportInv ==
    /\ Shape
    /\ conf.lose = "nothing" => LosslessInv
    /\ conf.messages = 1 => SingleInv
-----------------------------------------------------------------------------
(***************************************************************************)
(* Arithmetic and sequences.                                               *)
(***************************************************************************)

LEMMA ChunkAtMost ==
    ASSUME NEW a \in Nat, NEW b \in Nat \ {0}
    PROVE  (a \div b) * b \in 0 .. a
<1>1. a \div b \in Int
  OBVIOUS
<1>2. a = b * (a \div b) + (a % b) /\ a % b \in 0 .. b - 1
  BY SMTT(60)
<1>3. b * (a \div b) <= a /\ a < b * (a \div b) + b
  BY <1>1, <1>2, SMTT(60)
<1>4. a \div b >= 0
  BY <1>1, <1>3, SMTT(60)
<1> QED BY <1>1, <1>3, <1>4, SMTT(60)

LEMMA ConfTypes ==
    ASSUME conf \in Confs
    PROVE  /\ conf.messages \in Nat \ {0} /\ conf.size \in Nat \ {0}
           /\ conf.chunk \in Nat \ {0} /\ conf.ackInterval \in Nat \ {0}
           /\ conf.win \in Nat /\ conf.losses \in Nat
           /\ conf.backToZero \in BOOLEAN
BY TransportAssumption DEF ConfAssumption

LEMMA ChunkedType ==
    ASSUME conf \in Confs, NEW a \in Nat
    PROVE  Chunked(a) \in 0 .. a
BY ConfTypes, ChunkAtMost DEF Chunked

LEMMA AcknowledgedType ==
    ASSUME conf \in Confs, NEW a \in Nat
    PROVE  Acknowledged(a) \in 0 .. a
BY ChunkedType DEF Acknowledged

LEMMA RemoveAtType ==
    ASSUME NEW S, NEW s \in Seq(S), NEW i \in 1 .. Len(s)
    PROVE  RemoveAt(s, i) \in Seq(S)
<1>1. SubSeq(s, 1, i - 1) \in Seq(S) /\ SubSeq(s, i + 1, Len(s)) \in Seq(S)
  OBVIOUS
<1> QED BY <1>1 DEF RemoveAt

\* A property of all elements of a sequence is one of its type.
LEMMA ElementsInSet ==
    ASSUME NEW S, NEW T, NEW s \in Seq(S), \A i \in 1 .. Len(s) : s[i] \in T
    PROVE  s \in Seq(T)
OBVIOUS

LEMMA HeadAndTail ==
    ASSUME NEW S, NEW s \in Seq(S), s # << >>
    PROVE  /\ Len(s) \in Nat \ {0}
           /\ Head(s) = s[1] /\ Head(s) \in S
           /\ Tail(s) \in Seq(S) /\ Len(Tail(s)) = Len(s) - 1
           /\ \A i \in 1 .. Len(s) - 1 : Tail(s)[i] = s[i + 1]
OBVIOUS
-----------------------------------------------------------------------------
(***************************************************************************)
(* The shape of the state.                                                 *)
(***************************************************************************)

LEMMA InitTransport == Init => TransportInv
<1> SUFFICES ASSUME Init PROVE TransportInv
  OBVIOUS
<1> USE DEF Init
<1>1. conf \in Confs
  OBVIOUS
<1>2. TypeOK
  <2>1. conf.messages \in Nat /\ conf.size \in Nat /\ conf.losses \in Nat
    BY <1>1, ConfTypes
  <2>2. snd_una = [m \in Messages |-> 0] /\ snd_nxt = snd_una /\ got = snd_una
    OBVIOUS
  <2>3. snd_una \in [Messages -> 0 .. conf.size]
    BY <2>1, <2>2
  <2>4. rxQp \in RxQp
    BY <2>1 DEF NoRxQp, RxQp
  <2>5. data \in Seq(Packet) /\ acks \in Seq(Ack)
    OBVIOUS
  <2>6. live \in BOOLEAN
    BY Zenon
  <2>7. begun \in 0 .. conf.messages /\ finished \in 0 .. begun /\ lost \in 0 .. conf.losses
    BY <2>1
  <2> QED BY <1>1, <2>2, <2>3, <2>4, <2>5, <2>6, <2>7 DEF TypeOK
<1>3. data \in Seq(Fitting) /\ Counted /\ Fresh
  BY DEF Counted, Fresh
<1>4. LosslessInv
  BY ConfTypes DEF LosslessInv, Done, Quiet, NoRxQp, Messages
<1>5. conf.messages = 1 => SingleInv
  BY ConfTypes DEF SingleInv, Done, NoRxQp, Messages
<1> QED BY <1>2, <1>3, <1>4, <1>5 DEF TransportInv, Shape

LEMMA AddQueuePairShape == Shape /\ AddQueuePair => Shape'
<1> SUFFICES ASSUME Shape, AddQueuePair PROVE Shape'
  OBVIOUS
<1>1. /\ begun < conf.messages /\ begun' = begun + 1
      /\ ~live /\ live' = TRUE
      /\ UNCHANGED <<conf, snd_una, snd_nxt, finished, rxQp, got, data, acks, lost>>
  BY DEF AddQueuePair, receiver
<1>2. conf \in Confs /\ begun \in 0 .. conf.messages /\ finished \in 0 .. begun
  BY DEF Shape, TypeOK
<1>3. begun' \in 0 .. conf.messages /\ finished' \in 0 .. begun' /\ Counted' /\ Fresh'
  BY <1>1, <1>2, ConfTypes DEF Counted, Fresh, Shape
<1>4. TypeOK' /\ (data \in Seq(Fitting))'
  BY <1>1, <1>3 DEF Shape, TypeOK, Messages, Packet, Ack, RxQp, Fitting
<1> QED BY <1>3, <1>4 DEF Shape

\* What is sent is a piece of what is left.
LEMMA PayloadType ==
    ASSUME Shape, NEW m \in Messages, GetBytesLeft(m) > 0
    PROVE  /\ Payload(m) \in 1 .. Mtu
           /\ snd_nxt[m] \in 0 .. conf.size - 1
           /\ snd_nxt[m] + Payload(m) \in 1 .. conf.size
<1>1. conf \in Confs /\ snd_nxt[m] \in 0 .. conf.size
  BY DEF Shape, TypeOK
<1> QED BY <1>1, ConfTypes, TransportAssumption DEF Payload, GetBytesLeft

LEMMA SendPacketShape ==
    ASSUME Shape, NEW m \in Messages, SendPacket(m)
    PROVE  Shape'
<1> DEFINE p == [msg |-> m, seq |-> snd_nxt[m], size |-> Payload(m)]
<1>1. /\ data' = Append(data, p)
      /\ snd_nxt' = [snd_nxt EXCEPT ![m] = @ + Payload(m)]
      /\ GetBytesLeft(m) > 0
      /\ UNCHANGED <<conf, begun, live, snd_una, finished, rxQp, got, acks, lost>>
  BY DEF SendPacket, receiver
<1>2. /\ Payload(m) \in 1 .. Mtu
      /\ snd_nxt[m] \in 0 .. conf.size - 1
      /\ snd_nxt[m] + Payload(m) \in 1 .. conf.size
  BY <1>1, PayloadType
<1>3. conf \in Confs /\ conf.size \in Nat
  BY ConfTypes DEF Shape, TypeOK
<1>4. p \in Fitting
  BY <1>2 DEF Fitting, Packet
<1>5. p \in Packet
  BY <1>2 DEF Packet
<1> HIDE DEF p
<1>6. data' \in Seq(Fitting) /\ data' \in Seq(Packet)
  BY <1>1, <1>4, <1>5 DEF Shape, TypeOK
<1>7. snd_nxt' \in [Messages -> 0 .. conf.size]
  BY <1>1, <1>2, <1>3 DEF Shape, TypeOK
<1>8. TypeOK' /\ (data \in Seq(Fitting))' /\ Counted' /\ Fresh'
  BY <1>1, <1>6, <1>7
     DEF Shape, TypeOK, Messages, Packet, Ack, RxQp, Fitting, Counted, Fresh
<1> QED BY <1>8 DEF Shape

\* What an ACK does to the sender.
LEMMA AckEffect ==
    ASSUME Shape, AckArrives
    PROVE  /\ acks # << >> /\ acks' = Tail(acks)
           /\ UNCHANGED <<conf, begun, got, data, lost>>
           /\ Head(acks) \in Ack
           /\ ~live => UNCHANGED <<live, snd_una, snd_nxt, finished, rxQp>>
           /\ live => \E una \in 0 .. conf.size :
                 /\ begun \in Messages
                 /\ una >= snd_una[begun]
                 /\ una <= snd_una[begun] \/ una <= Head(acks).seq
                 /\ snd_una' = [snd_una EXCEPT ![begun] = una]
                 /\ snd_nxt' = IF Head(acks).nack THEN [snd_nxt EXCEPT ![begun] = una]
                                                 ELSE snd_nxt
                 /\ IF una >= conf.size
                    THEN live' = FALSE /\ finished' = finished + 1 /\ rxQp' = NoRxQp
                    ELSE UNCHANGED <<live, finished, rxQp>>
<1> DEFINE a == Head(acks)
<1> DEFINE una == IF Acknowledged(a.seq) > snd_una[begun]
                  THEN Acknowledged(a.seq) ELSE snd_una[begun]
<1>1. /\ acks # << >> /\ acks' = Tail(acks)
      /\ UNCHANGED <<conf, got, data, lost>>
      /\ ~live => UNCHANGED sender /\ UNCHANGED rxQp
      /\ live => /\ snd_una' = [snd_una EXCEPT ![begun] = una]
                 /\ snd_nxt' = IF a.nack THEN [snd_nxt EXCEPT ![begun] = una]
                                         ELSE snd_nxt
                 /\ IF una >= conf.size
                    THEN live' = FALSE /\ finished' = finished + 1 /\ rxQp' = NoRxQp
                    ELSE UNCHANGED <<live, finished, rxQp>>
                 /\ UNCHANGED begun
  BY DEF AckArrives, IsFinished, RecoverQueue
<1>2. acks \in Seq(Ack) /\ a \in Ack
  BY <1>1, HeadAndTail DEF Shape, TypeOK
<1>3. conf \in Confs /\ conf.size \in Nat /\ conf.messages \in Nat
  BY ConfTypes DEF Shape, TypeOK
<1>4. a.seq \in 0 .. conf.size
  BY <1>2 DEF Ack
<1>5. Acknowledged(a.seq) \in 0 .. a.seq
  BY <1>3, <1>4, AcknowledgedType
<1>6. ASSUME live
      PROVE  begun \in Messages /\ snd_una[begun] \in 0 .. conf.size
  <2>1. begun \in Messages
    BY <1>3, <1>6 DEF Shape, TypeOK, Counted, Messages
  <2> QED BY <2>1 DEF Shape, TypeOK
<1>7. ASSUME live
      PROVE  /\ una \in 0 .. conf.size /\ una >= snd_una[begun]
             /\ una <= snd_una[begun] \/ una <= a.seq
  BY <1>3, <1>4, <1>5, <1>6, <1>7
<1> HIDE DEF una
<1>8. ~live => UNCHANGED <<live, snd_una, snd_nxt, finished, rxQp>> /\ begun' = begun
  BY <1>1 DEF sender
<1> QED BY <1>1, <1>2, <1>6, <1>7, <1>8

LEMMA AckArrivesShape == Shape /\ AckArrives => Shape'
<1> SUFFICES ASSUME Shape, AckArrives PROVE Shape'
  OBVIOUS
<1>1. /\ acks # << >> /\ acks' = Tail(acks)
      /\ UNCHANGED <<conf, begun, got, data, lost>>
  BY AckEffect
<1>2. acks' \in Seq(Ack)
  BY <1>1, HeadAndTail DEF Shape, TypeOK
<1>3. CASE ~live
  <2>1. UNCHANGED <<live, snd_una, snd_nxt, finished, rxQp>>
    BY <1>3, AckEffect
  <2>2. TypeOK' /\ (data \in Seq(Fitting))' /\ Counted' /\ Fresh'
    BY <1>1, <1>2, <2>1
       DEF Shape, TypeOK, Messages, Packet, Ack, RxQp, Fitting, Counted, Fresh
  <2> QED BY <2>2 DEF Shape
<1>4. CASE live
  <2>1. PICK una \in 0 .. conf.size :
          /\ begun \in Messages
          /\ snd_una' = [snd_una EXCEPT ![begun] = una]
          /\ snd_nxt' = IF Head(acks).nack THEN [snd_nxt EXCEPT ![begun] = una]
                                          ELSE snd_nxt
          /\ IF una >= conf.size
             THEN live' = FALSE /\ finished' = finished + 1 /\ rxQp' = NoRxQp
             ELSE UNCHANGED <<live, finished, rxQp>>
    BY <1>4, AckEffect
  <2>2. conf.messages \in Nat /\ conf.size \in Nat
    BY ConfTypes DEF Shape, TypeOK
  <2>3. begun \in 1 .. conf.messages /\ finished = begun - 1
    BY <1>4, <2>1 DEF Messages, Shape, Counted
  <2>4. /\ live' \in BOOLEAN /\ finished' \in 0 .. begun' /\ Counted'
        /\ rxQp' \in RxQp /\ Fresh'
    <3>1. NoRxQp \in RxQp
      BY <2>2 DEF NoRxQp, RxQp
    <3>2. CASE una >= conf.size
      <4>1. live' = FALSE /\ finished' = finished + 1 /\ rxQp' = NoRxQp
        BY <2>1, <3>2
      <4>2. finished' = begun /\ ~live'
        BY <2>3, <4>1
      <4>3. Counted'
        BY <1>1, <4>2, Zenon DEF Counted
      <4>4. finished' \in 0 .. begun'
        BY <1>1, <2>3, <4>2
      <4> QED BY <1>1, <3>1, <4>1, <4>3, <4>4 DEF Fresh
    <3>3. CASE ~(una >= conf.size)
      <4>1. UNCHANGED <<live, finished, rxQp>>
        BY <2>1, <3>3
      <4> QED BY <1>1, <4>1 DEF Counted, Fresh, Shape, TypeOK
    <3> QED BY <3>2, <3>3
  <2>5. /\ snd_una' \in [Messages -> 0 .. conf.size]
        /\ snd_nxt' \in [Messages -> 0 .. conf.size]
    BY <2>1 DEF Shape, TypeOK
  <2>6. TypeOK' /\ (data \in Seq(Fitting))'
    BY <1>1, <1>2, <2>4, <2>5 DEF Shape, TypeOK, Messages, Packet, Ack, RxQp, Fitting
  <2> QED BY <2>4, <2>6 DEF Shape
<1> QED BY <1>3, <1>4

LEMMA FittingType ==
    ASSUME conf \in Confs, NEW p \in Fitting
    PROVE  /\ conf.size \in Nat /\ p.seq \in Nat /\ p.size \in Nat \ {0}
           /\ p.seq + p.size \in 1 .. conf.size
           /\ p.msg \in Messages
<1>1. p \in Packet /\ p.seq + p.size <= conf.size
  BY DEF Fitting
<1>2. p.seq \in 0 .. conf.size - 1 /\ p.size \in 1 .. Mtu /\ p.msg \in Messages
  BY <1>1 DEF Packet
<1> QED BY <1>1, <1>2, ConfTypes, TransportAssumption

\* What a packet does to the receiver's state and which answer it gets.
LEMMA CheckSeqType ==
    ASSUME conf \in Confs,
           NEW q \in RxQp,
           NEW p \in Fitting
    PROVE  /\ ReceiverCheckSeq(q, p) \in RxQp
           /\ ReceiverCheckSeq(q, p).here = q.here
           /\ Answer(q, p) \in Seq(Ack)
<1>1. /\ conf.size \in Nat
      /\ p.seq \in Nat /\ p.size \in Nat /\ p.seq + p.size \in 0 .. conf.size
  BY FittingType
<1>2. /\ q.expected \in 0 .. conf.size
      /\ Chunked(q.expected) \in 0 .. conf.size
  BY <1>1, ChunkedType DEF RxQp
<1> DEFINE e == IF conf.backToZero THEN Chunked(q.expected) ELSE q.expected
<1>3. e \in 0 .. conf.size
  BY <1>2
<1> DEFINE r == ReceiverCheckSeq(q, p)
<1>4. r \in RxQp /\ r.here = q.here
  <2> USE DEF RxQp
  <2>1. CASE InOrder(q, p)
    <3>1. r = [q EXCEPT !.expected = p.seq + p.size]
      BY <2>1 DEF ReceiverCheckSeq
    <3>2. p.seq + p.size \in 0 .. conf.size
      BY <1>1
    <3> QED BY <3>1, <3>2
  <2>2. CASE ~InOrder(q, p) /\ Gap(q, p) /\ MayNack(q)
    <3>1. r = [q EXCEPT !.wait = TRUE, !.lastNACK = q.expected, !.expected = e]
      BY <2>2 DEF ReceiverCheckSeq
    <3> HIDE DEF e
    <3> QED BY <1>2, <1>3, <3>1
  <2>3. CASE ~InOrder(q, p) /\ ~(Gap(q, p) /\ MayNack(q))
    BY <2>3 DEF ReceiverCheckSeq
  <2> QED BY <2>1, <2>2, <2>3
<1> HIDE DEF r
<1>5. [seq |-> r.expected, nack |-> FALSE] \in Ack /\ [seq |-> r.expected, nack |-> TRUE] \in Ack
  BY <1>4 DEF Ack, RxQp
<1>6. Answer(q, p) \in {<<[seq |-> r.expected, nack |-> FALSE]>>,
                        <<[seq |-> r.expected, nack |-> TRUE]>>, << >>}
  BY DEF Answer, r
<1>7. Answer(q, p) \in Seq(Ack)
  <2> DEFINE yes == [seq |-> r.expected, nack |-> FALSE]
             no  == [seq |-> r.expected, nack |-> TRUE]
  <2>1. yes \in Ack /\ no \in Ack /\ Answer(q, p) \in {<<yes>>, <<no>>, << >>}
    BY <1>5, <1>6
  <2> HIDE DEF yes, no
  <2>2. <<yes>> \in Seq(Ack) /\ <<no>> \in Seq(Ack) /\ << >> \in Seq(Ack)
    BY <2>1
  <2> QED BY <2>1, <2>2
<1> QED BY <1>4, <1>7 DEF r

LEMMA GatheredType ==
    ASSUME Shape, NEW p \in Fitting, NEW m \in Messages
    PROVE  /\ Gathered(m, p) \in got[m] .. conf.size
           /\ Gathered(m, p) # got[m] => m = p.msg
<1>1. /\ conf.size \in Nat /\ got[m] \in 0 .. conf.size
      /\ p.seq \in Nat /\ p.size \in Nat /\ p.seq + p.size \in 0 .. conf.size
  BY FittingType DEF Shape, TypeOK
<1> QED BY <1>1 DEF Gathered

LEMMA DataEffect ==
    ASSUME Shape, DataArrives
    PROVE  /\ data # << >> /\ data' = Tail(data)
           /\ Head(data) \in Fitting /\ Len(data) \in Nat \ {0} /\ Head(data) = data[1]
           /\ UNCHANGED <<conf, begun, live, snd_una, snd_nxt, finished, lost>>
           /\ \E q \in RxQp :
                /\ q.here /\ q.expected = rxQp.expected /\ q.wait = rxQp.wait
                /\ rxQp' = ReceiverCheckSeq(q, Head(data))
                /\ acks' = acks \o Answer(q, Head(data))
                /\ got' = IF InOrder(q, Head(data))
                          THEN [m \in Messages |-> Gathered(m, Head(data))] ELSE got
<1> DEFINE q == IF rxQp.here THEN rxQp ELSE NewRxQp
<1>1. /\ data # << >> /\ data' = Tail(data)
      /\ UNCHANGED <<conf, begun, live, snd_una, snd_nxt, finished, lost>>
      /\ rxQp' = ReceiverCheckSeq(q, Head(data))
      /\ acks' = acks \o Answer(q, Head(data))
      /\ got' = IF InOrder(q, Head(data))
                THEN [m \in Messages |-> Gathered(m, Head(data))] ELSE got
  BY DEF DataArrives, sender
<1>2. Head(data) \in Fitting /\ Len(data) \in Nat \ {0} /\ Head(data) = data[1]
  BY <1>1, HeadAndTail DEF Shape
<1>3. q \in RxQp
  <2>1. conf.size \in Nat
    BY ConfTypes DEF Shape, TypeOK
  <2>2. NoRxQp \in RxQp
    BY <2>1 DEF NoRxQp, RxQp
  <2>3. NewRxQp \in RxQp
    BY <2>2 DEF NewRxQp, RxQp
  <2> QED BY <2>3 DEF Shape, TypeOK
<1>4. q.here /\ q.expected = rxQp.expected /\ q.wait = rxQp.wait
  BY DEF Shape, Fresh, NewRxQp, NoRxQp
<1> HIDE DEF q
<1> QED BY <1>1, <1>2, <1>3, <1>4

LEMMA DataArrivesShape == Shape /\ DataArrives => Shape'
<1> SUFFICES ASSUME Shape, DataArrives PROVE Shape'
  OBVIOUS
<1> DEFINE p == Head(data)
<1>1. /\ data # << >> /\ data' = Tail(data) /\ p \in Fitting
      /\ UNCHANGED <<conf, begun, live, snd_una, snd_nxt, finished, lost>>
  BY DataEffect
<1>2. PICK q \in RxQp :
        /\ q.here
        /\ rxQp' = ReceiverCheckSeq(q, p)
        /\ acks' = acks \o Answer(q, p)
        /\ got' = IF InOrder(q, p) THEN [m \in Messages |-> Gathered(m, p)] ELSE got
  BY DataEffect
<1> HIDE DEF p
<1>3. conf \in Confs /\ conf.size \in Nat
  BY ConfTypes DEF Shape, TypeOK
<1>4. /\ ReceiverCheckSeq(q, p) \in RxQp
      /\ ReceiverCheckSeq(q, p).here = q.here
      /\ Answer(q, p) \in Seq(Ack)
  BY <1>1, <1>3, CheckSeqType
<1>5. acks' \in Seq(Ack)
  BY <1>2, <1>4, ConcatProperties DEF Shape, TypeOK
<1>6. got' \in [Messages -> 0 .. conf.size]
  <2>1. \A m \in Messages : got[m] \in 0 .. conf.size /\ Gathered(m, p) \in got[m] .. conf.size
    BY <1>1, GatheredType DEF Shape, TypeOK
  <2>2. \A m \in Messages : Gathered(m, p) \in 0 .. conf.size
    BY <1>3, <2>1
  <2> QED BY <1>2, <2>2 DEF Shape, TypeOK
<1>7. data' \in Seq(Fitting) /\ data' \in Seq(Packet)
  BY <1>1, HeadAndTail DEF Shape, TypeOK
<1>8. TypeOK' /\ (data \in Seq(Fitting))' /\ Counted' /\ Fresh'
  BY <1>1, <1>2, <1>4, <1>5, <1>6, <1>7
     DEF Shape, TypeOK, Messages, Packet, Ack, RxQp, Fitting, Counted, Fresh
<1> QED BY <1>8 DEF Shape

LEMMA NackTimerShape == Shape /\ NackTimerExpires => Shape'
<1> SUFFICES ASSUME Shape, NackTimerExpires PROVE Shape'
  OBVIOUS
<1>1. /\ rxQp' = [rxQp EXCEPT !.wait = FALSE]
      /\ UNCHANGED <<conf, begun, live, snd_una, snd_nxt, finished, got, data, acks, lost>>
  BY DEF NackTimerExpires, sender
<1>2. rxQp' \in RxQp /\ rxQp'.here
  <2>1. rxQp \in RxQp /\ rxQp.wait
    BY DEF Shape, TypeOK, NackTimerExpires
  <2>2. rxQp.here
    BY <2>1 DEF Shape, Fresh, NoRxQp
  <2> QED BY <1>1, <2>1, <2>2 DEF RxQp
<1>3. TypeOK' /\ (data \in Seq(Fitting))' /\ Counted' /\ Fresh'
  BY <1>1, <1>2
     DEF Shape, TypeOK, Messages, Packet, Ack, RxQp, Fitting, Counted, Fresh
<1> QED BY <1>3 DEF Shape

LEMMA LoseEffect ==
    ASSUME Shape, Lose
    PROVE  /\ UNCHANGED <<conf, begun, live, snd_una, snd_nxt, finished, rxQp, got>>
           /\ lost' \in 0 .. conf.losses
           /\ conf.lose # "nothing"
           /\ \/ /\ acks' = acks
                 /\ \E i \in 1 .. Len(data) : data' = RemoveAt(data, i)
              \/ /\ data' = data
                 /\ \E i \in 1 .. Len(acks) : acks' = RemoveAt(acks, i)
<1>1. UNCHANGED <<conf, begun, live, snd_una, snd_nxt, finished, rxQp, got>>
  BY DEF Lose, sender, receiver
<1>2. lost' \in 0 .. conf.losses
  BY ConfTypes DEF Lose, Shape, TypeOK
<1>3. conf.lose # "nothing"
  BY DEF Lose, MayLoseData, MayLoseAck
<1>4. \/ /\ acks' = acks
         /\ \E i \in 1 .. Len(data) : data' = RemoveAt(data, i)
      \/ /\ data' = data
         /\ \E i \in 1 .. Len(acks) : acks' = RemoveAt(acks, i)
  BY DEF Lose
<1> QED BY <1>1, <1>2, <1>3, <1>4

LEMMA LoseShape == Shape /\ Lose => Shape'
<1> SUFFICES ASSUME Shape, Lose PROVE Shape'
  OBVIOUS
<1>1. /\ UNCHANGED <<conf, begun, live, snd_una, snd_nxt, finished, rxQp, got>>
      /\ lost' \in 0 .. conf.losses
      /\ \/ /\ acks' = acks
            /\ \E i \in 1 .. Len(data) : data' = RemoveAt(data, i)
         \/ /\ data' = data
            /\ \E i \in 1 .. Len(acks) : acks' = RemoveAt(acks, i)
  BY LoseEffect
<1>2. acks' \in Seq(Ack) /\ data' \in Seq(Fitting) /\ data' \in Seq(Packet)
  <2>1. acks \in Seq(Ack) /\ data \in Seq(Fitting) /\ data \in Seq(Packet)
    BY DEF Shape, TypeOK
  <2> QED BY <1>1, <2>1, RemoveAtType
<1>3. TypeOK' /\ (data \in Seq(Fitting))' /\ Counted' /\ Fresh'
  BY <1>1, <1>2
     DEF Shape, TypeOK, Messages, Packet, Ack, RxQp, Fitting, Counted, Fresh
<1> QED BY <1>3 DEF Shape
-----------------------------------------------------------------------------
(***************************************************************************)
(* Nothing is lost.                                                        *)
(***************************************************************************)

LEMMA ContiguousAppend ==
    ASSUME NEW S, NEW s \in Seq(S), NEW p \in S, NEW from, NEW to,
           Contiguous(s, from, to), p.seq = to
    PROVE  Contiguous(Append(s, p), from, to + p.size)
<1> DEFINE r == Append(s, p)
<1>1. /\ Len(s) \in Nat /\ Len(r) = Len(s) + 1 /\ r # << >>
      /\ r[Len(s) + 1] = p /\ \A i \in 1 .. Len(s) : r[i] = s[i]
  OBVIOUS
<1> SUFFICES Contiguous(r, from, to + p.size)
  OBVIOUS
<1> HIDE DEF r
<1>2. CASE s = << >>
  <2>1. from = to /\ Len(s) = 0
    BY <1>2 DEF Contiguous
  <2>2. /\ Len(r) = 1 /\ r[1] = p
    BY <1>1, <2>1
  <2> QED BY <1>1, <2>1, <2>2 DEF Contiguous
<1>3. CASE s # << >>
  <2>1. /\ s[1].seq = from /\ s[Len(s)].seq + s[Len(s)].size = to
        /\ \A i \in 1 .. Len(s) - 1 : s[i + 1].seq = s[i].seq + s[i].size
    BY <1>3 DEF Contiguous
  <2>2. Len(s) >= 1
    BY <1>3
  <2>3. r[1].seq = from /\ r[Len(r)].seq + r[Len(r)].size = to + p.size
    BY <1>1, <2>1, <2>2
  <2>4. ASSUME NEW i \in 1 .. Len(r) - 1 PROVE r[i + 1].seq = r[i].seq + r[i].size
    <3>1. CASE i = Len(s)
      BY <1>1, <2>1, <2>2, <3>1
    <3>2. CASE i # Len(s)
      <4>1. i \in 1 .. Len(s) - 1 /\ r[i] = s[i] /\ r[i + 1] = s[i + 1]
        BY <1>1, <3>2
      <4> QED BY <2>1, <4>1
    <3> QED BY <3>1, <3>2
  <2> QED BY <1>1, <2>3, <2>4 DEF Contiguous
<1> QED BY <1>2, <1>3

LEMMA ContiguousTail ==
    ASSUME NEW S, NEW s \in Seq(S), s # << >>, NEW from, NEW to, Contiguous(s, from, to)
    PROVE  Contiguous(Tail(s), s[1].seq + s[1].size, to)
<1> DEFINE r == Tail(s)
<1>1. /\ Len(s) \in Nat \ {0} /\ Len(r) = Len(s) - 1
      /\ \A i \in 1 .. Len(s) - 1 : r[i] = s[i + 1]
      /\ r = << >> <=> Len(s) = 1
  <2>1. /\ Len(s) \in Nat \ {0} /\ r \in Seq(S) /\ Len(r) = Len(s) - 1
        /\ \A i \in 1 .. Len(s) - 1 : r[i] = s[i + 1]
    BY HeadAndTail
  <2> HIDE DEF r
  <2>2. r = << >> <=> Len(r) = 0
    BY <2>1
  <2> QED BY <2>1, <2>2
<1>2. /\ s[Len(s)].seq + s[Len(s)].size = to
      /\ \A i \in 1 .. Len(s) - 1 : s[i + 1].seq = s[i].seq + s[i].size
  BY DEF Contiguous
<1> HIDE DEF r
<1>3. CASE r = << >>
  BY <1>1, <1>2, <1>3 DEF Contiguous, r
<1>4. CASE r # << >>
  <2>1. Len(s) >= 2 /\ Len(r) \in 1 .. Len(s) - 1
    BY <1>1, <1>4
  <2>2. r[1].seq = s[1].seq + s[1].size
    BY <1>1, <1>2, <2>1
  <2>3. r[Len(r)].seq + r[Len(r)].size = to
    BY <1>1, <1>2, <2>1
  <2>4. ASSUME NEW i \in 1 .. Len(r) - 1 PROVE r[i + 1].seq = r[i].seq + r[i].size
    <3>1. r[i] = s[i + 1] /\ r[i + 1] = s[(i + 1) + 1] /\ i + 1 \in 1 .. Len(s) - 1
      BY <1>1, <2>1
    <3> QED BY <1>2, <3>1
  <2> QED BY <1>4, <2>2, <2>3, <2>4 DEF Contiguous, r
<1> QED BY <1>3, <1>4

LEMMA IncreasingTail ==
    ASSUME NEW s \in Seq(Ack), s # << >>, NEW most, Increasing(s, most)
    PROVE  Increasing(Tail(s), most)
<1> DEFINE r == Tail(s)
<1>1. /\ Len(s) \in Nat \ {0} /\ Len(r) = Len(s) - 1
      /\ \A i \in 1 .. Len(s) - 1 : r[i] = s[i + 1]
  OBVIOUS
<1> HIDE DEF r
<1>2. ASSUME NEW i \in 1 .. Len(r) PROVE r[i].nack = FALSE /\ r[i].seq <= most
  <2>1. r[i] = s[i + 1] /\ i + 1 \in 1 .. Len(s)
    BY <1>1
  <2> QED BY <2>1 DEF Increasing
<1>3. ASSUME NEW i \in 1 .. Len(r) - 1 PROVE r[i].seq < r[i + 1].seq
  <2>1. r[i] = s[i + 1] /\ r[i + 1] = s[(i + 1) + 1] /\ i + 1 \in 1 .. Len(s) - 1
    BY <1>1
  <2> QED BY <2>1 DEF Increasing
<1> QED BY <1>2, <1>3 DEF Increasing, r

\* An ACK of more than all before it.
LEMMA IncreasingAppend ==
    ASSUME NEW s \in Seq(Ack), NEW most \in Nat, Increasing(s, most),
           NEW next \in Nat, next > most, \A i \in 1 .. Len(s) : s[i].seq \in Nat
    PROVE  /\ Increasing(s, next)
           /\ Increasing(Append(s, [seq |-> next, nack |-> FALSE]), next)
<1> DEFINE a == [seq |-> next, nack |-> FALSE]
           r == Append(s, a)
<1>1. /\ Len(s) \in Nat /\ Len(r) = Len(s) + 1
      /\ r[Len(s) + 1] = a /\ \A i \in 1 .. Len(s) : r[i] = s[i]
  OBVIOUS
<1>2. a.seq = next /\ a.nack = FALSE
  OBVIOUS
<1> HIDE DEF r, a
<1>3. \A i \in 1 .. Len(s) : s[i].nack = FALSE /\ s[i].seq < next
  BY DEF Increasing
<1>4. Increasing(s, next)
  BY <1>3 DEF Increasing
<1>5. ASSUME NEW i \in 1 .. Len(r) PROVE r[i].nack = FALSE /\ r[i].seq <= next
  <2>1. CASE i = Len(s) + 1
    BY <1>1, <1>2, <2>1
  <2>2. CASE i # Len(s) + 1
    BY <1>1, <1>3, <2>2
  <2> QED BY <2>1, <2>2
<1>6. ASSUME NEW i \in 1 .. Len(r) - 1 PROVE r[i].seq < r[i + 1].seq
  <2>1. CASE i = Len(s)
    BY <1>1, <1>2, <1>3, <2>1
  <2>2. CASE i # Len(s)
    <3>1. r[i] = s[i] /\ r[i + 1] = s[i + 1] /\ i \in 1 .. Len(s) - 1
      BY <1>1, <2>2
    <3> QED BY <3>1 DEF Increasing
  <2> QED BY <2>1, <2>2
<1> QED BY <1>4, <1>5, <1>6 DEF Increasing, r, a

LEMMA AddQueuePairLossless ==
    ASSUME Shape, LosslessInv, AddQueuePair
    PROVE  LosslessInv'
<1>1. /\ begun < conf.messages /\ begun' = begun + 1
      /\ ~live /\ live' = TRUE
      /\ UNCHANGED <<conf, snd_una, snd_nxt, finished, rxQp, got, data, acks, lost>>
  BY DEF AddQueuePair, receiver
<1>2. conf \in Confs /\ conf.messages \in Nat /\ conf.size \in Nat \ {0} /\ begun \in Nat
  BY ConfTypes DEF Shape, TypeOK
<1>3. begun' \in Messages /\ begun' > begun
  BY <1>1, <1>2 DEF Messages
<1>4. data = << >> /\ acks = << >> /\ rxQp.expected = 0 /\ rxQp.wait = FALSE
  BY <1>1 DEF LosslessInv, Quiet, NoRxQp
<1>5. snd_nxt[begun'] = 0 /\ snd_una[begun'] = 0 /\ got[begun'] = 0
  BY <1>3 DEF LosslessInv
<1>6. Stream'
  BY <1>1, <1>2, <1>4, <1>5 DEF Stream, Contiguous, Increasing
<1>7. ASSUME NEW m \in Messages, Done(m)' PROVE snd_nxt[m] = conf.size /\ got[m] = conf.size
  <2>1. m \in Nat /\ m < begun + 1
    BY <1>1, <1>2, <1>7 DEF Done, Messages
  <2>2. Done(m)
    BY <1>1, <1>2, <2>1 DEF Done
  <2> QED BY <2>2 DEF LosslessInv
<1>8. ASSUME NEW m \in Messages, m > begun'
      PROVE  snd_nxt[m] = 0 /\ snd_una[m] = 0 /\ got[m] = 0
  <2>1. m > begun
    BY <1>1, <1>2, <1>8 DEF Messages
  <2> QED BY <2>1 DEF LosslessInv
<1>9. Messages' = Messages
  BY <1>1 DEF Messages
<1> QED BY <1>1, <1>4, <1>6, <1>7, <1>8, <1>9 DEF LosslessInv

\* Only the live queue pair sends: those before it have no bytes left.
LEMMA SendPacketLossless ==
    ASSUME Shape, LosslessInv, NEW m \in Messages, SendPacket(m)
    PROVE  LosslessInv'
<1> DEFINE p == [msg |-> m, seq |-> snd_nxt[m], size |-> Payload(m)]
<1>1. /\ m <= begun /\ GetBytesLeft(m) > 0
      /\ data' = Append(data, p)
      /\ snd_nxt' = [snd_nxt EXCEPT ![m] = @ + Payload(m)]
      /\ UNCHANGED <<conf, begun, live, snd_una, finished, rxQp, got, acks, lost>>
  BY DEF SendPacket, receiver
<1>2. conf \in Confs /\ conf.size \in Nat \ {0} /\ begun \in Nat /\ m \in Nat /\ live \in BOOLEAN
  BY ConfTypes DEF Shape, TypeOK, Messages
<1>3. Payload(m) \in 1 .. Mtu /\ snd_nxt[m] \in 0 .. conf.size - 1
      /\ snd_nxt[m] + Payload(m) \in 1 .. conf.size
  BY <1>1, PayloadType
<1>4. ~Done(m)
  BY <1>2, <1>3 DEF LosslessInv
<1>5. m = begun /\ live
  BY <1>1, <1>2, <1>4 DEF Done
<1>6. Stream
  BY <1>5 DEF LosslessInv
<1>7. p \in Fitting
  BY <1>2, <1>3 DEF Fitting, Packet
<1>8. p.msg = m /\ p.seq = snd_nxt[m] /\ p.size = Payload(m)
  OBVIOUS
<1> HIDE DEF p
<1>9. data \in Seq(Fitting)
  BY DEF Shape
<1>10. snd_nxt'[begun] = snd_nxt[m] + p.size /\ \A k \in Messages : k # m => snd_nxt'[k] = snd_nxt[k]
  BY <1>1, <1>5, <1>8 DEF Shape, TypeOK
<1>11. Contiguous(data', rxQp.expected, snd_nxt'[begun])
  <2>1. Contiguous(data, rxQp.expected, snd_nxt[m])
    BY <1>5, <1>6 DEF Stream
  <2>2. Contiguous(Append(data, p), rxQp.expected, snd_nxt[m] + p.size)
    BY <1>7, <1>8, <1>9, <2>1, ContiguousAppend
  <2> QED BY <1>1, <1>10, <2>2
<1>12. \A i \in 1 .. Len(data') : data'[i].msg = begun
  <2>1. Len(data') = Len(data) + 1 /\ data'[Len(data) + 1] = p
        /\ \A i \in 1 .. Len(data) : data'[i] = data[i]
    BY <1>1, <1>7, <1>9
  <2>2. Len(data) \in Nat /\ \A i \in 1 .. Len(data) : data[i].msg = begun
    BY <1>6, <1>9 DEF Stream
  <2> QED BY <1>5, <1>8, <2>1, <2>2
<1>13. Stream'
  BY <1>1, <1>6, <1>11, <1>12 DEF Stream
<1>14. Messages' = Messages
  BY <1>1 DEF Messages
<1>15. \A k \in Messages : Done(k)' => Done(k) /\ k # m
  BY <1>1, <1>4 DEF Done
<1>16. \A k \in Messages : k > begun' => k > begun /\ k # m
  BY <1>1, <1>2, <1>5
<1> QED BY <1>1, <1>5, <1>10, <1>13, <1>14, <1>15, <1>16 DEF LosslessInv

\* The ACK that finishes the message is the last thing under way.
LEMMA AckArrivesLossless ==
    ASSUME Shape, LosslessInv, AckArrives
    PROVE  LosslessInv'
<1>1. /\ acks # << >> /\ acks' = Tail(acks)
      /\ UNCHANGED <<conf, begun, got, data, lost>>
      /\ Head(acks) \in Ack
  BY AckEffect
<1>2. live /\ Stream
  BY <1>1 DEF LosslessInv, Quiet
<1>3. PICK una \in 0 .. conf.size :
        /\ begun \in Messages
        /\ una <= snd_una[begun] \/ una <= Head(acks).seq
        /\ snd_una' = [snd_una EXCEPT ![begun] = una]
        /\ snd_nxt' = IF Head(acks).nack THEN [snd_nxt EXCEPT ![begun] = una]
                                        ELSE snd_nxt
        /\ IF una >= conf.size
           THEN live' = FALSE /\ finished' = finished + 1 /\ rxQp' = NoRxQp
           ELSE UNCHANGED <<live, finished, rxQp>>
  BY <1>2, AckEffect
<1>4. /\ conf \in Confs /\ conf.size \in Nat \ {0} /\ begun \in Nat
      /\ snd_una[begun] \in Nat /\ got[begun] \in 0 .. conf.size
      /\ acks \in Seq(Ack) /\ data \in Seq(Fitting)
  BY <1>3, ConfTypes DEF Shape, TypeOK
<1>5. /\ Len(acks) \in Nat \ {0} /\ Head(acks) = acks[1]
      /\ Tail(acks) \in Seq(Ack) /\ Len(Tail(acks)) = Len(acks) - 1
  BY <1>1, <1>4, HeadAndTail
<1>6. /\ got[begun] = rxQp.expected
      /\ snd_una[begun] <= got[begun] /\ snd_una[begun] < conf.size
      /\ \A i \in 1 .. Len(data) : data[i].msg = begun
      /\ Contiguous(data, rxQp.expected, snd_nxt[begun])
      /\ Increasing(acks, rxQp.expected)
  BY <1>2 DEF Stream
<1>7. Head(acks).nack = FALSE /\ Head(acks).seq <= got[begun] /\ Head(acks).seq \in 0 .. conf.size
  BY <1>1, <1>5, <1>6 DEF Increasing, Ack
<1>8. snd_nxt' = snd_nxt /\ una <= got[begun]
  BY <1>3, <1>4, <1>6, <1>7
<1>9. Messages' = Messages
  BY <1>1 DEF Messages
<1>10. /\ snd_una'[begun] = una
       /\ \A m \in Messages : m > begun => m # begun /\ snd_una'[m] = snd_una[m]
  BY <1>3, <1>4 DEF Shape, TypeOK, Messages
<1>11. CASE una < conf.size
  <2>1. UNCHANGED <<live, finished, rxQp>>
    BY <1>3, <1>4, <1>11
  <2>2. Increasing(acks', rxQp.expected)
    BY <1>1, <1>4, <1>6, IncreasingTail
  <2>3. Stream'
    BY <1>1, <1>6, <1>8, <1>10, <1>11, <2>1, <2>2 DEF Stream
  <2>4. \A m \in Messages : Done(m)' => Done(m)
    BY <1>1, <2>1 DEF Done
  <2> QED BY <1>1, <1>2, <1>8, <1>9, <1>10, <2>1, <2>3, <2>4 DEF LosslessInv
<1>12. CASE una >= conf.size
  <2>1. live' = FALSE /\ rxQp' = NoRxQp
    BY <1>3, <1>12
  <2>2. got[begun] = conf.size /\ rxQp.expected = conf.size
        /\ Head(acks).seq = conf.size
    BY <1>3, <1>4, <1>6, <1>7, <1>8, <1>12
  <2>3. data = << >>
    <3>1. SUFFICES ASSUME data # << >> PROVE FALSE
      OBVIOUS
    <3>2. data[1].seq = conf.size
      BY <1>6, <2>2, <3>1 DEF Contiguous
    <3>3. data[1] \in Fitting
      BY <1>4, <3>1
    <3> QED BY <1>4, <3>2, <3>3, FittingType
  <2>4. snd_nxt[begun] = conf.size
    BY <1>6, <2>2, <2>3 DEF Contiguous
  <2>5. Len(acks) = 1
    <3>1. SUFFICES ASSUME 2 \in 1 .. Len(acks) PROVE FALSE
      BY <1>5
    <3>2. acks[2].seq <= conf.size /\ acks[1].seq < acks[1 + 1].seq
      BY <1>5, <1>6, <2>2, <3>1 DEF Increasing
    <3>3. acks[2].seq \in Nat
      <4>1. acks[2] \in Ack
        BY <1>4, <3>1
      <4> QED BY <1>4, <4>1 DEF Ack
    <3> QED BY <1>4, <1>5, <2>2, <3>2, <3>3
  <2>6. acks' = << >>
    BY <1>1, <1>5, <2>5
  <2>7. Quiet'
    BY <1>1, <2>1, <2>3, <2>6 DEF Quiet
  <2>8. ASSUME NEW m \in Messages, Done(m)' PROVE snd_nxt[m] = conf.size /\ got[m] = conf.size
    <3>1. CASE m = begun
      BY <2>2, <2>4, <3>1
    <3>2. CASE m # begun
      <4>1. Done(m)
        BY <1>1, <2>8, <3>2 DEF Done
      <4> QED BY <4>1 DEF LosslessInv
    <3> QED BY <3>1, <3>2
  <2>9. rxQp'.wait = FALSE
    BY <2>1 DEF NoRxQp
  <2> QED BY <1>1, <1>8, <1>9, <1>10, <2>1, <2>7, <2>8, <2>9 DEF LosslessInv
<1> QED BY <1>4, <1>11, <1>12

\* The packet that arrives is the one expected, and it is acknowledged or not.
LEMMA DataArrivesLossless ==
    ASSUME Shape, LosslessInv, DataArrives
    PROVE  LosslessInv'
<1> DEFINE p == Head(data)
<1>1. /\ data # << >> /\ data' = Tail(data) /\ p = data[1] /\ p \in Fitting
      /\ Len(data) \in Nat \ {0}
      /\ UNCHANGED <<conf, begun, live, snd_una, snd_nxt, finished, lost>>
  BY DataEffect
<1>2. PICK q \in RxQp :
        /\ q.expected = rxQp.expected /\ q.wait = rxQp.wait
        /\ rxQp' = ReceiverCheckSeq(q, p)
        /\ acks' = acks \o Answer(q, p)
        /\ got' = IF InOrder(q, p) THEN [m \in Messages |-> Gathered(m, p)] ELSE got
  BY DataEffect
<1> HIDE DEF p
<1>3. live /\ Stream
  BY <1>1 DEF LosslessInv, Quiet
<1>4. /\ conf \in Confs /\ conf.size \in Nat \ {0} /\ begun \in Messages /\ begun \in Nat
      /\ acks \in Seq(Ack) /\ data \in Seq(Fitting)
      /\ got[begun] \in 0 .. conf.size /\ snd_una[begun] \in Nat
  <2>1. conf \in Confs /\ conf.size \in Nat \ {0} /\ begun \in Messages /\ begun \in Nat
    BY <1>3, ConfTypes DEF Shape, TypeOK, Counted, Messages
  <2> QED BY <2>1 DEF Shape, TypeOK
<1>5. /\ got[begun] = rxQp.expected
      /\ snd_una[begun] <= got[begun] /\ snd_una[begun] < conf.size
      /\ \A i \in 1 .. Len(data) : data[i].msg = begun
      /\ Contiguous(data, rxQp.expected, snd_nxt[begun])
      /\ Increasing(acks, rxQp.expected)
  BY <1>3 DEF Stream
<1>6. p.msg = begun /\ p.seq = rxQp.expected
  BY <1>1, <1>5 DEF Contiguous
<1>7. p.size \in Nat \ {0} /\ p.seq \in Nat /\ p.seq + p.size \in 1 .. conf.size
  BY <1>1, <1>4, FittingType
<1> DEFINE e == p.seq + p.size
<1>8. InOrder(q, p)
  BY <1>2, <1>6 DEF InOrder
<1>9. rxQp' = [q EXCEPT !.expected = e]
  BY <1>2, <1>8 DEF ReceiverCheckSeq
<1>10. rxQp'.expected = e /\ rxQp'.wait = FALSE
  BY <1>2, <1>9 DEF LosslessInv, RxQp
<1>11. e \in Nat /\ e > rxQp.expected /\ e > got[begun] /\ rxQp.expected \in Nat
  BY <1>4, <1>5, <1>6, <1>7
<1>12. got'[begun] = e /\ \A m \in Messages : m # begun => got'[m] = got[m]
  <2>1. got' = [m \in Messages |-> Gathered(m, p)]
    BY <1>2, <1>8
  <2>2. Gathered(begun, p) = e
    BY <1>4, <1>5, <1>6, <1>11 DEF Gathered
  <2>3. \A m \in Messages : m # begun => Gathered(m, p) = got[m]
    BY <1>6 DEF Gathered
  <2> QED BY <1>4, <2>1, <2>2, <2>3
<1>13. Increasing(acks', e)
  <2>1. \A i \in 1 .. Len(acks) : acks[i].seq \in Nat
    <3> SUFFICES ASSUME NEW i \in 1 .. Len(acks) PROVE acks[i].seq \in Nat
      OBVIOUS
    <3>1. acks[i] \in Ack
      BY <1>4
    <3> QED BY <1>4, <3>1 DEF Ack
  <2> HIDE DEF e
  <2>2. /\ Increasing(acks, e)
        /\ Increasing(Append(acks, [seq |-> e, nack |-> FALSE]), e)
    BY <1>4, <1>5, <1>11, <2>1, IncreasingAppend
  <2>3. Answer(q, p) \in {<<[seq |-> e, nack |-> FALSE]>>, << >>}
    BY <1>2, <1>8, <1>10 DEF Answer
  <2>4. acks' = acks \/ acks' = Append(acks, [seq |-> e, nack |-> FALSE])
    <3> DEFINE a == [seq |-> e, nack |-> FALSE]
    <3>1. a \in [seq : {e}, nack : {FALSE}]
      OBVIOUS
    <3> HIDE DEF a
    <3>2. acks \o <<a>> = Append(acks, a) /\ acks \o << >> = acks
      BY <1>4
    <3> QED BY <1>2, <2>3, <3>2 DEF a
  <2> QED BY <2>2, <2>4
<1>14. Contiguous(data', e, snd_nxt[begun])
  BY <1>1, <1>4, <1>5, ContiguousTail
<1>15. \A i \in 1 .. Len(data') : data'[i].msg = begun
  <2>1. /\ Len(data') = Len(data) - 1
        /\ \A i \in 1 .. Len(data) - 1 : data'[i] = data[i + 1]
    BY <1>1, <1>4, HeadAndTail
  <2> QED BY <1>1, <1>5, <2>1
<1> HIDE DEF e
<1>16. Stream'
  <2>1. snd_una[begun] <= e
    BY <1>4, <1>5, <1>11
  <2> QED BY <1>1, <1>5, <1>10, <1>12, <1>13, <1>14, <1>15, <2>1 DEF Stream
<1>17. Messages' = Messages
  BY <1>1 DEF Messages
<1>18. \A m \in Messages : Done(m)' => Done(m) /\ m # begun
  BY <1>1, <1>3, <1>4 DEF Done, Messages
<1>19. \A m \in Messages : m > begun => m # begun
  BY <1>4 DEF Messages
<1> QED BY <1>1, <1>3, <1>10, <1>12, <1>16, <1>17, <1>18, <1>19 DEF LosslessInv

LEMMA NextLossless ==
    ASSUME Shape, conf.lose = "nothing", LosslessInv, [Next]_vars
    PROVE  LosslessInv'
<1>1. CASE AddQueuePair
  BY <1>1, AddQueuePairLossless
<1>2. CASE AckArrives
  BY <1>2, AckArrivesLossless
<1>3. CASE DataArrives
  BY <1>3, DataArrivesLossless
<1>4. CASE NackTimerExpires
  BY <1>4 DEF NackTimerExpires, LosslessInv
<1>5. CASE Lose
  BY <1>5, LoseEffect
<1>6. ASSUME NEW m \in Messages, SendPacket(m) PROVE LosslessInv'
  BY <1>6, SendPacketLossless
<1>7. CASE UNCHANGED vars
  BY <1>7 DEF vars, sender, receiver, LosslessInv, Messages, Done, Stream, Quiet
<1> QED BY <1>1, <1>2, <1>3, <1>4, <1>5, <1>6, <1>7 DEF Next
-----------------------------------------------------------------------------
(***************************************************************************)
(* Anything may be lost, but there is one message.                         *)
(***************************************************************************)

LEMMA SingleTypes ==
    ASSUME Shape, conf.messages = 1
    PROVE  /\ conf \in Confs /\ conf.size \in Nat \ {0}
           /\ Messages = {1} /\ begun \in {0, 1} /\ (Done(1) <=> begun = 1 /\ ~live)
           /\ got[1] \in 0 .. conf.size /\ snd_una[1] \in 0 .. conf.size
           /\ rxQp \in RxQp /\ rxQp.expected \in 0 .. conf.size
<1>1. /\ conf \in Confs /\ conf.size \in Nat \ {0} /\ Messages = {1} /\ begun \in {0, 1}
  BY ConfTypes DEF Shape, TypeOK, Messages
<1>2. got[1] \in 0 .. conf.size /\ snd_una[1] \in 0 .. conf.size /\ rxQp \in RxQp
  BY <1>1 DEF Shape, TypeOK
<1>3. rxQp.expected \in 0 .. conf.size
  BY <1>2 DEF RxQp
<1>4. Done(1) <=> begun = 1 /\ ~live
  BY <1>1 DEF Done
<1> QED BY <1>1, <1>2, <1>3, <1>4

LEMMA SenderStepSingle ==
    ASSUME Shape, conf.messages = 1, SingleInv,
           AddQueuePair \/ \E m \in Messages : SendPacket(m)
    PROVE  SingleInv'
<1>1. /\ conf \in Confs /\ begun \in {0, 1} /\ (Done(1) <=> begun = 1 /\ ~live)
      /\ Messages = {1} /\ live \in BOOLEAN
  BY SingleTypes DEF Shape, TypeOK
<1>2. UNCHANGED <<conf, snd_una, rxQp, got, acks>>
  BY DEF AddQueuePair, SendPacket, receiver
<1>3. CASE AddQueuePair
  <2>1. begun = 0 /\ begun' = 1 /\ live' = TRUE
    BY <1>1, <1>3 DEF AddQueuePair
  <2> QED BY <1>1, <1>2, <2>1 DEF SingleInv, Done, UpTo, Ack
<1>4. CASE \E m \in Messages : SendPacket(m)
  <2>1. begun = 1 /\ begun' = begun /\ live' = live
    BY <1>1, <1>4 DEF SendPacket
  <2> QED BY <1>1, <1>2, <2>1 DEF SingleInv, Done, UpTo, Ack
<1> QED BY <1>3, <1>4

LEMMA AckArrivesSingle ==
    ASSUME Shape, conf.messages = 1, SingleInv, AckArrives
    PROVE  SingleInv'
<1>1. /\ conf \in Confs /\ conf.size \in Nat \ {0} /\ begun \in {0, 1}
      /\ (Done(1) <=> begun = 1 /\ ~live)
      /\ got[1] \in 0 .. conf.size /\ snd_una[1] \in 0 .. conf.size
      /\ 1 \in Messages /\ live \in BOOLEAN
  BY SingleTypes DEF Shape, TypeOK
<1>2. /\ acks # << >> /\ acks' = Tail(acks)
      /\ UNCHANGED <<conf, begun, got, data, lost>>
  BY AckEffect
<1>3. acks \in Seq(UpTo(got[1])) =>
         acks' \in Seq(UpTo(got[1])) /\ Head(acks) \in UpTo(got[1])
  BY <1>2, HeadAndTail
<1>4. UpTo(got[1])' = UpTo(got[1])
  BY <1>2 DEF UpTo, Ack
<1>5. CASE ~live
  <2>1. UNCHANGED <<live, snd_una, rxQp>>
    BY <1>5, AckEffect
  <2> QED BY <1>1, <1>2, <1>3, <1>4, <2>1 DEF SingleInv, Done
<1>6. CASE live
  <2>1. PICK una \in 0 .. conf.size :
          /\ begun \in Messages
          /\ una <= snd_una[begun] \/ una <= Head(acks).seq
          /\ snd_una' = [snd_una EXCEPT ![begun] = una]
          /\ IF una >= conf.size
             THEN live' = FALSE /\ finished' = finished + 1 /\ rxQp' = NoRxQp
             ELSE UNCHANGED <<live, finished, rxQp>>
    BY <1>6, AckEffect
  <2>2. begun = 1 /\ ~Done(1)
    BY <1>1, <1>6, <2>1 DEF Messages
  <2>3. /\ snd_una[1] <= got[1] /\ rxQp.expected <= got[1]
        /\ acks \in Seq(UpTo(got[1]))
    BY <2>2 DEF SingleInv
  <2>4. Head(acks).seq <= got[1] /\ Head(acks).seq \in Nat
    BY <1>1, <1>3, <2>3 DEF UpTo, Ack
  <2>5. una <= got[1] /\ snd_una'[1] = una
    BY <1>1, <2>1, <2>2, <2>3, <2>4 DEF Shape, TypeOK
  <2>6. CASE una < conf.size
    <3>1. UNCHANGED <<live, rxQp>>
      BY <1>1, <2>1, <2>6
    <3>2. ~Done(1)'
      BY <1>2, <2>2, <3>1 DEF Done
    <3> QED BY <1>2, <1>3, <1>4, <2>2, <2>3, <2>5, <2>6, <3>1, <3>2 DEF SingleInv
  <2>7. CASE una >= conf.size
    <3>1. live' = FALSE
      BY <2>1, <2>7
    <3>2. Done(1)' /\ got[1] = conf.size
      BY <1>1, <1>2, <2>2, <2>5, <2>7, <3>1 DEF Done
    <3> QED BY <1>2, <2>2, <3>2 DEF SingleInv
  <2> QED BY <1>1, <2>6, <2>7
<1> QED BY <1>5, <1>6

\* What is expected, and answered, has been received.
LEMMA DataArrivesSingle ==
    ASSUME Shape, conf.messages = 1, SingleInv, DataArrives
    PROVE  SingleInv'
<1> DEFINE p == Head(data)
<1>1. /\ conf \in Confs /\ conf.size \in Nat \ {0} /\ begun \in {0, 1}
      /\ (Done(1) <=> begun = 1 /\ ~live)
      /\ got[1] \in 0 .. conf.size /\ 1 \in Messages /\ Messages = {1}
      /\ rxQp.expected \in 0 .. conf.size
  BY SingleTypes
<1>2. /\ data # << >> /\ p \in Fitting
      /\ UNCHANGED <<conf, begun, live, snd_una, snd_nxt, finished, lost>>
  BY DataEffect
<1>3. PICK q \in RxQp :
        /\ q.expected = rxQp.expected
        /\ rxQp' = ReceiverCheckSeq(q, p)
        /\ acks' = acks \o Answer(q, p)
        /\ got' = IF InOrder(q, p) THEN [m \in Messages |-> Gathered(m, p)] ELSE got
  BY DataEffect
<1> HIDE DEF p
<1>4. begun = 1 /\ (Done(1)' <=> Done(1))
  BY <1>1, <1>2 DEF SingleInv, Done
<1>5. Gathered(1, p) \in got[1] .. conf.size
  BY <1>1, <1>2, GatheredType
<1>6. got'[1] \in got[1] .. conf.size
  BY <1>1, <1>3, <1>5
<1>7. CASE Done(1)
  <2>1. got'[1] = conf.size
    BY <1>1, <1>6, <1>7 DEF SingleInv
  <2> QED BY <1>2, <1>4, <1>7, <2>1 DEF SingleInv
<1>8. CASE ~Done(1)
  <2>1. /\ snd_una[1] <= got[1] /\ snd_una[1] < conf.size
        /\ rxQp.expected <= got[1] /\ acks \in Seq(UpTo(got[1]))
    BY <1>8 DEF SingleInv
  <2>2. /\ p.seq \in Nat /\ p.size \in Nat \ {0} /\ p.seq + p.size \in 1 .. conf.size
        /\ p.msg = 1
    BY <1>1, <1>2, FittingType
  <2>3. rxQp'.expected \in 0 .. got'[1]
    <3>1. CASE InOrder(q, p)
      <4>1. rxQp'.expected = p.seq + p.size
        BY <1>3, <3>1 DEF ReceiverCheckSeq, RxQp
      <4>2. p.seq <= got[1]
        BY <1>3, <2>1, <3>1 DEF InOrder
      <4>3. got'[1] = Gathered(1, p)
        BY <1>1, <1>3, <3>1
      <4>4. Gathered(1, p) >= p.seq + p.size
        BY <1>1, <2>2, <4>2 DEF Gathered
      <4> QED BY <1>1, <1>5, <2>2, <4>1, <4>3, <4>4
    <3>2. CASE ~InOrder(q, p)
      <4>1. Chunked(q.expected) \in 0 .. q.expected
        BY <1>1, <1>3, ChunkedType
      <4>2. rxQp'.expected \in {q.expected, Chunked(q.expected)}
        BY <1>3, <3>2 DEF ReceiverCheckSeq, RxQp
      <4>3. got' = got
        BY <1>3, <3>2
      <4> QED BY <1>1, <1>3, <2>1, <4>1, <4>2, <4>3
    <3> QED BY <3>1, <3>2
  <2> DEFINE r == ReceiverCheckSeq(q, p)
             up == UpTo(got'[1])
  <2>4. r.expected \in 0 .. got'[1] /\ r.expected \in 0 .. conf.size
    BY <1>1, <1>3, <1>6, <2>3
  <2> HIDE DEF r
  <2>5. Answer(q, p) \in Seq(up)
    <3> DEFINE yes == [seq |-> r.expected, nack |-> FALSE]
               no  == [seq |-> r.expected, nack |-> TRUE]
    <3>1. Answer(q, p) \in {<<yes>>, <<no>>, << >>}
      BY DEF Answer, r
    <3>2. yes \in up /\ no \in up
      BY <2>4 DEF UpTo, Ack
    <3> HIDE DEF yes, no, up
    <3>3. <<yes>> \in Seq(up) /\ <<no>> \in Seq(up) /\ << >> \in Seq(up)
      BY <3>2
    <3> QED BY <3>1, <3>3
  <2>6. acks \in Seq(up)
    <3>1. UpTo(got[1]) \subseteq up
      BY <1>1, <1>6 DEF UpTo, Ack
    <3> QED BY <2>1, <3>1, SeqMonotonic
  <2>7. acks' \in Seq(up)
    <3> HIDE DEF up
    <3> QED BY <1>3, <2>5, <2>6, ConcatProperties
  <2>8. UpTo(got[1])' = up
    BY <1>2 DEF UpTo, Ack
  <2>9. snd_una[1] <= got'[1]
    BY <1>1, <1>6, <2>1, SingleTypes
  <2>10. rxQp'.expected <= got'[1]
    BY <1>1, <1>6, <2>3
  <2> HIDE DEF up
  <2> QED BY <1>2, <1>4, <1>8, <2>1, <2>7, <2>8, <2>9, <2>10 DEF SingleInv
<1> QED BY <1>7, <1>8

LEMMA NextSingle ==
    ASSUME Shape, conf.messages = 1, SingleInv, [Next]_vars
    PROVE  SingleInv'
<1>1. CASE AddQueuePair \/ \E m \in Messages : SendPacket(m)
  BY <1>1, SenderStepSingle
<1>2. CASE AckArrives
  BY <1>2, AckArrivesSingle
<1>3. CASE DataArrives
  BY <1>3, DataArrivesSingle
<1>4. CASE NackTimerExpires
  <2>1. /\ rxQp' = [rxQp EXCEPT !.wait = FALSE]
        /\ UNCHANGED <<conf, begun, live, snd_una, snd_nxt, finished, got, data, acks, lost>>
    BY <1>4 DEF NackTimerExpires, sender
  <2>2. rxQp'.expected = rxQp.expected
    BY <2>1, SingleTypes DEF RxQp
  <2> QED BY <2>1, <2>2 DEF SingleInv, Done, UpTo, Ack
<1>5. CASE Lose
  <2>1. /\ UNCHANGED <<conf, begun, live, snd_una, snd_nxt, finished, rxQp, got>>
        /\ \/ /\ acks' = acks
              /\ \E i \in 1 .. Len(data) : data' = RemoveAt(data, i)
           \/ /\ data' = data
              /\ \E i \in 1 .. Len(acks) : acks' = RemoveAt(acks, i)
    BY <1>5, LoseEffect
  <2>2. begun = 0 => data' = << >>
    BY <2>1 DEF SingleInv
  <2>3. acks \in Seq(UpTo(got[1])) => acks' \in Seq(UpTo(got[1]))
    BY <2>1, RemoveAtType
  <2> QED BY <2>1, <2>2, <2>3 DEF SingleInv, Done, UpTo, Ack
<1>6. CASE UNCHANGED vars
  BY <1>6 DEF vars, sender, receiver, SingleInv, Done, UpTo, Ack
<1> QED BY <1>1, <1>2, <1>3, <1>4, <1>5, <1>6 DEF Next
-----------------------------------------------------------------------------
(***************************************************************************)
(* The theorems.                                                           *)
(***************************************************************************)

LEMMA NextShape == Shape /\ [Next]_vars => Shape'
<1> SUFFICES ASSUME Shape, [Next]_vars PROVE Shape'
  OBVIOUS
<1>1. CASE UNCHANGED vars
  BY <1>1 DEF vars, sender, receiver, Shape, TypeOK, Messages, Packet, Ack, RxQp,
              Fitting, Counted, Fresh
<1>2. ASSUME NEW m \in Messages, SendPacket(m) PROVE Shape'
  BY <1>2, SendPacketShape
<1> QED BY <1>1, <1>2, AddQueuePairShape, AckArrivesShape, DataArrivesShape,
           NackTimerShape, LoseShape DEF Next

LEMMA ConfKept == [Next]_vars => conf' = conf
BY DEF Next, AddQueuePair, AckArrives, DataArrives, NackTimerExpires, Lose, SendPacket, vars

LEMMA TransportInductive == TransportInv /\ [Next]_vars => TransportInv'
<1> SUFFICES ASSUME TransportInv, [Next]_vars PROVE TransportInv'
  OBVIOUS
<1>1. Shape /\ Shape'
  BY NextShape DEF TransportInv
<1>2. conf' = conf
  BY ConfKept
<1>3. conf.lose = "nothing" => LosslessInv'
  BY <1>1, NextLossless DEF TransportInv
<1>4. conf.messages = 1 => SingleInv'
  BY <1>1, NextSingle DEF TransportInv
<1> QED BY <1>1, <1>2, <1>3, <1>4 DEF TransportInv

LEMMA TransportAlways == Spec => []TransportInv
BY InitTransport, TransportInductive, PTL DEF Spec

\* Every number of bytes stays within its message, at both ends and on the way,
\* and no message is reported that was not begun, with any losses.
THEOREM TransportTypes == Spec => []TypeOK
<1>1. TransportInv => TypeOK
  BY DEF TransportInv, Shape
<1> QED BY <1>1, TransportAlways, PTL

\* Without loss nothing is under way between two messages (QpComplete), so the
\* next queue pair may use the same ports.
THEOREM QuietBetweenMessages == Spec => []QuietAtEnd
<1>1. TransportInv => QuietAtEnd
  BY DEF TransportInv, LosslessInv, Quiet, QuietAtEnd
<1> QED BY <1>1, TransportAlways, PTL

\* The configurations in which packets can only be taken for what they are.
Safe(c) == c.lose = "nothing" \/ c.messages = 1

LEMMA AckedWhenSafe ==
    ASSUME TransportInv, Safe(conf)
    PROVE  AckedIsReceived
<1> SUFFICES ASSUME live
             PROVE  /\ snd_una[begun] <= got[begun]
                    /\ \A i \in 1 .. Len(acks) : acks[i].seq <= got[begun]
  BY DEF AckedIsReceived
<1>1. CASE conf.lose = "nothing"
  BY <1>1 DEF TransportInv, LosslessInv, Stream, Increasing
<1>2. CASE conf.messages = 1
  <2>1. SingleInv /\ Shape
    BY <1>2 DEF TransportInv
  <2>2. begun = 1 /\ ~Done(1)
    BY <1>2, <2>1, SingleTypes DEF Shape, Counted
  <2>3. acks \in Seq(UpTo(got[1])) /\ snd_una[1] <= got[1]
    BY <2>1, <2>2 DEF SingleInv
  <2>4. ASSUME NEW i \in 1 .. Len(acks) PROVE acks[i].seq <= got[1]
    <3>1. acks[i] \in UpTo(got[1])
      BY <2>3
    <3> QED BY <3>1 DEF UpTo
  <2> QED BY <2>2, <2>3, <2>4
<1> QED BY <1>1, <1>2 DEF Safe

\* The sender never takes for delivered what the receiver has not got
\* (ReceiveAck), without loss or with any losses of a single message.
THEOREM AckedWasReceived == Spec /\ Safe(conf) => []AckedIsReceived
<1>1. Safe(conf) /\ [Next]_vars => Safe(conf)'
  BY ConfKept DEF Safe
<1>2. TransportInv /\ Safe(conf) => AckedIsReceived
  BY AckedWhenSafe
<1> QED BY <1>1, <1>2, TransportAlways, PTL DEF Spec
-----------------------------------------------------------------------------
(***************************************************************************)
(* The transport implements Delivery.                                      *)
(***************************************************************************)

LEMMA BeginsMessage ==
    ASSUME Shape, AddQueuePair
    PROVE  D!Begin
<1>1. begun' = begun + 1 /\ finished' = finished /\ begun = finished
  BY DEF AddQueuePair, Shape, Counted
<1>2. Received' = Received
  BY DEF AddQueuePair, receiver, Received, Messages
<1> QED BY <1>1, <1>2 DEF D!Begin, Received

\* The ACK that finishes a message finds it received in full.
LEMMA FinishesMessage ==
    ASSUME TransportInv, Safe(conf), AckArrives
    PROVE  D!Finish \/ UNCHANGED <<begun, Received, finished>>
<1>1. /\ acks # << >> /\ Head(acks) \in Ack
      /\ UNCHANGED <<conf, begun, got, data, lost>>
  BY AckEffect DEF TransportInv
<1>2. Received' = Received
  BY <1>1 DEF Received, Messages
<1>3. CASE ~live
  BY <1>1, <1>2, <1>3, AckEffect DEF TransportInv
<1>4. CASE live
  <2>1. PICK una \in 0 .. conf.size :
          /\ begun \in Messages
          /\ una <= snd_una[begun] \/ una <= Head(acks).seq
          /\ IF una >= conf.size
             THEN live' = FALSE /\ finished' = finished + 1 /\ rxQp' = NoRxQp
             ELSE UNCHANGED <<live, finished, rxQp>>
    BY <1>4, AckEffect DEF TransportInv
  <2>2. /\ conf \in Confs /\ conf.size \in Nat /\ got[begun] \in 0 .. conf.size
        /\ snd_una[begun] \in 0 .. conf.size
        /\ acks \in Seq(Ack) /\ begun \in Nat /\ finished = begun - 1
    <3>1. conf \in Confs /\ conf.size \in Nat
      BY ConfTypes DEF TransportInv, Shape, TypeOK
    <3>2. begun \in Nat /\ finished = begun - 1
      BY <1>4, <2>1, <3>1 DEF TransportInv, Shape, Counted, Messages
    <3> QED BY <2>1, <3>1, <3>2 DEF TransportInv, Shape, TypeOK
  <2>3. snd_una[begun] <= got[begun] /\ Head(acks).seq <= got[begun]
    <3>1. Head(acks) = acks[1] /\ 1 \in 1 .. Len(acks)
      BY <1>1, <2>2, HeadAndTail
    <3> QED BY <1>4, <3>1, AckedWhenSafe DEF AckedIsReceived
  <2>4. CASE una >= conf.size
    <3>1. Head(acks).seq \in 0 .. conf.size
      BY <1>1 DEF Ack
    <3>2. begun \in Received
      BY <2>1, <2>2, <2>3, <2>4, <3>1 DEF Received
    <3>3. finished' = begun /\ begun > finished
      BY <2>1, <2>2, <2>4
    <3> QED BY <1>1, <1>2, <3>2, <3>3 DEF D!Finish, Received
  <2>5. CASE ~(una >= conf.size)
    BY <1>1, <1>2, <2>1, <2>5
  <2> QED BY <2>4, <2>5
<1> QED BY <1>3, <1>4

\* Only the live message can come to be received.
LEMMA DeliversMessage ==
    ASSUME TransportInv, Safe(conf), DataArrives
    PROVE  D!Deliver \/ UNCHANGED <<begun, Received, finished>>
<1> DEFINE p == Head(data)
<1>1. /\ data # << >> /\ p \in Fitting /\ p = data[1] /\ Len(data) \in Nat \ {0}
      /\ UNCHANGED <<conf, begun, live, snd_una, snd_nxt, finished, lost>>
  BY DataEffect DEF TransportInv
<1>2. got' = [m \in Messages |-> Gathered(m, p)] \/ got' = got
  BY DataEffect DEF TransportInv
<1> HIDE DEF p
<1>3. /\ conf \in Confs /\ conf.size \in Nat \ {0} /\ begun \in Nat
      /\ \A m \in Messages : got[m] \in 0 .. conf.size
  BY ConfTypes DEF TransportInv, Shape, TypeOK
<1>4. \A m \in Messages : got'[m] \in got[m] .. conf.size /\ (got'[m] # got[m] => m = p.msg)
  <2>1. \A m \in Messages : /\ Gathered(m, p) \in got[m] .. conf.size
                            /\ Gathered(m, p) # got[m] => m = p.msg
    BY <1>1, GatheredType DEF TransportInv
  <2> QED BY <1>2, <1>3, <2>1
<1>5. \A m \in Messages : got'[m] # got[m] => m = begun /\ live /\ begun > finished
  <2>1. CASE conf.lose = "nothing"
    <3>1. live /\ p.msg = begun
      BY <1>1, <2>1 DEF TransportInv, LosslessInv, Quiet, Stream
    <3> QED BY <1>3, <1>4, <3>1 DEF TransportInv, Shape, Counted
  <2>2. CASE conf.messages = 1
    <3>1. SingleInv /\ Shape
      BY <2>2 DEF TransportInv
    <3>2. begun = 1 /\ Messages = {1} /\ (~live => got[1] = conf.size)
      BY <1>1, <2>2, <3>1, SingleTypes DEF SingleInv
    <3>3. got'[1] # got[1] => live
      BY <1>3, <1>4, <3>2
    <3> QED BY <3>1, <3>2, <3>3 DEF Shape, Counted
  <2> QED BY <2>1, <2>2 DEF Safe
<1>6. Messages' = Messages /\ conf' = conf
  BY <1>1 DEF Messages
<1>7. Received \subseteq Received'
  BY <1>3, <1>4, <1>6 DEF Received
<1>8. CASE Received' = Received
  BY <1>1, <1>8
<1>9. CASE Received' # Received
  <2>1. PICK m \in Messages : m \in Received' /\ m \notin Received
    BY <1>6, <1>7, <1>9 DEF Received
  <2>2. m = begun /\ live /\ begun > finished
    BY <1>5, <1>6, <2>1 DEF Received
  <2>3. \A k \in Messages : k \in Received' /\ k \notin Received => k = begun
    BY <1>5, <1>6 DEF Received
  <2>4. Received' = Received \cup {begun}
    BY <1>6, <1>7, <2>1, <2>2, <2>3 DEF Received
  <2> QED BY <1>1, <2>1, <2>2, <2>4 DEF D!Deliver, Received
<1> QED BY <1>8, <1>9

LEMMA DeliveryStep ==
    ASSUME TransportInv, Safe(conf), [Next]_vars
    PROVE  [D!Next]_<<begun, Received, finished>>
<1>1. CASE AddQueuePair
  BY <1>1, BeginsMessage DEF TransportInv, D!Next
<1>2. CASE AckArrives
  BY <1>2, FinishesMessage DEF D!Next
<1>3. CASE DataArrives
  BY <1>3, DeliversMessage DEF D!Next
<1>4. CASE NackTimerExpires \/ Lose \/ \E m \in Messages : SendPacket(m)
  <2>1. UNCHANGED <<begun, finished, got, conf>>
    BY <1>4 DEF NackTimerExpires, Lose, SendPacket, sender, receiver
  <2> QED BY <2>1 DEF Received, Messages
<1>5. CASE UNCHANGED vars
  BY <1>5 DEF vars, sender, receiver, Received, Messages
<1> QED BY <1>1, <1>2, <1>3, <1>4, <1>5 DEF Next

\* Without loss or with any losses of a single message, each message is finished
\* once, in its turn, and only when all of it has arrived (QpComplete).
THEOREM DeliveredOnce == Spec /\ Safe(conf) => ImplementsDelivery
<1>1. Init => D!Init
  <2> SUFFICES ASSUME Init PROVE D!Init
    OBVIOUS
  <2>1. conf.size \in Nat \ {0}
    BY ConfTypes DEF Init
  <2>2. Received = {}
    BY <2>1 DEF Init, Received
  <2> QED BY <2>2 DEF D!Init, Received, Init
<1>2. Safe(conf) /\ [Next]_vars => Safe(conf)'
  BY ConfKept DEF Safe
<1>3. TransportInv /\ Safe(conf) /\ [Next]_vars
         => [Separate => D!Next]_<<begun, Received, finished>>
  BY DeliveryStep
<1> QED BY <1>1, <1>2, <1>3, TransportAlways, PTL DEF Spec, ImplementsDelivery
=============================================================================
