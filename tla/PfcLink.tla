------------------------------ MODULE PfcLink ------------------------------
(***************************************************************************)
(* One link into the switch of SwitchMmu.tla, with the time it takes: the  *)
(* device at the other end sends at most one packet per slot, the time of  *)
(* one packet, and what is sent spends Delay slots on the link (a packet,  *)
(* which is stored and forwarded, one more).  A PFC frame is too short to  *)
(* take time itself, but waits for the packet that is being transmitted;   *)
(* and if ACK_HIGH_PRIO is set, for the ACKs and NACKs before it in queue  *)
(* 0, which is first in, first out, of which some may be as much as Ahead  *)
(* slots long.  Nothing in the code bounds them: Ahead is an assumption.   *)
(* Times are rounded down to slots: what falls in one slot happens in any  *)
(* order, and a frame, which waits a fraction of a slot for the packet,    *)
(* spends from Delay to Delay + 1 + Ahead of them.  The other ports of the *)
(* switch come and go without regard to time.                              *)
(***************************************************************************)
EXTENDS SwitchMmu

CONSTANTS Link,      \* the port whose link is timed
          Delay,     \* delay of the link, in slots
          Ahead      \* the slots that ACKs in queue 0 may take before a frame

ASSUME LinkAssumption == Link \in Port /\ Delay \in Nat /\ Ahead \in Nat

VARIABLES sent,      \* a packet was sent in this slot
          flight,    \* for each packet on the link, the slots until it arrives
          due        \* for each frame of frames[Link], the slots until it arrives

linkVars == <<sent, flight, due>>

LinkInit == Init /\ sent = FALSE /\ flight = {} /\ due = << >>

\* Faulty: m_paused is not tested.
SendThoughStopped ==
    /\ ~sent
    /\ sent' = TRUE
    /\ flight' = flight \cup {Delay + 1}
    /\ UNCHANGED <<vars, due>>

\* DequeueAndTransmit of the device at the other end, which always has data.
Send ==
    /\ stopped[Link] = 0
    /\ ~sent
    /\ sent' = TRUE
    /\ flight' = flight \cup {Delay + 1}
    /\ UNCHANGED <<vars, due>>

\* A frame that SendPfc queued takes its place in queue 0, behind the frames
\* that are under way and such ACKs as there are.
Latest == Delay + 1 + Ahead
Earliest == IF due = << >> THEN Delay
            ELSE IF due[Len(due)] > Delay THEN due[Len(due)] ELSE Delay
FramesFollow ==
    \/ frames'[Link] = frames[Link] /\ UNCHANGED due
    \/ /\ frames'[Link] # frames[Link]
       /\ \E t \in Earliest .. Latest : due' = Append(due, t)

PacketArrives ==
    /\ 0 \in flight
    /\ flight' = flight \ {0}
    /\ \E s \in Sizes : Receive(Link, s)
    /\ FramesFollow
    /\ UNCHANGED sent

PacketLeaves ==
    /\ \E s \in Sizes : Dequeue(Link, s)
    /\ FramesFollow
    /\ UNCHANGED <<sent, flight>>

FrameArrives ==
    /\ due # << >>
    /\ Head(due) = 0
    /\ PfcArrives(Link)
    /\ due' = Tail(due)
    /\ UNCHANGED <<sent, flight>>

OtherPort(p) ==
    /\ \/ \E s \in Sizes : Receive(p, s) \/ Dequeue(p, s)
       \/ PfcArrives(p)
    /\ Len(frames'[p]) <= MaxFrames
    /\ UNCHANGED linkVars

Tick ==
    /\ 0 \notin flight
    /\ \A i \in 1..Len(due) : due[i] # 0
    /\ sent' = FALSE
    /\ flight' = {t - 1 : t \in flight}
    /\ due' = [i \in 1..Len(due) |-> due[i] - 1]
    /\ UNCHANGED vars

LinkNext == \/ Send \/ PacketArrives \/ PacketLeaves \/ FrameArrives \/ Tick
            \/ \E p \in Port \ {Link} : OtherPort(p)

LinkSpec == LinkInit /\ [][LinkNext]_<<vars, linkVars>>

\* Time passes, what is due arrives, and a queued packet is transmitted: the
\* device behind the queue is not paused for ever.
FairLinkSpec ==
    /\ LinkSpec
    /\ WF_<<vars, linkVars>>(Tick)
    /\ WF_<<vars, linkVars>>(PacketArrives)
    /\ WF_<<vars, linkVars>>(FrameArrives)
    /\ WF_<<vars, linkVars>>(PacketLeaves)
-----------------------------------------------------------------------------
\* The shape of the link: at most one packet per slot of its length.
LinkTypeOK ==
    /\ sent \in BOOLEAN
    /\ flight \subseteq 0..Delay + 1
    /\ Len(due) = Len(frames[Link])
    /\ \A i \in 1..Len(due) : due[i] \in 0..Latest

\* The fabric is lossless: when a packet arrives, whatever the other end sent
\* before the pause reached it, the headroom still has room for it and
\* CheckIngressAdmission does not drop it, as long as no frame waits for more
\* ACKs than Ahead.
NoDrop == 0 \in flight => \A s \in Sizes : CheckIngressAdmission(Link, s)

\* However the frames of the link race with its packets and with the buffer
\* that the other ports take and give back, the other end may go on in time.
Resumes == stopped[Link] = 1 ~> stopped[Link] = 0
=============================================================================
