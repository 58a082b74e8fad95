---------------------------- MODULE MCHostDevice ----------------------------
(* Messages of two packets.  Three queue pairs without a window and with a   *)
(* window of one packet; two with rates of DCQCN, with an ACK to send or a   *)
(* pause; two with a pause and a NACK.                                       *)
EXTENDS HostDevice

Conf == [qps |-> 3, win |-> 0, mlx |-> FALSE, gaps |-> {1, 3},
         acks |-> 0, pauses |-> 0, nacks |-> 0]

PassingConfs ==
    {Conf,
     [Conf EXCEPT !.win = 1, !.gaps = {2}],
     [Conf EXCEPT !.qps = 2, !.win = 1, !.mlx = TRUE, !.acks = 1],
     [Conf EXCEPT !.qps = 2, !.win = 2, !.mlx = TRUE, !.pauses = 1],
     [Conf EXCEPT !.qps = 2, !.win = 2, !.pauses = 1, !.nacks = 1]}
=============================================================================
