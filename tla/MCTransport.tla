---------------------------- MODULE MCTransport ----------------------------
(* Packets of two bytes, chunks of four.  Queue pairs without loss, with    *)
(* and without a window; with losses that what follows shows, one message   *)
(* or a window of two packets; with losses of any packets, after which a    *)
(* message may never be finished.                                           *)
EXTENDS Transport

Conf == [messages |-> 2, size |-> 8, win |-> 4, chunk |-> 4, ackInterval |-> 1,
         backToZero |-> FALSE, lose |-> "nothing", losses |-> 0]

PassingConfs ==
  {[Conf EXCEPT !.messages = 3, !.size = 5],
   [Conf EXCEPT !.size = 5, !.win = 0, !.ackInterval = 3],
   [Conf EXCEPT !.backToZero = TRUE],
   [Conf EXCEPT !.lose = "inside", !.losses = 1, !.size = 10],
   [Conf EXCEPT !.lose = "inside", !.losses = 1, !.size = 7,
                !.messages = 1, !.win = 0],
   [Conf EXCEPT !.lose = "inside", !.losses = 1, !.backToZero = TRUE,
                !.messages = 1, !.win = 0],
   [Conf EXCEPT !.lose = "anything", !.losses = 3, !.size = 7, !.messages = 3]}

\* A window of three packets and one loss.
WindowConfs ==
  {[Conf EXCEPT !.lose = "inside", !.losses = 1, !.size = 12, !.win = 6,
                !.messages = 1]}
=============================================================================
