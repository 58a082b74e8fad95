----------------------------- MODULE MCHybridCC -----------------------------
(* Configurations of HybridCC small enough to explore.                     *)
EXTENDS HybridCC

Conf(chunks, inflight, mode, train) ==
    [chunks |-> chunks, inflight |-> inflight, mode |-> mode, train |-> train]

\* Event-driven training and inference, with and without a tight limit, and
\* a static schedule of one chunk, the most it can run without overlap.
WorkingConfs == {Conf(2, 1, 0, TRUE), Conf(2, 100, 0, TRUE), Conf(2, 1, 0, FALSE),
                 Conf(1, 100, 1, TRUE)}

EventConf == {Conf(1, 100, 0, TRUE)}
=============================================================================
