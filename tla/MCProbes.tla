------------------------------ MODULE MCProbes ------------------------------
(* Two threads.  Maps of one entry per side, so that they are full at once; *)
(* polls of two completions, of which the probe reads one.                  *)
EXTENDS Probes, TLC

SymbolNames == <<"ncclAllReduce", "ncclAllGather">>

ThreadSymmetry == Permutations(Threads)
=============================================================================
