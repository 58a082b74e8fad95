CONSTANTS
  N = 4
  Algs = {1, 2}
SPECIFICATION FairSpec
INVARIANTS TypeOK SendTargetValid ReceivesMatchSends BoundedSkew CompletionMeansFinished
PROPERTIES Termination ImplementsRingPass
CHECK_DEADLOCK FALSE
