CONSTANTS
  DP = 2
  PP = 3
  Confs <- WorkingConfs
  Together = 2
SPECIFICATION FairSpec
INVARIANTS TypeOK OneActivity GroupTogether ChunksConserved BarrierComplete
PROPERTIES Termination ImplementsPipeline
CHECK_DEADLOCK FALSE
