CONSTANTS
  Confs <- PassingConfs
  Mtu = 2
  MaxFlight = 4
  Wrap = 65536
SPECIFICATION FairSpec
INVARIANTS QuietAtEnd
PROPERTIES Completes ImplementsDelivery
CHECK_DEADLOCK FALSE
