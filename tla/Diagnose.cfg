CONSTANTS
  Options <- WarmupsAndWindows
  Baseline = 5
  ConfirmCount = 1
  Files <- ShortAndLong
  OtherTraces <- TwoLate
  N = 4
  PThresh = 45
SPECIFICATION FairSpec
INVARIANTS StepsAreWhole ChangesApart BlameIsLocal
PROPERTIES DetectsPeriod Finishes
CHECK_DEADLOCK FALSE
