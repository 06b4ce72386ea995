SPECIFICATION FairSpec
CONSTANTS
  Lines = 6
  Parts <- PartsOfLines
  MaxParts = 3
INVARIANTS
  
  RunsNoMixture
  NeverWedged

  
CHECK_DEADLOCK FALSE
