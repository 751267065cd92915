SPECIFICATION FairSpec
CONSTANTS
  MaxBuffer = 3
  MaxSteps = 2
  SeqModulus = 4
  MaxInputs = 7
INVARIANTS TypeOK InputOrder DropsOldest NothingLost NoZeroInput 
PROPERTIES EventuallyConsumed
