SPECIFICATION FairSpec
CONSTANTS
  a = a
  b = b
  None = None
PROPERTIES  LoopsEnd
CHECK_DEADLOCK FALSE
