CONSTANTS
  NoFrame = NoFrame
  None = None
  p1 = p1
  p2 = p2
  Producers = {p1, p2}
  U32Max = 100000
  ActiveFrameWindow = 1
  MaxFrames = 2
  MaxElapsed = 2
  Configs <- MCConfigs
  Display <- MCDisplay
  Secret <- MCSecret
SYMMETRY MCSymmetry
SPECIFICATION Spec
INVARIANT ShareTypeOK
INVARIANT AnswerIsCurrent
INVARIANT ListedSizeIsSent
INVARIANT BuffersCover
PROPERTY StaleMeansSilent
CHECK_DEADLOCK FALSE
