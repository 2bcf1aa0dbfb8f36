SPECIFICATION Spec
VIEW FrameView
CONSTANTS
  p1 = p1
  p2 = p2
  Procs = {p1, p2}
  init = p1
  NFrames = 10
  NPages = 2
  Levels = 2
  Fan = 2
  Segments <- OnePage
  StackPages = 1
  MaxLen = 2
  MaxVmas = 2
INVARIANT Isolation
PROPERTIES MmapAllOrNothing ReapingGivesBack
