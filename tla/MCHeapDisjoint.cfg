CONSTANTS
  PAGE = 4
  HDR = 2
  MIN_SIZE = 1
  INIT_SIZE = 16
  GROW_SIZE = 8
  SLAB_SIZES <- TwoClasses
  NFrames = 2
  Requests = {3, 4, 9}
SPECIFICATION Spec
INVARIANT LiveDisjoint
\* A panic stops the kernel, and the model stops at damaged memory.
CHECK_DEADLOCK FALSE
