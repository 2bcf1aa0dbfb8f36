CONSTANTS
  PAGE = 4
  HDR = 2
  MIN_SIZE = 1
  INIT_SIZE = 16
  GROW_SIZE = 4
  SLAB_SIZES <- TwoClasses
  NFrames = 4
  Requests = {2, 3, 9}
SPECIFICATION Spec
INVARIANTS TypeOK FreeListExact UsageExact
PROPERTY TakesBestFit
\* A panic stops the kernel, and the model stops at damaged memory.
CHECK_DEADLOCK FALSE
