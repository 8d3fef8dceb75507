CONSTANTS
  HEAP_SIZES <- MC_HEAP_SIZES
  CHUNK_HI <- MC_CHUNK_HI
  CHUNK_LO <- MC_CHUNK_LO
  Requests <- MC_Requests
  CallocArgs <- MC_CallocArgs
  SIZE_T_RANGE <- MC_SIZE_T_RANGE
  FreshBits <- MC_FreshZero
SPECIFICATION Spec
INVARIANT ListEntryIsSpecClass
CHECK_DEADLOCK FALSE
