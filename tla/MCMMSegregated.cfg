CONSTANTS
  HEAP_SIZES <- MC_HEAP_SIZES_INIT_FAILS
  CHUNK_HI <- MC_CHUNK_HI
  CHUNK_LO <- MC_CHUNK_LO
  Requests <- MC_Requests
  CallocArgs <- MC_CallocArgs
  SIZE_T_RANGE <- MC_SIZE_T_RANGE
  FreshBits <- MC_FreshZero
SPECIFICATION Spec
CONSTRAINT BeforeCase2
INVARIANT TypeOK
INVARIANT HeapWellFormedBeforeCase2
INVARIANT PrevAllocBitMatchesBeforeCase2
INVARIANT NoAdjacentFreeBeforeCase2
INVARIANT FreeListsMatchHeapBeforeCase2
INVARIANT HeldBlocksAllocatedBeforeCase2
INVARIANT CallsReturnBeforeCase2
PROPERTY HandoutIsFreshBeforeCase2
 
PROPERTY RefinesHeapBlocks
PROPERTY ReallocPreservesPayloadBeforeCase2
INVARIANT VerboseDumpShowsHeldBlocksBeforeCase2
