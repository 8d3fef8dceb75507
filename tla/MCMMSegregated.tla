--------------------------- MODULE MCMMSegregated ---------------------------
(* Bounds for checking MMSegregated.  CHUNK_HI stands for (1<<8) and      *)
(* CHUNK_LO for (1<<5), scaled down: CHUNKSIZE = 4 bytes, and mm_init's   *)
(* CHUNKSIZE/WSIZE expands to 12 - 8 \div 4 = 10 words, a first free      *)
(* block of 40 bytes.  mm_init's first mem_sbrk takes the 112 bytes of    *)
(* padding, 24 list heads, prologue and epilogue, so the break is 152     *)
(* after init; 168 bytes leave room for one extend_heap, and for it to    *)
(* fail; in 144 bytes mm_init's extend_heap fails, and later calls      *)
(* extend by 16 or 24 into the 32 bytes left.  Requests 8 and 16 give     *)
(* adjusted sizes 16 and 24, so blocks of classes 0, 1 and 2 (sizes 16,   *)
(* 24, and 32 to 48) occur.                                               *)
EXTENDS MMSegregated

MC_HEAP_SIZES == {168}
\* The main run: memlib built with either region.
MC_HEAP_SIZES_INIT_FAILS == {144, 168}
MC_CHUNK_HI == 12
MC_CHUNK_LO == 8
MC_Requests == {8, 16}
\* Fresh memory as the first mem_sbrk of a process returns it: zeroed.
MC_FreshZero == {0}
\* Fresh memory that held words of an earlier heap: bit 1 set.
MC_FreshLeftover == {2}

\* calloc(2, 3): 6 bytes, adjusted to 16; memset clears one word and half
\* of the next.
MC_CallocArgs == {<<2, 3>>}

\* A size_t no request comes near.
MC_SIZE_T_RANGE == 2 ^ 16
====
