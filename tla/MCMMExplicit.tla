---------------------------- MODULE MCMMExplicit ----------------------------
(* Bounds for checking MMExplicit.  CHUNK_HI stands for (1<<9)+(1<<8)  *)
(* and CHUNK_LO for (1<<7), both scaled down: CHUNKSIZE = 16 bytes, and *)
(* mm_init's CHUNKSIZE/WSIZE expands to 8 + 8 \div 4 = 10 words, a first *)
(* free block of 40 bytes.  Requests 8 and 16 give adjusted sizes 16 and *)
(* 24, so splits, whole-block placements and all four coalesce cases    *)
(* occur.  mm_init leaves the break at 64; 80 bytes of heap leave room  *)
(* for extend_heap after init, and for it to fail.  A 56-byte region    *)
(* makes mm_init's extend_heap of 40 bytes fail after its mem_sbrk of   *)
(* 24: mm_init returns -1, which mm_malloc's lazy call ignores, and     *)
(* later calls extend by 16 or 24 until the 32 bytes left are used.     *)
EXTENDS MMExplicit

MC_HEAP_SIZES == {80}
\* The main run: memlib built with either region.
MC_HEAP_SIZES_INIT_FAILS == {56, 80}
MC_CHUNK_HI == 8
MC_CHUNK_LO == 8
MC_Requests == {8, 16}

\* calloc(2, 3) and calloc(3, 4): 6 and 12 bytes, adjusted to 16 and 24;
\* 6 bytes clear one word and half of the next, 12 bytes three of the
\* four payload words of a 24-byte block.
MC_CallocArgs == {<<2, 3>>, <<3, 4>>}

\* A size_t no request comes near: no size_t sum or product wraps.
MC_SIZE_T_RANGE == 2 ^ 16

\* A 6-bit size_t (SIZE_MAX = 63) scales the top of the 64-bit range down
\* to the heap: 60 is within 15 of SIZE_MAX, so mm_malloc's rounding
\* wraps to an 8-byte block.
MC_SMALL_SIZE_T_RANGE == 2 ^ 6
MC_RequestsNearSizeMax == {8, 60}
====
