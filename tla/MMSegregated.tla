---------------------------- MODULE MMSegregated ----------------------------
(***************************************************************************)
(* The segregated-free-list allocator of                                   *)
(* src/mm-segregated list(97:100)/mm.c (variant B of the spec): 24 size   *)
(* classes, each a LIFO doubly-linked list of offset links whose head     *)
(* word sits before the prologue; allocated blocks have a header only,    *)
(* and bit 1 of every header records whether the physically previous     *)
(* block is allocated (PUT_HD keeps it, PREV_ALLOC and PREV_UNALLOC set   *)
(* and clear it in the successor).                                        *)
(*                                                                         *)
(* As in MMExplicit, the heap is modelled word by word, every macro and   *)
(* C function is an operator over s = [mem, brk, heap_listp, free_listp,  *)
(* case2, fault], and one call of the API is one atomic step.             *)
(***************************************************************************)
EXTENDS Integers, FiniteSets, Sequences

CONSTANTS
  HEAP_SIZES, \* the sizes memlib's MAX_HEAP may be built with
  CHUNK_HI,   \* CHUNKSIZE is the unparenthesised (1<<8)-(1<<5):
  CHUNK_LO,   \*   CHUNK_HI stands for (1<<8), CHUNK_LO for (1<<5)
  Requests,   \* byte counts a client passes to mm_malloc and mm_realloc
  FreshBits,  \* bit 1 (0 or 2) of the words mem_sbrk hands out fresh
  CallocArgs, \* <<nmemb, size>> pairs a client passes to calloc
  SIZE_T_RANGE \* 2^w for a w-bit size_t: size_t arithmetic is modulo it

WSIZE == 4
DSIZE == 8
NULL == 0
\* find_block never returns: its walk of a list has entered a cycle
HANG == -1
LIST_NUM == 24
\* LIST1 .. LIST23, the upper bounds of the first 23 size classes.
LIST == <<16, 24, 48, 128, 256, 512, 1024, 2048, 4096, 9200, 12000, 16000,
          20000, 24000, 28000, 32000, 40000, 32768, 65536, 131072, 262144,
          524288, 1048576>>

CHUNKSIZE == CHUNK_HI - CHUNK_LO
\* "CHUNKSIZE/WSIZE" in mm_init after macro expansion: (1<<8)-(1<<5)/WSIZE.
ChunkWordsAsExpanded == CHUNK_HI - CHUNK_LO \div WSIZE

\* The largest region: mem has a word for each of its 4-byte addresses.
MAX_HEAP == CHOOSE m \in HEAP_SIZES : \A k \in HEAP_SIZES : k <= m
Addrs == {a \in 0 .. MAX_HEAP - 1 : a % WSIZE = 0}
NWORDS == MAX_HEAP \div WSIZE

ASSUME /\ HEAP_SIZES # {}
       /\ \A m \in HEAP_SIZES :
            m \in Nat /\ m % DSIZE = 0 /\ m >= (4 + LIST_NUM) * WSIZE
       /\ CHUNK_HI \in Nat /\ CHUNK_LO \in Nat /\ CHUNK_HI > CHUNK_LO
       /\ Requests \subseteq Nat \ {0}
       /\ \A n \in Requests : n % WSIZE = 0 /\ n < SIZE_T_RANGE
       /\ CallocArgs \subseteq (Nat \ {0}) \X (Nat \ {0})
       /\ FreshBits \subseteq {0, 2} /\ FreshBits # {}

MaxOf(x, y) == IF x > y THEN x ELSE y
MinOf(x, y) == IF x < y THEN x ELSE y

(***************************************************************************)
(* Words, tags and bit 1 (the macros at the top of mm.c).  As in          *)
(* MMExplicit, an access to an address that is not one of the heap's     *)
(* words, or past the region's end mem_max_addr, reads 0 and marks a     *)
(* write as a fault.                                                      *)
(***************************************************************************)
InRegion(s, p) == p \in Addrs /\ p < s.mem_max_addr
GET(s, p) == IF InRegion(s, p) THEN s.mem[p] ELSE 0
PUT(s, p, val) ==
  IF InRegion(s, p) THEN [s EXCEPT !.mem[p] = val] ELSE [s EXCEPT !.fault = TRUE]
\* w & 0x2
Bit1(w) == ((w \div 2) % 2) * 2
PUT_HD(s, p, val) == PUT(s, p, Bit1(GET(s, p)) + val)
PACK(size, alloc) == size + alloc
GET_SIZE(s, p) == (GET(s, p) \div 8) * 8
GET_ALLOC(s, p) == GET(s, p) % 2
HDRP(bp) == bp - WSIZE
FTRP(s, bp) == bp + GET_SIZE(s, HDRP(bp)) - DSIZE
NEXT_BLKP(s, bp) == bp + GET_SIZE(s, bp - WSIZE)
PREV_BLKP(s, bp) == bp - GET_SIZE(s, bp - DSIZE)
\* Mutant: the offset computed with its operands swapped.
MutPtrOffSwapped(s, p, ptr) == PUT(s, p, s.heap_listp - ptr)
PTR_OFF(s, p, ptr) == PUT(s, p, ptr - s.heap_listp)
OFF_PTR(s, p) == GET(s, p) + s.heap_listp
\* GET(HDRP(NEXT_BLKP(bp))) |= 0x2, and &= ~0x2.
PREV_ALLOC(s, bp) ==
  LET h == HDRP(NEXT_BLKP(s, bp)) IN PUT(s, h, GET(s, h) - Bit1(GET(s, h)) + 2)
PREV_UNALLOC(s, bp) ==
  LET h == HDRP(NEXT_BLKP(s, bp)) IN PUT(s, h, GET(s, h) - Bit1(GET(s, h)))
GET_PREV_ALLOC(s, bp) == Bit1(GET(s, HDRP(bp)))

(***************************************************************************)
(* The memlib substrate (not part of src/), as in MMExplicit.             *)
(***************************************************************************)
mem_sbrk(s, incr) ==
  IF s.brk + incr > s.mem_max_addr
  THEN [st |-> s, ret |-> -1]
  ELSE [st |-> [s EXCEPT !.brk = s.brk + incr], ret |-> s.brk]

(***************************************************************************)
(* Size classes and free-list node operations.  A class's head word is   *)
(* at free_listp + 4*class; nodes link by offsets from heap_listp.        *)
(***************************************************************************)
\* Mutant: the first comparison is strict, so 16-byte blocks go to class 1.
Mutlist_entryStrict(size) ==
  IF size < LIST[1] THEN 0
  ELSE IF \E i \in 2 .. 19 : size <= LIST[i]
  THEN CHOOSE i \in 1 .. 18 : size <= LIST[i + 1] /\ \A j \in 2 .. i : size > LIST[j]
  ELSE LIST_NUM - 1

\* The if-chain: the first of LIST1..LIST19 that size does not exceed,
\* else the last class.
list_entry(size) ==
  IF \E i \in 1 .. 19 : size <= LIST[i]
  THEN CHOOSE i \in 0 .. 18 : size <= LIST[i + 1] /\ \A j \in 1 .. i : size > LIST[j]
  ELSE LIST_NUM - 1

\* "(unsigned int *)free_listp + list_entry(size)"
ListOf(s, size) == s.free_listp + WSIZE * list_entry(size)

\* The non-empty branch after bp's own words are written.
LinkAtHead(s, bp, list) ==
  PTR_OFF(PTR_OFF(s, OFF_PTR(s, list) + WSIZE, bp), list, bp)

\* Mutant: the head is updated before the old head is read.
MutInsertIntoHeadFirst(s, bp, list) ==
  IF GET(s, list) = 0
  THEN PUT(PUT(PTR_OFF(s, list, bp), bp, 0), bp + WSIZE, 0)
  ELSE LET s0 == PTR_OFF(s, list, bp)
       IN  LinkAtHead(PUT(PUT(s0, bp, GET(s0, list)), bp + WSIZE, 0), bp, list)

InsertInto(s, bp, list) ==
  IF GET(s, list) = 0
  THEN PUT(PUT(PTR_OFF(s, list, bp), bp, 0), bp + WSIZE, 0)
  ELSE LinkAtHead(PUT(PUT(s, bp, GET(s, list)), bp + WSIZE, 0), bp, list)

freelist_insert(s, bp) == InsertInto(s, bp, ListOf(s, GET_SIZE(s, HDRP(bp))))

DeleteOnly(s, bp, list) ==
  IF GET(s, bp) = 0 /\ GET(s, bp + WSIZE) = 0 THEN PUT(s, list, 0) ELSE s
DeleteLast(s, bp) ==
  IF GET(s, bp) = 0 /\ GET(s, bp + WSIZE) # 0
  THEN PUT(s, OFF_PTR(s, bp + WSIZE), 0) ELSE s
DeleteFirst(s, bp, list) ==
  IF GET(s, bp) # 0 /\ GET(s, bp + WSIZE) = 0
  THEN LET s1 == PUT(s, OFF_PTR(s, bp) + WSIZE, 0) IN PUT(s1, list, GET(s1, bp))
  ELSE s
DeleteMiddle(s, bp) ==
  IF GET(s, bp) # 0 /\ GET(s, bp + WSIZE) # 0
  THEN LET s1 == PUT(s, OFF_PTR(s, bp) + WSIZE, GET(s, bp + WSIZE))
       IN  PUT(s1, OFF_PTR(s1, bp + WSIZE), GET(s1, bp))
  ELSE s
DeleteFrom(s, bp, list) ==
  DeleteMiddle(DeleteFirst(DeleteLast(DeleteOnly(s, bp, list), bp), bp, list), bp)

freelist_delete(s, bp) == DeleteFrom(s, bp, ListOf(s, GET_SIZE(s, HDRP(bp))))

(***************************************************************************)
(* coalesce: the four cases, chosen by bit 1 of bp's own header (the     *)
(* left neighbour's state) and the right neighbour's alloc bit.  Free    *)
(* rewrites go through PUT_HD and keep the header's bit 1.                *)
(***************************************************************************)
\* Mutant: the footer is written first, at the place the old header gives.
MutSetFreeFooterFirst(s, bp, size) ==
  PUT_HD(PUT(s, FTRP(s, bp), PACK(size, 0)), HDRP(bp), PACK(size, 0))

\* PUT_HD(HDRP(bp), PACK(size, 0)); PUT(FTRP(bp), PACK(size, 0)).
SetFree(s, bp, size) ==
  LET s1 == PUT_HD(s, HDRP(bp), PACK(size, 0))
  IN  PUT(s1, FTRP(s1, bp), PACK(size, 0))

MovePrev(s, bp) ==
  LET nbp == PREV_BLKP(s, bp) IN [st |-> freelist_insert(s, nbp), bp |-> nbp]

\* Case 1: both neighbours allocated.
CoalesceNone(s, bp) == [st |-> freelist_insert(s, bp), bp |-> bp]

\* Case 2: right neighbour free; as in variant A it is absorbed without
\* freelist_delete.  (case2 is a ghost field recording this case.)
CoalesceNext(s, bp) ==
  LET size == GET_SIZE(s, HDRP(bp)) + GET_SIZE(s, HDRP(NEXT_BLKP(s, bp)))
      s2   == freelist_insert(SetFree(s, bp, size), bp)
  IN  [st |-> [s2 EXCEPT !.case2 = TRUE], bp |-> bp]

\* Case 3, after the left neighbour is unlinked (size0 is bp's size).
MergePrev(s, bp, size0) ==
  LET size == size0 + GET_SIZE(s, HDRP(PREV_BLKP(s, bp)))
      s2   == PUT(s, FTRP(s, bp), PACK(size, 0))
  IN  MovePrev(PUT_HD(s2, HDRP(PREV_BLKP(s2, bp)), PACK(size, 0)), bp)

CoalescePrev(s, bp) ==
  MergePrev(freelist_delete(s, PREV_BLKP(s, bp)), bp, GET_SIZE(s, HDRP(bp)))

\* Case 4, after both neighbours are unlinked.
MergeBoth(s, bp, size0) ==
  LET size == size0 + GET_SIZE(s, HDRP(PREV_BLKP(s, bp)))
                    + GET_SIZE(s, FTRP(s, NEXT_BLKP(s, bp)))
      s3   == PUT_HD(s, HDRP(PREV_BLKP(s, bp)), PACK(size, 0))
  IN  MovePrev(PUT(s3, FTRP(s3, NEXT_BLKP(s3, bp)), PACK(size, 0)), bp)

CoalesceBoth(s, bp) ==
  LET s1 == freelist_delete(s, PREV_BLKP(s, bp))
  IN  MergeBoth(freelist_delete(s1, NEXT_BLKP(s1, bp)), bp,
                GET_SIZE(s, HDRP(bp)))

coalesce(s, bp) ==
  LET prev_alloc == GET_PREV_ALLOC(s, bp)
      next_alloc == GET_ALLOC(s, HDRP(NEXT_BLKP(s, bp)))
  IN  CASE prev_alloc # 0 /\ next_alloc = 1 -> CoalesceNone(s, bp)
        [] prev_alloc # 0 /\ next_alloc = 0 -> CoalesceNext(s, bp)
        [] prev_alloc = 0 /\ next_alloc = 1 -> CoalescePrev(s, bp)
        [] OTHER                            -> CoalesceBoth(s, bp)

(***************************************************************************)
(* extend_heap: the new block's header overlays the old epilogue and     *)
(* keeps its bit 1; the new epilogue is written with PUT_HD too, so it   *)
(* keeps bit 1 of whatever the fresh word held.                           *)
(***************************************************************************)
NewEpilogue(s, bp) == PUT_HD(s, HDRP(NEXT_BLKP(s, bp)), PACK(0, 1))

extend_heap(s, words) ==
  LET size == IF words % 2 = 1 THEN (words + 1) * WSIZE ELSE words * WSIZE
      r    == mem_sbrk(s, size)
  IN  IF r.ret = -1 THEN [st |-> s, bp |-> NULL]
      ELSE coalesce(NewEpilogue(SetFree(r.st, r.ret, size), r.ret), r.ret)

(***************************************************************************)
(* place: the allocated part gets a header only and sets bit 1 of its    *)
(* successor; a split remainder is tagged free, clears bit 1 of its own  *)
(* successor and goes to the list of its class.                          *)
(***************************************************************************)
Remainder(s, bp, rsize) ==
  LET nbp == NEXT_BLKP(s, bp)
  IN  freelist_insert(PREV_UNALLOC(SetFree(s, nbp, rsize), nbp), nbp)

\* Mutant: a whole-block placement does not tell its successor.
MutPlaceInNoPrevAlloc(s, bp, asize, csize) ==
  IF csize - asize >= 2 * DSIZE
  THEN Remainder(PREV_ALLOC(PUT_HD(s, HDRP(bp), PACK(asize, 1)), bp), bp,
                 csize - asize)
  ELSE PUT_HD(s, HDRP(bp), PACK(csize, 1))

\* place after freelist_delete(bp); csize is the block's size.
PlaceIn(s, bp, asize, csize) ==
  IF csize - asize >= 2 * DSIZE
  THEN Remainder(PREV_ALLOC(PUT_HD(s, HDRP(bp), PACK(asize, 1)), bp), bp,
                 csize - asize)
  ELSE PREV_ALLOC(PUT_HD(s, HDRP(bp), PACK(csize, 1)), bp)

\* Mutant: the placed block is never unlinked from its list.
MutPlaceNoUnlink(s, bp, asize) == PlaceIn(s, bp, asize, GET_SIZE(s, HDRP(bp)))

place(s, bp, asize) ==
  PlaceIn(freelist_delete(s, bp), bp, asize, GET_SIZE(s, HDRP(bp)))

(***************************************************************************)
(* find_fit: first fit in each class from list_entry(asize) up to the    *)
(* last; find_block walks one list, and is cut off as HANG after more    *)
(* steps than the heap has words.                                         *)
(***************************************************************************)
RECURSIVE BlockFrom(_, _, _, _)
BlockFrom(s, bp, asize, steps) ==
  CASE steps > NWORDS                    -> HANG
    [] GET_SIZE(s, HDRP(bp)) >= asize    -> bp
    [] GET(s, bp) = 0                    -> NULL
    [] OTHER -> BlockFrom(s, OFF_PTR(s, bp), asize, steps + 1)

find_block(s, list, asize) ==
  IF GET(s, list) = 0 THEN NULL ELSE BlockFrom(s, OFF_PTR(s, list), asize, 0)

\* The while loop of find_fit from class entry on.
RECURSIVE FitFromEntry(_, _, _)
FitFromEntry(s, entry, asize) ==
  CASE entry >= LIST_NUM                               -> NULL
    [] GET(s, s.free_listp + WSIZE * entry) = 0        -> FitFromEntry(s, entry + 1, asize)
    [] find_block(s, s.free_listp + entry * WSIZE, asize) # NULL
         -> find_block(s, s.free_listp + entry * WSIZE, asize)
    [] OTHER                                           -> FitFromEntry(s, entry + 1, asize)

find_fit(s, asize) == FitFromEntry(s, list_entry(asize), asize)

(***************************************************************************)
(* The public entry points.                                                *)
(***************************************************************************)
\* for (i = 0; i < LIST_NUM; i++) PUT(free_listp + i*WSIZE, 0);
ClearHeads(s) ==
  [s EXCEPT !.mem = [a \in Addrs |->
      IF \E i \in 0 .. LIST_NUM - 1 : a = s.free_listp + i * WSIZE
      THEN 0 ELSE s.mem[a]]]

\* After the prologue and epilogue are written: set the epilogue's bit 1,
\* clear the heads and plant the first free block.
InitLists(s) ==
  extend_heap(ClearHeads(PREV_ALLOC(s, s.heap_listp)), ChunkWordsAsExpanded).st

mm_init(s) ==
  LET r  == mem_sbrk(s, 4 * WSIZE + LIST_NUM * WSIZE)
      b  == r.ret
      s1 == PUT(PUT(PUT(PUT(r.st, b, 0),
                b + (LIST_NUM + 1) * WSIZE, PACK(DSIZE, 1)),
                b + (LIST_NUM + 2) * WSIZE, PACK(DSIZE, 1)),
                b + (LIST_NUM + 3) * WSIZE, PACK(0, 1))
  IN  IF b = -1 THEN [r.st EXCEPT !.heap_listp = -1]
      ELSE InitLists([s1 EXCEPT !.free_listp = b + WSIZE,
                                !.heap_listp = b + (LIST_NUM + 2) * WSIZE])

LazyInit(s) == IF s.heap_listp = 0 THEN mm_init(s) ELSE s

\* Mutant: the header word is left out of the rounding.
MutAdjustedSizeNoHeader(size) ==
  IF size <= DSIZE THEN 2 * DSIZE
  ELSE DSIZE * (((size + (DSIZE - 1)) % SIZE_T_RANGE) \div DSIZE)

\* Header overhead and 8-byte alignment; no footer on allocated blocks.
\* The sum is a size_t: it wraps for sizes within 11 of SIZE_MAX.
AdjustedSize(size) ==
  IF size <= DSIZE THEN 2 * DSIZE
  ELSE DSIZE * (((size + WSIZE + (DSIZE - 1)) % SIZE_T_RANGE) \div DSIZE)

PlaceExtended(ext, asize) ==
  IF ext.bp = NULL THEN ext
  ELSE [st |-> place(ext.st, ext.bp, asize), bp |-> ext.bp]

PlaceFit(s, asize, fit) ==
  CASE fit = HANG -> [st |-> s, bp |-> HANG]
    [] fit # NULL -> [st |-> place(s, fit, asize), bp |-> fit]
    [] OTHER      -> PlaceExtended(extend_heap(s, MaxOf(asize, CHUNKSIZE) \div WSIZE),
                                   asize)

mm_malloc(s, size) ==
  LET s0 == LazyInit(s)
  IN  IF size = 0 THEN [st |-> s0, bp |-> NULL]
      ELSE PlaceFit(s0, AdjustedSize(size), find_fit(s0, AdjustedSize(size)))

\* Mutant: the freed block's successor keeps "previous allocated".
Mutmm_freeNoPrevUnalloc(s, bp) ==
  IF bp = NULL THEN s
  ELSE coalesce(SetFree(LazyInit(s), bp, GET_SIZE(s, HDRP(bp))), bp).st

mm_free(s, bp) ==
  IF bp = NULL THEN s
  ELSE coalesce(PREV_UNALLOC(SetFree(LazyInit(s), bp, GET_SIZE(s, HDRP(bp))), bp),
                bp).st

memcpy(s, dst, src, n) ==
  [s EXCEPT !.mem = [a \in Addrs |->
      IF dst <= a /\ a < dst + n THEN GET(s, src + (a - dst)) ELSE s.mem[a]]]

\* Mutant: the old block is copied from but never freed.
MutCopyAndFreeNoFree(m, ptr, size) ==
  IF m.bp \in {NULL, HANG} THEN m
  ELSE [st |-> memcpy(m.st, m.bp, ptr, MinOf(size, GET_SIZE(m.st, HDRP(ptr)))),
        bp |-> m.bp]

\* Mutant: the old block is freed before its payload is copied.
MutCopyAndFreeFreeFirst(m, ptr, size) ==
  IF m.bp \in {NULL, HANG} THEN m
  ELSE [st |-> memcpy(mm_free(m.st, ptr), m.bp, ptr,
                      MinOf(size, GET_SIZE(m.st, HDRP(ptr)))),
        bp |-> m.bp]

\* The new block m came from mm_malloc: copy min(size, old block size)
\* bytes and free the old block, or give up leaving it untouched.
CopyAndFree(m, ptr, size) ==
  IF m.bp \in {NULL, HANG} THEN m
  ELSE [st |-> mm_free(memcpy(m.st, m.bp, ptr,
                              MinOf(size, GET_SIZE(m.st, HDRP(ptr)))), ptr),
        bp |-> m.bp]

\* Mutant: realloc(ptr, 0) returns NULL without freeing ptr.
Mutmm_reallocZeroNoFree(s, ptr, size) ==
  CASE size = 0    -> [st |-> s, bp |-> NULL]
    [] ptr = NULL  -> mm_malloc(s, size)
    [] OTHER       -> CopyAndFree(mm_malloc(s, size), ptr, size)

mm_realloc(s, ptr, size) ==
  CASE size = 0    -> [st |-> mm_free(s, ptr), bp |-> NULL]
    [] ptr = NULL  -> mm_malloc(s, size)
    [] OTHER       -> CopyAndFree(mm_malloc(s, size), ptr, size)

\* A word whose k lowest-addressed bytes are set to 0 (little-endian).
ZeroLowBytes(w, k) == IF k >= WSIZE THEN 0 ELSE (w \div (256 ^ k)) * (256 ^ k)

\* memset(p, 0, n); a write through NULL or past the region is a crash.
memset(s, p, n) ==
  IF n > 0 /\ (p = NULL \/ p + n > s.mem_max_addr) THEN [s EXCEPT !.fault = TRUE]
  ELSE [s EXCEPT !.mem = [a \in Addrs |->
          IF p <= a /\ a < p + n THEN ZeroLowBytes(s.mem[a], MinOf(WSIZE, p + n - a))
          ELSE s.mem[a]]]

\* Mutant: GET_SIZE bytes are cleared from the payload, reaching into the
\* next block's header.
MutZeroPayloadWholeBlock(m, bytes) ==
  IF m.bp = HANG THEN m
  ELSE [m EXCEPT !.st = memset(m.st, m.bp, GET_SIZE(m.st, HDRP(m.bp)))]

\* calloc's memset of what malloc returned, NULL included.
ZeroPayload(m, bytes) ==
  IF m.bp = HANG THEN m ELSE [m EXCEPT !.st = memset(m.st, m.bp, bytes)]

\* nmemb * size in size_t arithmetic, malloc (mm_malloc in the driver
\* build), then memset.
calloc(s, nmemb, size) ==
  ZeroPayload(mm_malloc(s, (nmemb * size) % SIZE_T_RANGE), (nmemb * size) % SIZE_T_RANGE)

(***************************************************************************)
(* The state machine, as in MMExplicit: held is the client's payloads    *)
(* with the byte counts it asked for, ret the last call's result; the    *)
(* fresh words of the memlib region all carry the same leftover bit 1.   *)
(***************************************************************************)
(* The heap checker, mm_checkheap(0): it changes nothing and prints one   *)
(* line per failed check, so it is modelled as the set of errors it       *)
(* prints, each a check's name and the block it is about.  With verbose  *)
(* 0, printblock is never called.                                         *)
(***************************************************************************)
\* The checks of checkblock(bp) that fail.  The last reads the size from
\* bp itself, as the code does, not from the header.
CheckblockFailures(s, bp) ==
  {c \in {"alignment", "tags", "coalesced", "min_size"} :
     CASE c = "alignment" -> bp % DSIZE # 0
       [] c = "tags"      -> GET(s, HDRP(bp)) # GET(s, FTRP(s, bp))
       [] c = "coalesced" -> GET_ALLOC(s, HDRP(bp)) = 1
                             /\ GET_ALLOC(s, HDRP(NEXT_BLKP(s, bp))) = 1
       [] c = "min_size"  -> GET_SIZE(s, bp) < 2 * DSIZE}

checkblock(s, bp) == {<<c, bp>> : c \in CheckblockFailures(s, bp)}

\* The final check, on the block whose header has size 0.
EpilogueCheck(s, bp) ==
  IF GET_SIZE(s, HDRP(bp)) # 0 \/ GET_ALLOC(s, HDRP(bp)) = 0
  THEN {<<"epilogue", bp>>} ELSE {}

\* The loop from heap_listp while the header's size is positive.  Sizes
\* are multiples of 8, so bp strictly grows, and a word past the region
\* reads as 0: the walk ends.
RECURSIVE CheckBlocksFrom(_, _)
CheckBlocksFrom(s, bp) ==
  IF GET_SIZE(s, HDRP(bp)) > 0
  THEN checkblock(s, bp) \cup CheckBlocksFrom(s, NEXT_BLKP(s, bp))
  ELSE EpilogueCheck(s, bp)

PrologueCheck(s) ==
  LET hl == s.heap_listp
  IN  (IF GET_SIZE(s, HDRP(hl)) # DSIZE \/ GET_ALLOC(s, HDRP(hl)) = 0
       THEN {<<"prologue header", hl>>} ELSE {})
      \cup (IF GET_SIZE(s, FTRP(s, hl)) # DSIZE \/ GET_ALLOC(s, FTRP(s, hl)) = 0
             THEN {<<"prologue footer", hl>>} ELSE {})

mm_checkheap(s) ==
  PrologueCheck(s) \cup checkblock(s, s.heap_listp) \cup CheckBlocksFrom(s, s.heap_listp)

(***************************************************************************)
(* Verbose mode, mm_checkheap(1).  Its output is a sequence of lines; the *)
(* error lines of one check are one element <<"errors", set>>.  A block   *)
(* is described as <<"block", [bp, hsize, halloc, fsize, falloc]>>, the   *)
(* block with a 0-size header as <<"eol", bp>>.                          *)
(***************************************************************************)
\* printblock(bp) runs mm_checkheap(0) itself, then reads both tags.
printblock(s, bp) ==
  << <<"errors", mm_checkheap(s)>>,
     IF GET_SIZE(s, HDRP(bp)) = 0
     THEN <<"eol", bp>>
     ELSE <<"block", [bp |-> bp,
                      hsize |-> GET_SIZE(s, HDRP(bp)), halloc |-> GET_ALLOC(s, HDRP(bp)),
                      fsize |-> GET_SIZE(s, FTRP(s, bp)), falloc |-> GET_ALLOC(s, FTRP(s, bp))]>> >>

\* The verbose loop: printblock, then checkblock, for every block with a
\* positive size; then printblock and the epilogue check on the last.
RECURSIVE PrintBlocksFrom(_, _)
PrintBlocksFrom(s, bp) ==
  IF GET_SIZE(s, HDRP(bp)) > 0
  THEN printblock(s, bp) \o <<<<"errors", checkblock(s, bp)>>>>
         \o PrintBlocksFrom(s, NEXT_BLKP(s, bp))
  ELSE printblock(s, bp) \o <<<<"errors", EpilogueCheck(s, bp)>>>>

mm_checkheap_verbose(s) ==
  << <<"heading", s.heap_listp>>,
     <<"errors", PrologueCheck(s) \cup checkblock(s, s.heap_listp)>> >>
  \o PrintBlocksFrom(s, s.heap_listp)

(***************************************************************************)
VARIABLES mem, brk, heap_listp, free_listp, held, ret, status, case2Seen,
  mem_max_addr \* memlib's region end, fixed by mem_init

vars == <<mem, brk, heap_listp, free_listp, held, ret, status, case2Seen,
          mem_max_addr>>

Alloc == [mem |-> mem, brk |-> brk, heap_listp |-> heap_listp,
          free_listp |-> free_listp, case2 |-> case2Seen, fault |-> FALSE,
          mem_max_addr |-> mem_max_addr]

Commit(s) ==
  /\ mem' = s.mem
  /\ brk' = s.brk
  /\ heap_listp' = s.heap_listp
  /\ free_listp' = s.free_listp
  /\ case2Seen' = s.case2
  /\ UNCHANGED mem_max_addr

NoPayload == <<NULL, 0>>

Outcome(s, bp) ==
  status' = CASE bp = HANG -> "hung" [] s.fault -> "fault" [] OTHER -> "running"

Finish(r, n, keep) ==
  /\ Commit(r.st)
  /\ Outcome(r.st, r.bp)
  /\ ret' = IF r.bp \in {NULL, HANG} THEN NoPayload ELSE <<r.bp, n>>
  /\ held' = IF r.bp \in {NULL, HANG} THEN keep ELSE keep \cup {<<r.bp, n>>}

Init ==
  /\ \E g \in FreshBits : mem = [a \in Addrs |-> g]
  /\ brk = 0
  /\ heap_listp = 0
  /\ free_listp = 0
  /\ held = {}
  /\ ret = NoPayload
  /\ status = "running"
  /\ case2Seen = FALSE
  /\ mem_max_addr \in HEAP_SIZES

MmInit ==
  /\ status = "running"
  /\ heap_listp = 0
  /\ Finish([st |-> mm_init(Alloc), bp |-> NULL], 0, held)

Malloc(n) ==
  /\ status = "running"
  /\ Finish(mm_malloc(Alloc, n), n, held)

Free(h) ==
  /\ status = "running"
  /\ Finish([st |-> mm_free(Alloc, h[1]), bp |-> NULL], 0, held \ {h})

ReallocDone(r, h, n) ==
  Finish(r, n, IF n = 0 \/ r.bp \notin {NULL, HANG} THEN held \ {h} ELSE held)

Realloc(h, n) ==
  /\ status = "running"
  /\ ReallocDone(mm_realloc(Alloc, h[1], n), h, n)

Next ==
  \/ MmInit
  \/ \E n \in Requests \cup {0} : Malloc(n)
  \/ \E h \in held : Free(h)
  \/ \E h \in held \cup {NoPayload}, n \in Requests \cup {0} : Realloc(h, n)

Spec == Init /\ [][Next]_vars

\* The client asked calloc for nmemb * size bytes.
Calloc(nm, sz) ==
  /\ status = "running"
  /\ Finish(calloc(Alloc, nm, sz), nm * sz, held)

NextWithCalloc == Next \/ \E a \in CallocArgs : Calloc(a[1], a[2])

SpecWithCalloc == Init /\ [][NextWithCalloc]_vars

(***************************************************************************)
(* Views of the heap: the block chain from the first block after the     *)
(* prologue, and each class's list from its head word.                    *)
(***************************************************************************)
RECURSIVE ChainFrom(_, _, _)
ChainFrom(s, bp, steps) ==
  CASE steps > NWORDS \/ HDRP(bp) \notin Addrs -> <<>>
    [] GET_SIZE(s, HDRP(bp)) = 0               -> <<bp>>
    [] OTHER -> <<bp>> \o ChainFrom(s, NEXT_BLKP(s, bp), steps + 1)

RECURSIVE ListFrom(_, _, _)
ListFrom(s, bp, steps) ==
  CASE steps > NWORDS                 -> <<HANG>>
    [] bp + WSIZE \notin Addrs        -> <<bp>>
    [] GET(s, bp) = 0                 -> <<bp>>
    [] OTHER -> <<bp>> \o ListFrom(s, OFF_PTR(s, bp), steps + 1)

Chain == ChainFrom(Alloc, heap_listp + DSIZE, 0)
Blocks == {Chain[i] : i \in 1 .. Len(Chain) - 1}
Epilogue == Chain[Len(Chain)]
IsFree(b) == GET_ALLOC(Alloc, HDRP(b)) = 0
FreeBlocks == {b \in Blocks : IsFree(b)}
ListHead(c) == free_listp + WSIZE * c
FreeList(c) ==
  IF GET(Alloc, ListHead(c)) = 0 THEN <<>>
  ELSE ListFrom(Alloc, OFF_PTR(Alloc, ListHead(c)), 0)
Classes == 0 .. LIST_NUM - 1
Disjoint(h, g) == h[1] + h[2] <= g[1] \/ g[1] + g[2] <= h[1]
\* The spec's class rule: the smallest class whose upper bound is at least
\* size (class 23 is unbounded).
SpecClass(size) ==
  IF \E i \in 1 .. 23 : size <= LIST[i]
  THEN CHOOSE c \in 0 .. 22 : size <= LIST[c + 1] /\ \A j \in 1 .. c : size > LIST[j]
  ELSE LIST_NUM - 1


\* Sizes at and just above every class bound, and the smallest size. Both
\* list_entry and SpecClass are constant between consecutive bounds, so
\* they agree on every size iff they agree on these.
ClassBoundarySizes ==
  {1} \cup {LIST[i] : i \in 1 .. 23} \cup {LIST[i] + 1 : i \in 1 .. 23}

(***************************************************************************)
(* Properties.                                                           *)
(***************************************************************************)
TypeOK ==
  /\ mem \in [Addrs -> Nat]
  /\ mem_max_addr \in HEAP_SIZES
  /\ brk \in 0 .. mem_max_addr /\ brk % DSIZE = 0
  /\ heap_listp \in Addrs /\ free_listp \in Addrs
  /\ held \subseteq Addrs \X Requests
  /\ ret \in (Addrs \X Requests) \cup {NoPayload}
  /\ status \in {"running", "hung", "fault"}

\* The block chain is intact: prologue and epilogue in place, blocks of at
\* least 16 bytes on 8-byte boundaries, and every free block's footer
\* repeating its header's size with alloc 0 (bit 1 is kept in headers
\* only).  Allocated blocks have no footer to check.
HeapWellFormed ==
  heap_listp # 0 =>
    /\ GET(Alloc, HDRP(heap_listp)) = PACK(DSIZE, 1)
    /\ GET(Alloc, heap_listp) = PACK(DSIZE, 1)
    /\ Chain # <<>>
    /\ HDRP(Epilogue) = brk - WSIZE
    /\ GET_SIZE(Alloc, HDRP(Epilogue)) = 0
    /\ GET_ALLOC(Alloc, HDRP(Epilogue)) = 1
    /\ \A b \in Blocks :
         /\ b % DSIZE = 0
         /\ GET_SIZE(Alloc, HDRP(b)) >= 2 * DSIZE
         /\ IsFree(b) => GET(Alloc, FTRP(Alloc, b)) = PACK(GET_SIZE(Alloc, HDRP(b)), 0)

\* Bit 1 of every header, the epilogue's included, is the alloc bit of the
\* block physically before it (the prologue for the first block): what
\* place, mm_free, extend_heap and coalesce must keep in step through
\* PUT_HD, PREV_ALLOC and PREV_UNALLOC (spec invariant 6).
PrevAllocBitMatches ==
  heap_listp # 0 =>
    \A i \in 1 .. Len(Chain) :
      Bit1(GET(Alloc, HDRP(Chain[i])))
        = 2 * (IF i = 1 THEN 1 ELSE GET_ALLOC(Alloc, HDRP(Chain[i - 1])))

\* No two physically adjacent blocks are both free.
NoAdjacentFree ==
  \A i \in 1 .. Len(Chain) - 2 : ~(IsFree(Chain[i]) /\ IsFree(Chain[i + 1]))

\* Every list is an acyclic chain of free blocks whose sizes belong to
\* that list's class, each prev link naming the node before it, and every
\* free block is in the list of its class (spec invariants 4 and 5).
FreeListsMatchHeap ==
  heap_listp # 0 =>
    /\ \A c \in Classes :
         LET L == FreeList(c) IN
         /\ \A i \in 1 .. Len(L) :
              /\ L[i] \in FreeBlocks
              /\ SpecClass(GET_SIZE(Alloc, HDRP(L[i]))) = c
              /\ GET(Alloc, L[i] + WSIZE) = IF i = 1 THEN 0 ELSE L[i - 1] - heap_listp
         /\ \A i, j \in 1 .. Len(L) : i # j => L[i] # L[j]
    /\ \A b \in FreeBlocks :
         LET L == FreeList(SpecClass(GET_SIZE(Alloc, HDRP(b))))
         IN  \E i \in 1 .. Len(L) : L[i] = b

\* Every held payload is an allocated block of the chain whose payload
\* (the block less its header) holds the bytes asked for.
HeldBlocksAllocated ==
  \A h \in held :
    /\ h[1] \in Blocks
    /\ ~IsFree(h[1])
    /\ GET_SIZE(Alloc, HDRP(h[1])) - WSIZE >= h[2]

\* mm_checkheap's comments name what it checks: prologue, alignment,
\* header against footer, "no consecutive free blocks", minimum size and
\* epilogue.  It prints an error exactly when the heap breaks the layout
\* the allocator keeps, or leaves two free blocks side by side.
CheckHeapAgrees ==
  heap_listp # 0 =>
    ((mm_checkheap(Alloc) = {}) <=> (HeapWellFormed /\ NoAdjacentFree))

\* The dump mm_checkheap(1) prints is a map of the heap: its block lines
\* are the prologue, then the blocks, then EOL at the epilogue; a block it
\* marks free has a footer that reads as its header (an allocated one has
\* none: printblock shows its last payload word); and the blocks it marks
\* allocated, past the prologue, are exactly the payloads the client
\* holds.  So no sequence of malloc, free and realloc leaks a block or
\* leaves a held block marked free.
VerboseDumpShowsHeldBlocks ==
  heap_listp # 0 =>
    LET descr   == SelectSeq(mm_checkheap_verbose(Alloc),
                             LAMBDA e : e[1] \in {"block", "eol"})
        n       == Len(descr)
        Line(i) == descr[i][2]
    IN  /\ n >= 2
        /\ \A i \in 1 .. n - 1 :
             /\ descr[i][1] = "block"
             /\ Line(i).halloc = 0 =>
                  Line(i).fsize = Line(i).hsize /\ Line(i).falloc = 0
        /\ Line(1).bp = heap_listp /\ Line(1).hsize = DSIZE /\ Line(1).halloc = 1
        /\ descr[n][1] = "eol" /\ Line(n) = Epilogue
        /\ {Line(i).bp : i \in {j \in 2 .. n - 1 : Line(j).halloc = 1}}
             = {h[1] : h \in held}

\* Every call returns normally.
CallsReturn == status = "running"

\* list_entry, which freelist_insert, freelist_delete and find_fit all use
\* to pick a list, returns for every size the class the spec assigns it:
\* the lowest class whose upper bound is at least the size. It matters
\* once mm_init has laid out the heads.
ListEntryIsSpecClass ==
  heap_listp # 0 => \A sz \in ClassBoundarySizes : list_entry(sz) = SpecClass(sz)

\* find_fit always terminates: no list it walks contains a cycle.
FindFitTerminates == status # "hung"

\* mm_init plants one free block of CHUNKSIZE bytes (spec 4.1).
InitialBlockIsChunk ==
  [][heap_listp = 0 /\ heap_listp' # 0 /\ held' = {}
       => GET_SIZE(Alloc, HDRP(heap_listp + DSIZE))' = CHUNKSIZE]_vars

(***************************************************************************)
(* The properties over behaviours before the first case-2 coalesce.      *)
(***************************************************************************)
BeforeCase2 == ~case2Seen

\* Until a case-2 merge, the block chain stays intact.
HeapWellFormedBeforeCase2 == BeforeCase2 => HeapWellFormed

\* Until a case-2 merge, every header's bit 1 tells its predecessor's state.
PrevAllocBitMatchesBeforeCase2 == BeforeCase2 => PrevAllocBitMatches

\* Until a case-2 merge, no two adjacent blocks are free.
NoAdjacentFreeBeforeCase2 == BeforeCase2 => NoAdjacentFree

\* Until a case-2 merge, the lists are exactly the free blocks, by class.
FreeListsMatchHeapBeforeCase2 == BeforeCase2 => FreeListsMatchHeap

\* Until a case-2 merge, held payloads are allocated blocks big enough.
HeldBlocksAllocatedBeforeCase2 == BeforeCase2 => HeldBlocksAllocated

\* Until a case-2 merge, the verbose dump shows exactly the held blocks
\* as allocated.
VerboseDumpShowsHeldBlocksBeforeCase2 ==
  BeforeCase2 => VerboseDumpShowsHeldBlocks

\* Until a case-2 merge, every handout is disjoint from the held payloads.
HandoutIsFreshBeforeCase2 ==
  [][BeforeCase2' => (ret' # NoPayload => \A h \in held : Disjoint(ret', h))]_vars

\* mm_realloc keeps the client's data: after the call the first
\* min(n, old n) bytes of the new payload hold what the old payload held
\* before it (the spec's realloc preservation), although the same call
\* frees the old block and rewrites its words.  A realloc step is one
\* that gives up one held block h and hands out another, r.
ReallocPreserves ==
  \A h \in held \ held', r \in held' \ held :
    \A a \in Addrs :
      h[1] <= a /\ a < h[1] + MinOf(h[2], r[2]) => mem'[r[1] + (a - h[1])] = mem[a]

\* Until a case-2 merge, every realloc preserves the old payload's bytes.
ReallocPreservesPayloadBeforeCase2 ==
  [][BeforeCase2' => ReallocPreserves]_vars

\* Until a case-2 merge, every call returns.
CallsReturnBeforeCase2 == BeforeCase2 => CallsReturn

AbstractBlocks ==
  LET s == Alloc
      walk[bp \in Nat] ==
        IF HDRP(bp) \notin Addrs \/ GET_SIZE(s, HDRP(bp)) = 0 THEN <<>>
        ELSE << [size |-> GET_SIZE(s, HDRP(bp)), free |-> GET_ALLOC(s, HDRP(bp)) = 0] >>
               \o walk[NEXT_BLKP(s, bp)]
  IN  IF heap_listp = 0 THEN <<>> ELSE walk[heap_listp + DSIZE]

HB == INSTANCE HeapBlocks
        WITH blocks <- AbstractBlocks, held <- held,
             FirstPayload <- (LIST_NUM + 4) * WSIZE, MinBlock <- 2 * DSIZE, Align <- DSIZE,
             Overhead <- WSIZE, Requests <- Requests

\* Every call of the allocator is a HeapBlocks step or leaves the block
\* chain and the client's blocks as they were: blocks are only split off
\* free ones, grown at the end, merged with free neighbours when freed,
\* and handed out where the client receives them.
RefinesHeapBlocks == HB!Spec
====
