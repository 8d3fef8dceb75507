----------------------------- MODULE MMExplicit -----------------------------
(***************************************************************************)
(* The explicit-free-list allocator of src/mm-explicit list(82:100)/mm.c  *)
(* (variant A of the spec): boundary tags on every block, one LIFO        *)
(* doubly-linked free list whose head word sits in the heap, first-fit    *)
(* search, split on placement and four-case coalescing.                   *)
(*                                                                         *)
(* The heap is modelled word by word, as the code sees it: mem maps every *)
(* 4-byte-aligned byte address below MAX_HEAP to the unsigned word stored *)
(* there.  Every macro of the code (GET, PUT, HDRP, FTRP, NEXT_BLKP, ...) *)
(* is an operator over a record s = [mem, brk, heap_listp, free_listp]    *)
(* holding the allocator's whole state, and every C function is an        *)
(* operator from such a record to the next one, so that a call of         *)
(* mm_malloc, mm_free or mm_realloc, with all the helpers it runs, is one *)
(* atomic step: the allocator is single-threaded and never yields.        *)
(***************************************************************************)
EXTENDS Integers, FiniteSets, Sequences

CONSTANTS
  HEAP_SIZES, \* the sizes memlib's MAX_HEAP may be built with
  CHUNK_HI,   \* CHUNKSIZE is the unparenthesised (1<<9)+(1<<8)+(1<<7):
  CHUNK_LO,   \*   CHUNK_HI stands for (1<<9)+(1<<8), CHUNK_LO for (1<<7)
  Requests,   \* byte counts a client passes to mm_malloc and mm_realloc
  CallocArgs, \* <<nmemb, size>> pairs a client passes to calloc
  SIZE_T_RANGE \* 2^w for a w-bit size_t: size_t arithmetic is modulo it

WSIZE == 4
DSIZE == 8
NULL == 0
\* find_fit never returns: its walk of the free list has entered a cycle
HANG == -1

CHUNKSIZE == CHUNK_HI + CHUNK_LO
\* "CHUNKSIZE/WSIZE" in mm_init, after the preprocessor has expanded the
\* macro: the division binds to the last term only.
ChunkWordsAsExpanded == CHUNK_HI + CHUNK_LO \div WSIZE

\* The largest region: mem has a word for each of its 4-byte addresses.
MAX_HEAP == CHOOSE m \in HEAP_SIZES : \A k \in HEAP_SIZES : k <= m
Addrs == {a \in 0 .. MAX_HEAP - 1 : a % WSIZE = 0}
NWORDS == MAX_HEAP \div WSIZE

ASSUME /\ HEAP_SIZES # {}
       /\ \A m \in HEAP_SIZES : m \in Nat /\ m % DSIZE = 0 /\ m >= 6 * WSIZE
       /\ {CHUNK_HI, CHUNK_LO} \subseteq Nat \ {0}
       /\ Requests \subseteq Nat \ {0}
       /\ \A n \in Requests : n % WSIZE = 0 /\ n < SIZE_T_RANGE
       /\ CallocArgs \subseteq (Nat \ {0}) \X (Nat \ {0})

MaxOf(x, y) == IF x > y THEN x ELSE y
MinOf(x, y) == IF x < y THEN x ELSE y

(***************************************************************************)
(* Words and boundary tags (the macros at the top of mm.c).  Sizes are    *)
(* multiples of 8, so "& ~0x7" and "| alloc" are arithmetic on naturals.  *)
(* A corrupted free list can send the code to an address that is not one *)
(* of the heap's words (unaligned, or outside the region): undefined      *)
(* behaviour.  Such a read yields 0, one of the values it may produce,    *)
(* and such a write is not performed but marks the state as faulted.      *)
(* The region ends at mem_max_addr: memlib allocates only that much.     *)
(***************************************************************************)
InRegion(s, p) == p \in Addrs /\ p < s.mem_max_addr
GET(s, p) == IF InRegion(s, p) THEN s.mem[p] ELSE 0
PUT(s, p, val) ==
  IF InRegion(s, p) THEN [s EXCEPT !.mem[p] = val] ELSE [s EXCEPT !.fault = TRUE]
PACK(size, alloc) == size + alloc
GET_SIZE(s, p) == (GET(s, p) \div 8) * 8
GET_ALLOC(s, p) == GET(s, p) % 2
HDRP(bp) == bp - WSIZE
FTRP(s, bp) == bp + GET_SIZE(s, HDRP(bp)) - DSIZE
NEXT_BLKP(s, bp) == bp + GET_SIZE(s, bp - WSIZE)
PREV_BLKP(s, bp) == bp - GET_SIZE(s, bp - DSIZE)
\* Mutant: the offset computed with its operands swapped.
MutPtrOffSwapped(s, p, ptr) == PUT(s, p, s.heap_listp - ptr)
PTR_OFF(s, p, ptr) == PUT(s, p, ptr - s.heap_listp)
OFF_PTR(s, p) == GET(s, p) + s.heap_listp

(***************************************************************************)
(* The memlib substrate (not part of src/): mem_init fixes mem_max_addr, *)
(* the region's end, at MAX_HEAP bytes past its start (address 0 here);  *)
(* mem_sbrk grows the break by incr bytes and returns the old break, or  *)
(* -1 (failure) when the break would pass mem_max_addr.                  *)
(***************************************************************************)
mem_sbrk(s, incr) ==
  IF s.brk + incr > s.mem_max_addr
  THEN [st |-> s, ret |-> -1]
  ELSE [st |-> [s EXCEPT !.brk = s.brk + incr], ret |-> s.brk]

(***************************************************************************)
(* Free-list node operations.  A node's first word is the offset of its  *)
(* successor, its second the offset of its predecessor, both relative to  *)
(* heap_listp; 0 is "none".  freelist_delete is four independent ifs,     *)
(* each re-reading the node's links, applied in the code's order.         *)
(* Each intermediate state is handed to the next step as a parameter.     *)
(***************************************************************************)
\* The non-empty-list branch after bp's own words are written: the old
\* head's prev link, then the head word, both set to bp.
LinkAtHead(s, bp) ==
  PTR_OFF(PTR_OFF(s, OFF_PTR(s, s.free_listp) + WSIZE, bp), s.free_listp, bp)

\* Mutant: the head is updated before the old head is read.
MutInsertHeadFirst(s, bp) ==
  IF GET(s, s.free_listp) = 0
  THEN PUT(PUT(PTR_OFF(s, s.free_listp, bp), bp, 0), bp + WSIZE, 0)
  ELSE LET s0 == PTR_OFF(s, s.free_listp, bp)
       IN  LinkAtHead(PUT(PUT(s0, bp, GET(s0, s0.free_listp)), bp + WSIZE, 0), bp)

freelist_insert(s, bp) ==
  IF GET(s, s.free_listp) = 0
  THEN PUT(PUT(PTR_OFF(s, s.free_listp, bp), bp, 0), bp + WSIZE, 0)
  ELSE LinkAtHead(PUT(PUT(s, bp, GET(s, s.free_listp)), bp + WSIZE, 0), bp)

DeleteOnly(s, bp) ==
  IF GET(s, bp) = 0 /\ GET(s, bp + WSIZE) = 0
  THEN PUT(s, s.free_listp, 0) ELSE s
DeleteLast(s, bp) ==
  IF GET(s, bp) = 0 /\ GET(s, bp + WSIZE) # 0
  THEN PUT(s, OFF_PTR(s, bp + WSIZE), 0) ELSE s
\* Mutant: unlinking the first node leaves the head word alone.
MutDeleteFirstKeepsHead(s, bp) ==
  IF GET(s, bp) # 0 /\ GET(s, bp + WSIZE) = 0
  THEN PUT(s, OFF_PTR(s, bp) + WSIZE, 0)
  ELSE s
DeleteFirst(s, bp) ==
  IF GET(s, bp) # 0 /\ GET(s, bp + WSIZE) = 0
  THEN LET s1 == PUT(s, OFF_PTR(s, bp) + WSIZE, 0)
       IN  PUT(s1, s1.free_listp, GET(s1, bp))
  ELSE s
DeleteMiddle(s, bp) ==
  IF GET(s, bp) # 0 /\ GET(s, bp + WSIZE) # 0
  THEN LET s1 == PUT(s, OFF_PTR(s, bp) + WSIZE, GET(s, bp + WSIZE))
       IN  PUT(s1, OFF_PTR(s1, bp + WSIZE), GET(s1, bp))
  ELSE s
freelist_delete(s, bp) ==
  DeleteMiddle(DeleteFirst(DeleteLast(DeleteOnly(s, bp), bp), bp), bp)

(***************************************************************************)
(* coalesce: the four boundary-tag cases, chosen by the allocation bits  *)
(* of the left neighbour's footer and the right neighbour's header.      *)
(* Each returns the new state and the (possibly moved) block pointer.    *)
(***************************************************************************)
\* PUT(HDRP(bp), tag) then PUT(FTRP(bp), tag): the footer is found through
\* the header just written.
SetTags(s, bp, tag) ==
  LET s1 == PUT(s, HDRP(bp), tag) IN PUT(s1, FTRP(s1, bp), tag)

\* "bp = PREV_BLKP(bp); freelist_insert(bp);" closing cases 3 and 4.
MovePrev(s, bp) ==
  LET nbp == PREV_BLKP(s, bp) IN [st |-> freelist_insert(s, nbp), bp |-> nbp]

\* Case 1: both neighbours allocated.
CoalesceNone(s, bp) == [st |-> freelist_insert(s, bp), bp |-> bp]

\* Case 2: right neighbour free.  The code absorbs it into bp without
\* calling freelist_delete on it.  (case2 is a ghost field recording that
\* this case was taken.)
CoalesceNext(s, bp) ==
  LET size == GET_SIZE(s, HDRP(bp)) + GET_SIZE(s, HDRP(NEXT_BLKP(s, bp)))
      s2   == freelist_insert(SetTags(s, bp, PACK(size, 0)), bp)
  IN  [st |-> [s2 EXCEPT !.case2 = TRUE], bp |-> bp]

\* Case 3, after the left neighbour is unlinked (size0 is bp's size).
MergePrev(s, bp, size0) ==
  LET size == size0 + GET_SIZE(s, HDRP(PREV_BLKP(s, bp)))
      s2   == PUT(s, FTRP(s, bp), PACK(size, 0))
  IN  MovePrev(PUT(s2, HDRP(PREV_BLKP(s2, bp)), PACK(size, 0)), bp)

\* Case 3: left neighbour free.
CoalescePrev(s, bp) ==
  MergePrev(freelist_delete(s, PREV_BLKP(s, bp)), bp, GET_SIZE(s, HDRP(bp)))

\* Case 4, after both neighbours are unlinked.
MergeBoth(s, bp, size0) ==
  LET size == size0 + GET_SIZE(s, HDRP(PREV_BLKP(s, bp)))
                    + GET_SIZE(s, FTRP(s, NEXT_BLKP(s, bp)))
      s3   == PUT(s, HDRP(PREV_BLKP(s, bp)), PACK(size, 0))
  IN  MovePrev(PUT(s3, FTRP(s3, NEXT_BLKP(s3, bp)), PACK(size, 0)), bp)

\* Case 4: both neighbours free.
CoalesceBoth(s, bp) ==
  LET s1 == freelist_delete(s, PREV_BLKP(s, bp))
  IN  MergeBoth(freelist_delete(s1, NEXT_BLKP(s1, bp)), bp,
                GET_SIZE(s, HDRP(bp)))

\* Mutant: a free left neighbour with an allocated right one is ignored.
MutCoalesceNoCase3(s, bp) ==
  LET next_alloc == GET_ALLOC(s, HDRP(NEXT_BLKP(s, bp)))
      prev_alloc == GET_ALLOC(s, FTRP(s, PREV_BLKP(s, bp)))
  IN  CASE next_alloc = 1                   -> CoalesceNone(s, bp)
        [] prev_alloc = 1 /\ next_alloc = 0 -> CoalesceNext(s, bp)
        [] OTHER                            -> CoalesceBoth(s, bp)

coalesce(s, bp) ==
  LET prev_alloc == GET_ALLOC(s, FTRP(s, PREV_BLKP(s, bp)))
      next_alloc == GET_ALLOC(s, HDRP(NEXT_BLKP(s, bp)))
  IN  CASE prev_alloc = 1 /\ next_alloc = 1 -> CoalesceNone(s, bp)
        [] prev_alloc = 1 /\ next_alloc = 0 -> CoalesceNext(s, bp)
        [] prev_alloc = 0 /\ next_alloc = 1 -> CoalescePrev(s, bp)
        [] OTHER                            -> CoalesceBoth(s, bp)

(***************************************************************************)
(* extend_heap: round to an even word count, take the space from         *)
(* mem_sbrk, lay a free block over the old epilogue, write a new         *)
(* epilogue and coalesce with a free left neighbour.                      *)
(***************************************************************************)
NewEpilogue(s, bp) == PUT(s, HDRP(NEXT_BLKP(s, bp)), PACK(0, 1))

extend_heap(s, words) ==
  LET size == IF words % 2 = 1 THEN (words + 1) * WSIZE ELSE words * WSIZE
      r    == mem_sbrk(s, size)
  IN  IF r.ret = -1 THEN [st |-> s, bp |-> NULL]
      ELSE coalesce(NewEpilogue(SetTags(r.st, r.ret, PACK(size, 0)), r.ret),
                    r.ret)

(***************************************************************************)
(* place: unlink the chosen block, then split off the tail when at least *)
(* 2*DSIZE bytes would remain, or hand out the whole block.              *)
(***************************************************************************)
\* The split remainder of rsize bytes after the block at bp: tagged free
\* and pushed on the list.
Remainder(s, bp, rsize) ==
  LET nbp == NEXT_BLKP(s, bp)
  IN  freelist_insert(SetTags(s, nbp, PACK(rsize, 0)), nbp)

\* Mutant: the split threshold is DSIZE, leaving 8-byte remainders.
MutPlaceInSplitAtDsize(s, bp, asize, csize) ==
  IF csize - asize >= DSIZE
  THEN Remainder(SetTags(s, bp, PACK(asize, 1)), bp, csize - asize)
  ELSE SetTags(s, bp, PACK(csize, 1))

\* place after freelist_delete(bp); csize is the block's size.
PlaceIn(s, bp, asize, csize) ==
  IF csize - asize >= 2 * DSIZE
  THEN Remainder(SetTags(s, bp, PACK(asize, 1)), bp, csize - asize)
  ELSE SetTags(s, bp, PACK(csize, 1))

\* Mutant: the placed block is never unlinked from the free list.
MutPlaceNoUnlink(s, bp, asize) == PlaceIn(s, bp, asize, GET_SIZE(s, HDRP(bp)))

place(s, bp, asize) ==
  PlaceIn(freelist_delete(s, bp), bp, asize, GET_SIZE(s, HDRP(bp)))

(***************************************************************************)
(* find_fit (first fit, NEXT_FIT is not defined): walk the list from the *)
(* head until a block of at least asize bytes or a node whose next is 0. *)
(* The walk is a function of the node it is at; after more steps than    *)
(* the heap has words it has revisited a node and loops for ever.        *)
(***************************************************************************)
RECURSIVE FitFrom(_, _, _, _)
FitFrom(s, bp, asize, steps) ==
  CASE steps > NWORDS                    -> HANG
    [] GET_SIZE(s, HDRP(bp)) >= asize    -> bp
    [] GET(s, bp) = 0                    -> NULL
    [] OTHER -> FitFrom(s, OFF_PTR(s, bp), asize, steps + 1)

find_fit(s, asize) ==
  IF GET(s, s.free_listp) = 0 THEN NULL
  ELSE FitFrom(s, OFF_PTR(s, s.free_listp), asize, 0)

(***************************************************************************)
(* The public entry points.  mm_init is only ever entered with an empty  *)
(* heap, so its first mem_sbrk cannot fail under the ASSUME above (its   *)
(* early return, heap_listp = (void * )-1, is kept all the same); the    *)
(* failure of its extend_heap leaves the prologue and epilogue in place. *)
(***************************************************************************)
mm_init(s) ==
  LET r  == mem_sbrk(s, 6 * WSIZE)
      b  == r.ret
      s1 == PUT(PUT(PUT(PUT(PUT(r.st, b, 0), b + WSIZE, 0),
                b + 3 * WSIZE, PACK(DSIZE, 1)), b + 4 * WSIZE, PACK(DSIZE, 1)),
                b + 5 * WSIZE, PACK(0, 1))
  IN  IF b = -1 THEN [r.st EXCEPT !.heap_listp = -1]
      ELSE extend_heap([s1 EXCEPT !.free_listp = b + WSIZE,
                                  !.heap_listp = b + 4 * WSIZE],
                       ChunkWordsAsExpanded).st

\* mm_malloc and mm_free start with "if (heap_listp == 0) mm_init();",
\* ignoring its result.
LazyInit(s) == IF s.heap_listp = 0 THEN mm_init(s) ELSE s

\* Mutant: the header and footer overhead is left out of the rounding.
MutAdjustedSizeNoOverhead(size) ==
  IF size <= DSIZE THEN 2 * DSIZE
  ELSE DSIZE * (((size + (DSIZE - 1)) % SIZE_T_RANGE) \div DSIZE)

\* The adjusted block size: header, footer and 8-byte alignment.  The sum
\* is a size_t: it wraps for sizes within 15 of SIZE_MAX.
AdjustedSize(size) ==
  IF size <= DSIZE THEN 2 * DSIZE
  ELSE DSIZE * (((size + DSIZE + (DSIZE - 1)) % SIZE_T_RANGE) \div DSIZE)

\* No fit: the block extend_heap returned, placed, or NULL.
PlaceExtended(ext, asize) ==
  IF ext.bp = NULL THEN ext
  ELSE [st |-> place(ext.st, ext.bp, asize), bp |-> ext.bp]

\* What find_fit returned decides between place and extend_heap.
PlaceFit(s, asize, fit) ==
  CASE fit = HANG -> [st |-> s, bp |-> HANG]
    [] fit # NULL -> [st |-> place(s, fit, asize), bp |-> fit]
    [] OTHER      -> PlaceExtended(extend_heap(s, MaxOf(asize, CHUNKSIZE) \div WSIZE),
                                   asize)

\* Returns [st, bp]; bp is the payload, NULL, or HANG when find_fit loops.
mm_malloc(s, size) ==
  LET s0 == LazyInit(s)
  IN  IF size = 0 THEN [st |-> s0, bp |-> NULL]
      ELSE PlaceFit(s0, AdjustedSize(size), find_fit(s0, AdjustedSize(size)))

mm_free(s, bp) ==
  IF bp = NULL THEN s
  ELSE coalesce(SetTags(LazyInit(s), bp, PACK(GET_SIZE(s, HDRP(bp)), 0)), bp).st

\* memcpy of n bytes, n a multiple of the word size.
memcpy(s, dst, src, n) ==
  [s EXCEPT !.mem = [a \in Addrs |->
      IF dst <= a /\ a < dst + n THEN GET(s, src + (a - dst)) ELSE s.mem[a]]]

\* Mutant: the old block is copied from but never freed.
MutCopyAndFreeNoFree(m, ptr, size) ==
  IF m.bp \in {NULL, HANG} THEN m
  ELSE [st |-> memcpy(m.st, m.bp, ptr, MinOf(size, GET_SIZE(m.st, HDRP(ptr)))),
        bp |-> m.bp]

\* Mutant: the old block is freed before its payload is copied.
MutCopyAndFreeFreeFirst(m, ptr, size) ==
  IF m.bp \in {NULL, HANG} THEN m
  ELSE [st |-> memcpy(mm_free(m.st, ptr), m.bp, ptr,
                      MinOf(size, GET_SIZE(m.st, HDRP(ptr)))),
        bp |-> m.bp]

\* The new block m came from mm_malloc: copy min(size, old block size)
\* bytes and free the old block, or give up leaving it untouched.
CopyAndFree(m, ptr, size) ==
  IF m.bp \in {NULL, HANG} THEN m
  ELSE [st |-> mm_free(memcpy(m.st, m.bp, ptr,
                              MinOf(size, GET_SIZE(m.st, HDRP(ptr)))), ptr),
        bp |-> m.bp]

\* Mutant: realloc(ptr, 0) returns NULL without freeing ptr.
Mutmm_reallocZeroNoFree(s, ptr, size) ==
  CASE size = 0    -> [st |-> s, bp |-> NULL]
    [] ptr = NULL  -> mm_malloc(s, size)
    [] OTHER       -> CopyAndFree(mm_malloc(s, size), ptr, size)

mm_realloc(s, ptr, size) ==
  CASE size = 0    -> [st |-> mm_free(s, ptr), bp |-> NULL]
    [] ptr = NULL  -> mm_malloc(s, size)
    [] OTHER       -> CopyAndFree(mm_malloc(s, size), ptr, size)

\* A word whose k lowest-addressed bytes are set to 0 (little-endian).
ZeroLowBytes(w, k) == IF k >= WSIZE THEN 0 ELSE (w \div (256 ^ k)) * (256 ^ k)

\* memset(p, 0, n): every byte of [p, p + n) becomes 0.  A write through
\* NULL, or past the memlib region, is a crash.
memset(s, p, n) ==
  IF n > 0 /\ (p = NULL \/ p + n > s.mem_max_addr) THEN [s EXCEPT !.fault = TRUE]
  ELSE [s EXCEPT !.mem = [a \in Addrs |->
          IF p <= a /\ a < p + n THEN ZeroLowBytes(s.mem[a], MinOf(WSIZE, p + n - a))
          ELSE s.mem[a]]]

\* Mutant: the whole block is cleared, footer included.
MutZeroPayloadWholeBlock(m, bytes) ==
  IF m.bp = HANG THEN m
  ELSE [m EXCEPT !.st = memset(m.st, m.bp, GET_SIZE(m.st, HDRP(m.bp)) - WSIZE)]

\* calloc's memset of what malloc returned, NULL included; a malloc that
\* never returns leaves nothing to clear.
ZeroPayload(m, bytes) ==
  IF m.bp = HANG THEN m ELSE [m EXCEPT !.st = memset(m.st, m.bp, bytes)]

\* calloc: nmemb * size in size_t arithmetic, malloc, then memset.  The
\* "malloc" of mm.c is mm_malloc in the driver build (mm.h's macros).
calloc(s, nmemb, size) ==
  ZeroPayload(mm_malloc(s, (nmemb * size) % SIZE_T_RANGE), (nmemb * size) % SIZE_T_RANGE)

(***************************************************************************)
(* The state machine.  The allocator's words and globals are variables;  *)
(* held is the client's view: the payloads it has been handed and not    *)
(* yet freed, with the byte count it asked for; ret is what the last     *)
(* call returned.  Clients only pass pointers they hold (double free and *)
(* wild pointers are undefined behaviour) and never write into payloads. *)
(* case2Seen is a history variable: some mm_free has coalesced a block   *)
(* with a free right neighbour and an allocated left one (case 2).       *)
(***************************************************************************)
(* The heap checker, mm_checkheap(0): it changes nothing and prints one   *)
(* line per failed check, so it is modelled as the set of errors it       *)
(* prints, each a check's name and the block it is about.  With verbose  *)
(* 0, printblock is never called.                                         *)
(***************************************************************************)
\* The checks of checkblock(bp) that fail.  The last reads the size from
\* bp itself, as the code does, not from the header.
CheckblockFailures(s, bp) ==
  {c \in {"alignment", "tags", "coalesced", "min_size"} :
     CASE c = "alignment" -> bp % DSIZE # 0
       [] c = "tags"      -> GET(s, HDRP(bp)) # GET(s, FTRP(s, bp))
       [] c = "coalesced" -> GET_ALLOC(s, HDRP(bp)) = 1
                             /\ GET_ALLOC(s, HDRP(NEXT_BLKP(s, bp))) = 1
       [] c = "min_size"  -> GET_SIZE(s, bp) < 2 * DSIZE}

checkblock(s, bp) == {<<c, bp>> : c \in CheckblockFailures(s, bp)}

\* The final check, on the block whose header has size 0.
EpilogueCheck(s, bp) ==
  IF GET_SIZE(s, HDRP(bp)) # 0 \/ GET_ALLOC(s, HDRP(bp)) = 0
  THEN {<<"epilogue", bp>>} ELSE {}

\* The loop from heap_listp while the header's size is positive.  Sizes
\* are multiples of 8, so bp strictly grows, and a word past the region
\* reads as 0: the walk ends.
RECURSIVE CheckBlocksFrom(_, _)
CheckBlocksFrom(s, bp) ==
  IF GET_SIZE(s, HDRP(bp)) > 0
  THEN checkblock(s, bp) \cup CheckBlocksFrom(s, NEXT_BLKP(s, bp))
  ELSE EpilogueCheck(s, bp)

PrologueCheck(s) ==
  LET hl == s.heap_listp
  IN  (IF GET_SIZE(s, HDRP(hl)) # DSIZE \/ GET_ALLOC(s, HDRP(hl)) = 0
       THEN {<<"prologue header", hl>>} ELSE {})
      \cup (IF GET_SIZE(s, FTRP(s, hl)) # DSIZE \/ GET_ALLOC(s, FTRP(s, hl)) = 0
             THEN {<<"prologue footer", hl>>} ELSE {})

mm_checkheap(s) ==
  PrologueCheck(s) \cup checkblock(s, s.heap_listp) \cup CheckBlocksFrom(s, s.heap_listp)

(***************************************************************************)
(* Verbose mode, mm_checkheap(1).  Its output is a sequence of lines; the *)
(* error lines of one check are one element <<"errors", set>>.  A block   *)
(* is described as <<"block", [bp, hsize, halloc, fsize, falloc]>>, the   *)
(* block with a 0-size header as <<"eol", bp>>.                          *)
(***************************************************************************)
\* printblock(bp) runs mm_checkheap(0) itself, then reads both tags.
printblock(s, bp) ==
  << <<"errors", mm_checkheap(s)>>,
     IF GET_SIZE(s, HDRP(bp)) = 0
     THEN <<"eol", bp>>
     ELSE <<"block", [bp |-> bp,
                      hsize |-> GET_SIZE(s, HDRP(bp)), halloc |-> GET_ALLOC(s, HDRP(bp)),
                      fsize |-> GET_SIZE(s, FTRP(s, bp)), falloc |-> GET_ALLOC(s, FTRP(s, bp))]>> >>

\* The verbose loop: printblock, then checkblock, for every block with a
\* positive size; then printblock and the epilogue check on the last.
RECURSIVE PrintBlocksFrom(_, _)
PrintBlocksFrom(s, bp) ==
  IF GET_SIZE(s, HDRP(bp)) > 0
  THEN printblock(s, bp) \o <<<<"errors", checkblock(s, bp)>>>>
         \o PrintBlocksFrom(s, NEXT_BLKP(s, bp))
  ELSE printblock(s, bp) \o <<<<"errors", EpilogueCheck(s, bp)>>>>

mm_checkheap_verbose(s) ==
  << <<"heading", s.heap_listp>>,
     <<"errors", PrologueCheck(s) \cup checkblock(s, s.heap_listp)>> >>
  \o PrintBlocksFrom(s, s.heap_listp)

(***************************************************************************)
VARIABLES mem, brk, heap_listp, free_listp, held, ret, status, case2Seen,
  mem_max_addr \* memlib's region end, fixed by mem_init

vars == <<mem, brk, heap_listp, free_listp, held, ret, status, case2Seen,
          mem_max_addr>>

\* The allocator's state as the operators above see it; case2 is the
\* history variable case2Seen, set by CoalesceNext.
Alloc == [mem |-> mem, brk |-> brk, heap_listp |-> heap_listp,
          free_listp |-> free_listp, case2 |-> case2Seen, fault |-> FALSE,
          mem_max_addr |-> mem_max_addr]

Commit(s) ==
  /\ mem' = s.mem
  /\ brk' = s.brk
  /\ heap_listp' = s.heap_listp
  /\ free_listp' = s.free_listp
  /\ case2Seen' = s.case2
  /\ UNCHANGED mem_max_addr

NoPayload == <<NULL, 0>>

\* A call's outcome: its new state, whether it hangs, and what it hands out.
\* A call whose find_fit loops never returns: status becomes "hung"; one
\* that wrote outside the heap's words has undefined behaviour: "fault".
\* Every action requires "running", so no further call is made.
Outcome(s, bp) ==
  status' = CASE bp = HANG -> "hung" [] s.fault -> "fault" [] OTHER -> "running"

Finish(r, n, keep) ==
  /\ Commit(r.st)
  /\ Outcome(r.st, r.bp)
  /\ ret' = IF r.bp \in {NULL, HANG} THEN NoPayload ELSE <<r.bp, n>>
  /\ held' = IF r.bp \in {NULL, HANG} THEN keep ELSE keep \cup {<<r.bp, n>>}

Init ==
  /\ mem = [a \in Addrs |-> 0]
  /\ brk = 0
  /\ heap_listp = 0
  /\ free_listp = 0
  /\ held = {}
  /\ ret = NoPayload
  /\ status = "running"
  /\ case2Seen = FALSE
  /\ mem_max_addr \in HEAP_SIZES

MmInit ==
  /\ status = "running"
  /\ heap_listp = 0
  /\ Finish([st |-> mm_init(Alloc), bp |-> NULL], 0, held)

Malloc(n) ==
  /\ status = "running"
  /\ Finish(mm_malloc(Alloc, n), n, held)

Free(h) ==
  /\ status = "running"
  /\ Finish([st |-> mm_free(Alloc, h[1]), bp |-> NULL], 0, held \ {h})

\* realloc(h, 0) and a successful realloc give h up; a failed one keeps it.
ReallocDone(r, h, n) ==
  Finish(r, n, IF n = 0 \/ r.bp \notin {NULL, HANG} THEN held \ {h} ELSE held)

\* h is a held payload, or NoPayload for realloc(NULL, n).
Realloc(h, n) ==
  /\ status = "running"
  /\ ReallocDone(mm_realloc(Alloc, h[1], n), h, n)

Next ==
  \/ MmInit
  \/ \E n \in Requests \cup {0} : Malloc(n)
  \/ \E h \in held : Free(h)
  \/ \E h \in held \cup {NoPayload}, n \in Requests \cup {0} : Realloc(h, n)

Spec == Init /\ [][Next]_vars

\* The client asked calloc for nmemb * size bytes.
Calloc(nm, sz) ==
  /\ status = "running"
  /\ Finish(calloc(Alloc, nm, sz), nm * sz, held)

\* The allocator together with its calloc entry point.
NextWithCalloc == Next \/ \E a \in CallocArgs : Calloc(a[1], a[2])

SpecWithCalloc == Init /\ [][NextWithCalloc]_vars

\* The client calls mm_init again once heap_listp is set.  The spec makes
\* init() idempotent then; mm_init runs in full: a new mem_sbrk, whose
\* result, -1 included, replaces heap_listp, and a new prologue and list.
MmReinit ==
  /\ status = "running"
  /\ heap_listp # 0
  /\ Finish([st |-> mm_init(Alloc), bp |-> NULL], 0, held)

NextWithReinit == Next \/ MmReinit

SpecWithReinit == Init /\ [][NextWithReinit]_vars

(***************************************************************************)
(* Views of the heap used by the properties: the physical block chain    *)
(* from the prologue to the first zero-size header, and the free list    *)
(* from its head word.  Both walks are bounded by the number of words,  *)
(* and a malformed walk yields a sequence no property accepts.           *)
(***************************************************************************)
RECURSIVE ChainFrom(_, _, _)
ChainFrom(s, bp, steps) ==
  CASE steps > NWORDS \/ HDRP(bp) \notin Addrs -> <<>>
    [] GET_SIZE(s, HDRP(bp)) = 0               -> <<bp>>
    [] OTHER -> <<bp>> \o ChainFrom(s, NEXT_BLKP(s, bp), steps + 1)

RECURSIVE ListFrom(_, _, _)
ListFrom(s, bp, steps) ==
  CASE steps > NWORDS                 -> <<HANG>>
    [] bp + WSIZE \notin Addrs        -> <<bp>>
    [] GET(s, bp) = 0                 -> <<bp>>
    [] OTHER -> <<bp>> \o ListFrom(s, OFF_PTR(s, bp), steps + 1)

Chain == ChainFrom(Alloc, heap_listp + DSIZE, 0)
Blocks == {Chain[i] : i \in 1 .. Len(Chain) - 1}
Epilogue == Chain[Len(Chain)]
IsFree(b) == GET_ALLOC(Alloc, HDRP(b)) = 0
FreeBlocks == {b \in Blocks : IsFree(b)}
FreeList ==
  IF GET(Alloc, free_listp) = 0 THEN <<>>
  ELSE ListFrom(Alloc, OFF_PTR(Alloc, free_listp), 0)
Disjoint(h, g) == h[1] + h[2] <= g[1] \/ g[1] + g[2] <= h[1]

(***************************************************************************)
(* Properties.                                                           *)
(***************************************************************************)
TypeOK ==
  /\ mem \in [Addrs -> Nat]
  /\ mem_max_addr \in HEAP_SIZES
  /\ brk \in 0 .. mem_max_addr /\ brk % DSIZE = 0
  /\ heap_listp \in Addrs /\ free_listp \in Addrs
  /\ held \subseteq Addrs \X Requests
  /\ ret \in (Addrs \X Requests) \cup {NoPayload}
  /\ status \in {"running", "hung", "fault"}

\* The block chain mm_checkheap walks is intact: the prologue is an
\* allocated 8-byte block, NEXT_BLKP steps from it through blocks of at
\* least 16 bytes whose header equals their footer, and ends exactly at an
\* epilogue header in the last word below the break.  Breaking it takes a
\* wrong size or footer address in any of extend_heap, place, mm_free or
\* the four coalesce cases.
HeapWellFormed ==
  heap_listp # 0 =>
    /\ GET(Alloc, HDRP(heap_listp)) = PACK(DSIZE, 1)
    /\ GET(Alloc, heap_listp) = PACK(DSIZE, 1)
    /\ Chain # <<>>
    /\ HDRP(Epilogue) = brk - WSIZE
    /\ GET(Alloc, HDRP(Epilogue)) = PACK(0, 1)
    /\ \A b \in Blocks :
         /\ b % DSIZE = 0
         /\ GET_SIZE(Alloc, HDRP(b)) >= 2 * DSIZE
         /\ GET(Alloc, HDRP(b)) = GET(Alloc, FTRP(Alloc, b))

\* Coalescing keeps free blocks maximal: no two physically adjacent
\* blocks are both free, whatever order the frees came in.
NoAdjacentFree ==
  \A i \in 1 .. Len(Chain) - 2 : ~(IsFree(Chain[i]) /\ IsFree(Chain[i + 1]))

\* The free list holds exactly the free blocks of the heap, each once,
\* with every prev link the offset of the node before it (spec invariants
\* 4 and 5).  This is what coalesce, place and the freelist operations
\* must keep in step with the headers.
FreeListMatchesHeap ==
  heap_listp # 0 =>
    LET L == FreeList IN
    /\ {L[i] : i \in 1 .. Len(L)} = FreeBlocks
    /\ Len(L) = Cardinality(FreeBlocks)
    /\ \A i \in 1 .. Len(L) :
         GET(Alloc, L[i] + WSIZE) = IF i = 1 THEN 0 ELSE L[i - 1] - heap_listp

\* Every payload a client holds is still an allocated block of the chain,
\* large enough for the bytes it asked for.
HeldBlocksAllocated ==
  \A h \in held :
    /\ h[1] \in Blocks
    /\ ~IsFree(h[1])
    /\ GET_SIZE(Alloc, HDRP(h[1])) - DSIZE >= h[2]

\* mm_malloc and mm_realloc never hand out bytes that overlap a payload
\* the client still holds (for realloc, the old block included).
HandoutIsFresh ==
  [][ret' # NoPayload => \A h \in held : Disjoint(ret', h)]_vars

\* mm_checkheap's comments name what it checks: prologue, alignment,
\* header against footer, "no consecutive free blocks", minimum size and
\* epilogue.  It prints an error exactly when the heap breaks the layout
\* the allocator keeps, or leaves two free blocks side by side.
CheckHeapAgrees ==
  heap_listp # 0 =>
    ((mm_checkheap(Alloc) = {}) <=> (HeapWellFormed /\ NoAdjacentFree))

\* The dump mm_checkheap(1) prints is a map of the heap: its block lines
\* are the prologue, then blocks whose footer reads as their header, then
\* EOL at the epilogue; and the blocks it marks allocated, past the
\* prologue, are exactly the payloads the client holds.  So no sequence
\* of malloc, free and realloc leaves an allocated block nobody holds (a
\* leak), or a held block marked free.
VerboseDumpShowsHeldBlocks ==
  heap_listp # 0 =>
    LET descr   == SelectSeq(mm_checkheap_verbose(Alloc),
                             LAMBDA e : e[1] \in {"block", "eol"})
        n       == Len(descr)
        Line(i) == descr[i][2]
    IN  /\ n >= 2
        /\ \A i \in 1 .. n - 1 :
             /\ descr[i][1] = "block"
             /\ Line(i).fsize = Line(i).hsize /\ Line(i).falloc = Line(i).halloc
        /\ Line(1).bp = heap_listp /\ Line(1).hsize = DSIZE /\ Line(1).halloc = 1
        /\ descr[n][1] = "eol" /\ Line(n) = Epilogue
        /\ {Line(i).bp : i \in {j \in 2 .. n - 1 : Line(j).halloc = 1}}
             = {h[1] : h \in held}

\* Every call returns normally: find_fit never walks a cyclic free list,
\* and no call writes outside the heap's words.
CallsReturn == status = "running"

\* mm_malloc's find_fit always terminates: the free list never contains a
\* cycle when it is walked.
FindFitTerminates == status # "hung"

\* mm_init plants one free block of CHUNKSIZE bytes (spec 4.1, scenario 2).
InitialBlockIsChunk ==
  [][heap_listp = 0 /\ heap_listp' # 0 /\ held' = {}
       => GET_SIZE(Alloc, HDRP(heap_listp + DSIZE))' = CHUNKSIZE]_vars

(***************************************************************************)
(* The same properties over the behaviours in which no mm_free has yet   *)
(* taken coalesce case 2 (the case whose defect the unguarded properties *)
(* expose): extend_heap, place with and without a split, cases 1, 3 and *)
(* 4, find_fit and mm_realloc must keep them on their own.               *)
(***************************************************************************)
BeforeCase2 == ~case2Seen

\* Until a case-2 merge, the block chain stays intact.
HeapWellFormedBeforeCase2 == BeforeCase2 => HeapWellFormed

\* Until a case-2 merge, no two adjacent blocks are free.
NoAdjacentFreeBeforeCase2 == BeforeCase2 => NoAdjacentFree

\* Until a case-2 merge, the free list is exactly the free blocks.
FreeListMatchesHeapBeforeCase2 == BeforeCase2 => FreeListMatchesHeap

\* Until a case-2 merge, held payloads are allocated blocks big enough.
HeldBlocksAllocatedBeforeCase2 == BeforeCase2 => HeldBlocksAllocated

\* Until a case-2 merge, the verbose dump shows exactly the held blocks
\* as allocated.
VerboseDumpShowsHeldBlocksBeforeCase2 ==
  BeforeCase2 => VerboseDumpShowsHeldBlocks

\* Until a case-2 merge, every handout is disjoint from the held payloads.
HandoutIsFreshBeforeCase2 ==
  [][BeforeCase2' => (ret' # NoPayload => \A h \in held : Disjoint(ret', h))]_vars

\* mm_realloc keeps the client's data: after the call the first
\* min(n, old n) bytes of the new payload hold what the old payload held
\* before it (the spec's realloc preservation), although the same call
\* frees the old block and rewrites its words.  A realloc step is one
\* that gives up one held block h and hands out another, r.
ReallocPreserves ==
  \A h \in held \ held', r \in held' \ held :
    \A a \in Addrs :
      h[1] <= a /\ a < h[1] + MinOf(h[2], r[2]) => mem'[r[1] + (a - h[1])] = mem[a]

\* Until a case-2 merge, every realloc preserves the old payload's bytes.
ReallocPreservesPayloadBeforeCase2 ==
  [][BeforeCase2' => ReallocPreserves]_vars

\* Until a case-2 merge, every call returns.
CallsReturnBeforeCase2 == BeforeCase2 => CallsReturn

(***************************************************************************)
(* Refinement: the heap as the chain of blocks from the prologue to the   *)
(* epilogue, each a size and a free flag, is the HeapBlocks heap.  Free   *)
(* lists, tags and search order are the implementation's own.  The first *)
(* block's payload follows the mem_sbrk of mm_init, which starts the      *)
(* region; allocated blocks lose header and footer to overhead.       *)
(***************************************************************************)
\* The chain's blocks up to the epilogue, each as its size and free flag;
\* every size is a positive multiple of 8, so the walk moves forward.
AbstractBlocks ==
  LET s == Alloc
      walk[bp \in Nat] ==
        IF HDRP(bp) \notin Addrs \/ GET_SIZE(s, HDRP(bp)) = 0 THEN <<>>
        ELSE << [size |-> GET_SIZE(s, HDRP(bp)), free |-> GET_ALLOC(s, HDRP(bp)) = 0] >>
               \o walk[NEXT_BLKP(s, bp)]
  IN  IF heap_listp = 0 THEN <<>> ELSE walk[heap_listp + DSIZE]

HB == INSTANCE HeapBlocks
        WITH blocks <- AbstractBlocks, held <- held,
             FirstPayload <- 6 * WSIZE, MinBlock <- 2 * DSIZE, Align <- DSIZE,
             Overhead <- DSIZE, Requests <- Requests

\* Every call of the allocator is a HeapBlocks step or leaves the block
\* chain and the client's blocks as they were: blocks are only split off
\* free ones, grown at the end, merged with free neighbours when freed,
\* and handed out where the client receives them.
RefinesHeapBlocks == HB!Spec
====
