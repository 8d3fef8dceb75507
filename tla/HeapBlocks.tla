----------------------------- MODULE HeapBlocks -----------------------------
(***************************************************************************)
(* What both allocators promise about the heap, with no free lists, size  *)
(* classes, boundary tags or search order: the heap is a sequence of      *)
(* blocks, each with a size and a free flag, laid out from FirstPayload   *)
(* on.  The client holds some of the allocated blocks.  A step either     *)
(*   - grows the heap by free space, merged with a free last block;       *)
(*   - allocates a free block (possibly after growing), splitting off a   *)
(*     free remainder when it is at least MinBlock bytes;                 *)
(*   - frees a held block and merges it with its free neighbours;         *)
(*   - moves a held block (realloc): allocates, then frees the old one.   *)
(*                                                                         *)
(* The amount a step grows the heap by is read off the sizes of the two   *)
(* states, so a step is a relation Step(bs, hd, nbs, nhd) between the     *)
(* blocks and held set before (bs, hd) and after (nbs, nhd) it; Next      *)
(* applies it to the variables and their primed values.                   *)
(***************************************************************************)
EXTENDS Integers, Sequences

CONSTANTS
  FirstPayload, \* payload address of the first block
  MinBlock,     \* smallest block: header, footer or links, and alignment
  Align,        \* block sizes are multiples of it
  Overhead,     \* bytes of a block that are not payload
  Requests      \* byte counts a client may ask for

VARIABLES blocks, held

hbvars == <<blocks, held>>

\* The bytes the blocks of bs span.
RECURSIVE Total(_)
Total(bs) == IF bs = <<>> THEN 0 ELSE Head(bs).size + Total(Tail(bs))

\* The payload address of block i.
Payload(bs, i) == FirstPayload + Total(SubSeq(bs, 1, i - 1))

\* bs with block i replaced by b.
SetBlock(bs, i, b) == SubSeq(bs, 1, i - 1) \o <<b>> \o SubSeq(bs, i + 1, Len(bs))

\* Block i, free, is handed out as asz bytes; the rest stays free if it can
\* form a block of its own, and is handed out with it otherwise.
Split(bs, i, asz) ==
  IF bs[i].size - asz >= MinBlock
  THEN SubSeq(bs, 1, i - 1)
         \o << [size |-> asz, free |-> FALSE],
              [size |-> bs[i].size - asz, free |-> TRUE] >>
         \o SubSeq(bs, i + 1, Len(bs))
  ELSE SetBlock(bs, i, [size |-> bs[i].size, free |-> FALSE])

\* Blocks i and i + 1 become one free block.
MergeAt(bs, i) ==
  SubSeq(bs, 1, i - 1)
    \o << [size |-> bs[i].size + bs[i + 1].size, free |-> TRUE] >>
    \o SubSeq(bs, i + 2, Len(bs))

MergeRight(bs, i) == IF i < Len(bs) /\ bs[i + 1].free THEN MergeAt(bs, i) ELSE bs
MergeLeft(bs, i) == IF i > 1 /\ bs[i - 1].free THEN MergeAt(bs, i - 1) ELSE bs

\* Block i is freed and merged with whichever neighbours are free.
FreeAt(bs, i) ==
  MergeLeft(MergeRight(SetBlock(bs, i, [size |-> bs[i].size, free |-> TRUE]), i), i)

\* g more bytes of free space at the end.
Grow(bs, g) ==
  CASE g = 0                      -> bs
    [] bs # <<>> /\ bs[Len(bs)].free ->
         SetBlock(bs, Len(bs), [size |-> bs[Len(bs)].size + g, free |-> TRUE])
    [] OTHER                      -> Append(bs, [size |-> g, free |-> TRUE])

\* The sizes a request of n bytes may be given from a block of size bytes.
AllocSizes(size, n) ==
  {a \in MinBlock .. size : a % Align = 0 /\ a - Overhead >= n}

\* The held block h, allocated in bs, is freed, leaving nbs.
Released(bs, h, nbs) ==
  \E i \in 1 .. Len(bs) :
    /\ Payload(bs, i) = h[1]
    /\ ~bs[i].free
    /\ nbs = FreeAt(bs, i)

GrowOnly(bs, hd, nbs, nhd) ==
  /\ Total(nbs) > Total(bs)
  /\ nbs = Grow(bs, Total(nbs) - Total(bs))
  /\ nhd = hd

\* gs is bs grown by whatever the step added; free block i of it is
\* handed out for a request of n bytes.
AllocateIn(gs, hd, nbs, nhd) ==
  \E i \in 1 .. Len(gs), n \in Requests :
    /\ nhd = hd \cup {<<Payload(gs, i), n>>}
    /\ gs[i].free
    /\ \E asz \in AllocSizes(gs[i].size, n) : nbs = Split(gs, i, asz)

Release(bs, hd, nbs, nhd) ==
  \E h \in hd : nhd = hd \ {h} /\ Released(bs, h, nbs)

\* The new block is carved out of gs first; the old one is freed after.
MoveIn(gs, hd, nbs, nhd) ==
  \E i \in 1 .. Len(gs), n \in Requests, h \in hd :
    /\ nhd = (hd \ {h}) \cup {<<Payload(gs, i), n>>}
    /\ gs[i].free
    /\ \E asz \in AllocSizes(gs[i].size, n) :
         Released(Split(gs, i, asz), h, nbs)

Step(bs, hd, nbs, nhd) ==
  \/ GrowOnly(bs, hd, nbs, nhd)
  \/ AllocateIn(Grow(bs, Total(nbs) - Total(bs)), hd, nbs, nhd)
  \/ Release(bs, hd, nbs, nhd)
  \/ MoveIn(Grow(bs, Total(nbs) - Total(bs)), hd, nbs, nhd)

Init ==
  /\ blocks = <<>>
  /\ held = {}

\* The two states' blocks are bound once, as values, for Step to compare.
Next == \E bs \in {blocks}, nbs \in {blocks'} : Step(bs, held, nbs, held')

Spec == Init /\ [][Next]_hbvars
====
