------------------------------- MODULE Malloc -------------------------------
(***************************************************************************)
(* Project 03: the allocator of src/posix.c over the free list of          *)
(* src/freelist.c and the blocks of src/block.c.  The heap is what lies    *)
(* between its start and the break; mem holds the header of each block in  *)
(* it, and that of the free list, under its address.  The library has no   *)
(* lock and one caller, so a call is one step.  Of the counters, the two   *)
(* that also go down are kept.                                             *)
(***************************************************************************)
EXTENDS Integers, FiniteSets, FiniteSetsExt, Functions

CONSTANTS Header,     \* sizeof(Block)
          Unit,       \* ALIGNMENT
          Threshold,  \* TRIM_THRESHOLD
          Wrap,       \* how many values a size_t has
          Start,      \* the break before the first call
          Limit,      \* bound: the highest break that sbrk grants
          Sizes,      \* bound: the sizes that are asked for
          Fits        \* the compile-time choices of FIT

\* The address of the sentinel is below the heap and not adjacent to it.
FreeList == 0

ASSUME LayoutAssumption == /\ {Header, Unit, Threshold, Start, Limit, Wrap} \subseteq Nat \ {0}
                           /\ Header % Unit = 0 /\ Start % Unit = 0 /\ Wrap % Unit = 0
                           /\ Header < Start /\ Start <= Limit /\ 2 * Limit < Wrap
ASSUME SizesAssumption  == Sizes \subseteq 0 .. Wrap - 1
ASSUME FitsAssumption   == Fits \subseteq {"first", "worst", "best"}

VARIABLES heap,   \* [mem, brk, blocks, size]: headers, break, BLOCKS, HEAP_SIZE
          live,   \* the blocks that callers hold
          asked,  \* history: the size each of them was last asked for with
          fit     \* FIT

vars == <<heap, live, asked, fit>>

Init == /\ heap = [mem    |-> [b \in {FreeList} |-> [capacity |-> 0, size |-> 0,
                                                     prev |-> FreeList, next |-> FreeList]],
                   brk    |-> Start,
                   blocks |-> 0,
                   size   |-> 0]
        /\ live = {}
        /\ asked = [b \in {} |-> 0]
        /\ fit \in Fits

\* f with x mapped to y.
With(f, x, y) == [z \in DOMAIN f \cup {x} |-> IF z = x THEN y ELSE f[z]]

-----------------------------------------------------------------------------
(* block.c, on a heap h.                                                   *)

\* Slip: the size is not rounded up.
AlignNot(n) == n % Wrap

Align(n) == LET m == (n + Unit - 1) % Wrap IN m - (m % Unit)

End(h, b) == b + Header + h.mem[b].capacity

\* What sbrk is asked to add for a block of n bytes: a sum of size_t's that is
\* passed on as a signed number.
Increment(n) == LET sum == (Header + Align(n)) % Wrap
                IN  IF 2 * sum < Wrap THEN sum ELSE sum - Wrap

CanGrow(h, n) == h.brk + Increment(n) \in Start .. Limit

\* block_allocate where sbrk succeeds: the block is at the old break.
Allocate(h, n) ==
  [mem    |-> With(h.mem, h.brk, [capacity |-> Align(n), size |-> n,
                                  prev |-> h.brk, next |-> h.brk]),
   brk    |-> h.brk + Increment(n),
   blocks |-> h.blocks + 1,
   size   |-> h.size + Increment(n)]

\* Slip: the next block keeps its link back.
DetachOneWay(h, b) == [h EXCEPT !.mem[h.mem[b].prev].next = h.mem[b].next,
                                !.mem[b].next = b, !.mem[b].prev = b]

\* block_detach: the neighbours' links first, then the block's own.
Detach(h, b) ==
  LET prev == h.mem[b].prev
      next == h.mem[b].next
  IN  [h EXCEPT !.mem[prev].next = next, !.mem[next].prev = prev,
                !.mem[b].next = b, !.mem[b].prev = b]

\* block_release shrinks the heap by its last block if that is large, and if sbrk lets it.
Releasable(h, b) == End(h, b) = h.brk /\ h.mem[b].capacity >= Threshold

Release(h, b) ==
  LET d == Detach(h, b)
      n == Header + h.mem[b].capacity
  IN  [mem |-> Restrict(d.mem, DOMAIN d.mem \ {b}), brk |-> d.brk - n,
       blocks |-> d.blocks - 1, size |-> d.size - n]

\* block_merge: src becomes part of dst when it begins where dst ends.
Merge(h, dst, src) ==
  IF End(h, dst) # src
    THEN h
    ELSE LET m == [h.mem EXCEPT ![dst].next = h.mem[src].next,
                                ![h.mem[src].next].prev = dst,
                                ![dst].capacity = @ + Header + h.mem[src].capacity]
         IN  [h EXCEPT !.mem = Restrict(m, DOMAIN m \ {src}), !.blocks = @ - 1]

\* Slip: the header of the rest is not taken from its capacity.
SplitForgetsHeader(h, b, n) ==
  LET rest == b + Header + Align(n)
      next == h.mem[b].next
      left == [capacity |-> h.mem[b].capacity - Align(n), size |-> 0, prev |-> b, next |-> next]
      cut  == [h.mem EXCEPT ![b].size = n, ![b].capacity = Align(n), ![b].next = rest,
                            ![next].prev = rest]
  IN  IF h.mem[b].capacity <= Align(n) + Header
        THEN [h EXCEPT !.mem[b].size = n]
        ELSE [h EXCEPT !.mem = With(cut, rest, left), !.blocks = @ + 1]

\* block_split: what is left behind the aligned size becomes a free block, next to
\* b in the list, if a header and more fit into it.
Split(h, b, n) ==
  LET sized == [h EXCEPT !.mem[b].size = n]
      rest  == b + Header + Align(n)
      next  == h.mem[b].next
      left  == [capacity |-> h.mem[b].capacity - Align(n) - Header, size |-> 0,
                prev |-> b, next |-> next]
      cut   == [sized.mem EXCEPT ![b].capacity = Align(n), ![b].next = rest,
                                 ![next].prev = rest]
  IN  IF h.mem[b].capacity <= Align(n) + Header
        THEN sized
        ELSE [sized EXCEPT !.mem = With(cut, rest, left), !.blocks = @ + 1]

-----------------------------------------------------------------------------
(* freelist.c.                                                             *)

\* The walk along next from the sentinel, and the places of the free blocks in it.
Walk(h) == LET at[i \in 0 .. Cardinality(DOMAIN h.mem)] ==
                 IF i = 0 THEN FreeList ELSE h.mem[at[i - 1]].next
           IN  at

Places(h) == {i \in DOMAIN Walk(h) : \A j \in 1 .. i : Walk(h)[j] # FreeList} \ {0}

\* Slip: a block of exactly the size asked for is passed over.
SearchLarger(h, n) ==
  LET large == {i \in Places(h) : h.mem[Walk(h)[i]].capacity > n}
  IN  IF large = {} THEN FreeList ELSE Walk(h)[Min(large)]

\* The first free block of those that are large enough, the first of the largest
\* ones, or the first of the smallest ones; the sentinel if there is none.
Search(h, n) ==
  LET at         == Walk(h)
      large      == {i \in Places(h) : h.mem[at[i]].capacity >= n}
      capacities == {h.mem[at[i]].capacity : i \in large}
      wanted     == CASE fit = "first" -> large
                      [] fit = "worst" -> {i \in large : h.mem[at[i]].capacity = Max(capacities)}
                      [] fit = "best"  -> {i \in large : h.mem[at[i]].capacity = Min(capacities)}
  IN  IF large = {} THEN FreeList ELSE at[Min(wanted)]

\* The first free block at a higher address, or the sentinel.
Above(h, b) == LET later == {i \in Places(h) : Walk(h)[i] > b}
               IN  IF later = {} THEN FreeList ELSE Walk(h)[Min(later)]

\* Block b is linked in front of that one.
Linked(h, b) == LET next == Above(h, b)
                    prev == h.mem[next].prev
                IN  [h EXCEPT !.mem[b].next = next, !.mem[b].prev = prev,
                              !.mem[prev].next = b, !.mem[next].prev = b]

\* Slip: the block is merged with the next one only.
InsertMergesNext(h, b) == Merge(Linked(h, b), b, Above(h, b))

\* free_list_insert: in front of the first block at a higher address, merged with
\* its next, and then its previous with it.
Insert(h, b) == LET merged == Merge(Linked(h, b), b, Above(h, b))
                IN  Merge(merged, merged.mem[b].prev, b)

-----------------------------------------------------------------------------
(* posix.c.  Calls that return NULL, or are passed NULL, change nothing but  *)
(* counters; realloc of NULL is malloc, and so is calloc of a product that   *)
(* does not wrap, but for the contents.                                      *)

\* A call of malloc that succeeds: it reuses a free block or grows the heap.
Succeeds(h, n) == n > 0 /\ (Search(h, n) # FreeList \/ CanGrow(h, n))

Chosen(h, n) == IF Search(h, n) # FreeList THEN Search(h, n) ELSE h.brk

Allocated(h, n) ==
  LET b == Search(h, n)
  IN  IF b # FreeList THEN Detach(Split(h, b, n), b) ELSE Allocate(h, n)

\* The heaps that a free may leave: sbrk may refuse to shrink the heap, and then the
\* block, detached by then, goes into the free list.
Freed(h, b) == IF Releasable(h, b) THEN {Release(h, b), Insert(Detach(h, b), b)}
                                   ELSE {Insert(h, b)}

malloc(n) == /\ Succeeds(heap, n)
             /\ heap' = Allocated(heap, n)
             /\ live' = live \cup {Chosen(heap, n)}
             /\ asked' = With(asked, Chosen(heap, n), n)
             /\ UNCHANGED fit

free(b) == /\ heap' \in Freed(heap, b)
           /\ live' = live \ {b}
           /\ asked' = Restrict(asked, live \ {b})
           /\ UNCHANGED fit

\* Slip: the size stays what it was.
reallocKeepsSize(b, n) == /\ heap.mem[b].capacity >= n
                          /\ asked' = [asked EXCEPT ![b] = n]
                          /\ UNCHANGED <<heap, live, fit>>

\* The block is large enough: it keeps its capacity, and its size never shrinks.
reallocInPlace(b, n) == /\ heap.mem[b].capacity >= n
                        /\ heap' = [heap EXCEPT !.mem[b].size = IF @ < n THEN n ELSE @]
                        /\ asked' = [asked EXCEPT ![b] = n]
                        /\ UNCHANGED <<live, fit>>

\* Otherwise: malloc, a copy of as many bytes as the old block's size, and free.
reallocMoved(b, n) ==
  LET new == Chosen(heap, n)
  IN  /\ heap.mem[b].capacity < n
      /\ Succeeds(heap, n)
      /\ heap' \in Freed(Allocated(heap, n), b)
      /\ live' = (live \cup {new}) \ {b}
      /\ asked' = Restrict(With(asked, new, n), live')
      /\ UNCHANGED fit

Next == \/ \E n \in Sizes : malloc(n)
        \/ \E b \in live : \/ free(b)
                           \/ \E n \in Sizes : reallocInPlace(b, n) \/ reallocMoved(b, n)

Spec == Init /\ [][Next]_vars

-----------------------------------------------------------------------------
(* Properties.                                                             *)

Blocks == DOMAIN heap.mem \ {FreeList}
Free   == Blocks \ live

BlockType == [capacity : 0 .. Limit, size : 0 .. Wrap - 1,
              prev : {FreeList} \cup Start .. Limit, next : {FreeList} \cup Start .. Limit]

\* Every variable holds a value of its type; capacities and addresses are multiples
\* of the alignment.
TypeOK == /\ \A b \in DOMAIN heap.mem : /\ heap.mem[b] \in BlockType
                                        /\ b % Unit = 0 /\ heap.mem[b].capacity % Unit = 0
          /\ heap.brk \in Start .. Limit /\ {heap.blocks, heap.size} \subseteq 0 .. Limit
          /\ live \subseteq Blocks /\ asked \in [live -> Sizes] /\ fit \in Fits

\* The blocks tile the heap: one begins where the one before it ends, without a
\* gap or an overlap, from the start of the heap to the break, through every
\* split, merge, growth and release.  The counters BLOCKS and HEAP_SIZE tell how
\* many they are and how long the heap is.
HeapTiled ==
  /\ Blocks \cup {heap.brk} = {Start} \cup {End(heap, b) : b \in Blocks}
  /\ \A b, c \in Blocks : b < c => End(heap, b) <= c
  /\ heap.blocks = Cardinality(Blocks)
  /\ heap.size = heap.brk - Start

\* The free list goes around once through exactly the blocks that nobody holds, in
\* ascending order, and prev is the way back; a block that is held is linked to
\* itself.
FreeListOK ==
  LET at == Walk(heap)
      n  == Cardinality(Free)
  IN  /\ {at[i] : i \in 1 .. n} = Free /\ at[n + 1] = FreeList
      /\ \A i \in 1 .. n - 1 : at[i] < at[i + 1]
      /\ \A i \in 1 .. n + 1 : heap.mem[at[i]].prev = at[i - 1]
      /\ \A b \in live : heap.mem[b].next = b /\ heap.mem[b].prev = b

\* Merging with both neighbours is enough: no two free blocks are ever adjacent.
Coalesced == \A b, c \in Free : End(heap, b) # c

\* malloc's assertion, and what a realloc has to copy: a caller's bytes are within
\* the size of its block, and its size within the capacity.
Sized == \A b \in live : /\ asked[b] <= heap.mem[b].size
                         /\ heap.mem[b].size <= heap.mem[b].capacity

\* No call touches a block that somebody else holds, and the heap grows only when
\* no free block is large enough.
OthersKept ==
  [][/\ \A b \in live \cap live' : asked'[b] = asked[b] => heap'.mem[b] = heap.mem[b]
     /\ heap'.brk > heap.brk =>
          \E b \in live' \ live : \A c \in Free : heap.mem[c].capacity < asked'[b]]_vars
=============================================================================
