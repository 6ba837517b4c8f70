---------------------------- MODULE MallocProofs ----------------------------
(***************************************************************************)
(* The invariants of Malloc hold for heaps and alignments of any size, for *)
(* each FIT, as long as no size asked for is near the end of size_t.       *)
(***************************************************************************)
EXTENDS Malloc, Induction, FiniteSetTheorems

\* No size that is asked for comes within the heap's limit of the values that a
\* size_t has: ALIGN does not wrap around to zero, and sbrk refuses a sum with the
\* header that turns negative.  Without it Sized and HeapTiled fail.
Ordinary == \A n \in Sizes : n + Header + Unit + Limit <= Wrap

-----------------------------------------------------------------------------
(* The inductive invariant, of a heap h and the set L of the blocks that are *)
(* held.                                                                   *)

Dom(h)    == DOMAIN h.mem
Cap(h, c) == h.mem[c].capacity
Siz(h, c) == h.mem[c].size
Prv(h, c) == h.mem[c].prev
Nxt(h, c) == h.mem[c].next

HeaderType == [capacity : Nat, size : 0 .. Wrap - 1, prev : Nat, next : Nat]

\* What kind of values a heap consists of.
Shape(h) == /\ h = [mem |-> h.mem, brk |-> h.brk, blocks |-> h.blocks, size |-> h.size]
            /\ h.mem \in [Dom(h) -> HeaderType]
            /\ Dom(h) \in SUBSET Nat /\ IsFiniteSet(Dom(h)) /\ FreeList \in Dom(h)
            /\ h.brk \in Start .. Limit

BlocksOf(h) == Dom(h) \ {FreeList}

\* Blocks and their ends are aligned; the sentinel has no room.
Aligned(h) == /\ h.brk % Unit = 0 /\ Cap(h, FreeList) = 0
              /\ \A b \in BlocksOf(h) : b % Unit = 0 /\ Cap(h, b) % Unit = 0

\* The blocks tile the heap.
Tiled(h) == /\ Start \in BlocksOf(h) \cup {h.brk}
            /\ \A b \in BlocksOf(h) : /\ Start <= b
                                      /\ End(h, b) \in BlocksOf(h) \cup {h.brk}
                                      /\ End(h, b) <= h.brk
            /\ \A b, c \in BlocksOf(h) : b < c => End(h, b) <= c
            /\ \A b \in BlocksOf(h) \cup {h.brk} :
                 b = Start \/ \E c \in BlocksOf(h) : End(h, c) = b

Counted(h) == h.blocks = Cardinality(BlocksOf(h)) /\ h.size = h.brk - Start

\* Among the blocks G and the sentinel, next leads to the least that is higher, or to
\* the sentinel if there is none, and prev is its inverse.
Ring(h, G) ==
  /\ \A c \in G \cup {FreeList} : /\ Nxt(h, c) \in G \cup {FreeList}
                                  /\ Prv(h, c) \in G \cup {FreeList}
                                  /\ Prv(h, Nxt(h, c)) = c /\ Nxt(h, Prv(h, c)) = c
                                  /\ Nxt(h, c) # FreeList => c < Nxt(h, c)
  /\ \A c \in G \cup {FreeList} : \A d \in G :
       c < d => Nxt(h, c) # FreeList /\ Nxt(h, c) <= d

\* Of the blocks G, only those in P end where another one begins.
Apart(h, G, P) == \A c, d \in G : End(h, c) = d => c \in P

HeapOK(h, L, P) == /\ Shape(h) /\ Aligned(h) /\ Tiled(h) /\ Counted(h)
                   /\ L \subseteq BlocksOf(h)
                   /\ Ring(h, BlocksOf(h) \ L)
                   /\ \A c \in L : Nxt(h, c) = c /\ Prv(h, c) = c
                   /\ Apart(h, BlocksOf(h) \ L, P)

IInv == /\ HeapOK(heap, live, {})
        /\ asked \in [live -> Sizes] /\ fit \in Fits
        /\ Sized

-----------------------------------------------------------------------------
(* Arithmetic.                                                             *)

\* A multiple of k leaves no remainder.
LEMMA Multiple ==
  ASSUME NEW k \in Nat \ {0}, NEW n \in Nat, NEW q \in Int, n = k * q
  PROVE  n % k = 0
<1>1. n = k * (n \div k) + (n % k) /\ n \div k \in Nat /\ n % k \in 0 .. k - 1
  BY ModDef
<1> DEFINE d == q - (n \div k)
           r == n % k
<1>2. d \in Int /\ r \in Int /\ - k < r /\ r < k
  BY <1>1
<1>3. k * d = k * q - k * (n \div k)
  BY <1>1
<1>4. k * d = r
  BY <1>1, <1>3
<1> HIDE DEF d, r
<1>5. r = 0
  BY <1>2, <1>4, Gap
<1> QED BY <1>5 DEF r

\* What is aligned is a multiple.
LEMMA AlignedIsMultiple ==
  ASSUME NEW k \in Nat \ {0}, NEW n \in Nat, n % k = 0
  PROVE  n = k * (n \div k) /\ n \div k \in Nat
<1>1. n = k * (n \div k) + (n % k) /\ n \div k \in Nat
  BY ModDef
<1>2. k * (n \div k) \in Nat
  BY <1>1
<1> QED BY <1>1, <1>2

\* Sums and differences of what is aligned are aligned.
LEMMA AlignedSum ==
  ASSUME NEW k \in Nat \ {0}, NEW m \in Nat, NEW n \in Nat, m % k = 0, n % k = 0
  PROVE  (m + n) % k = 0
<1> DEFINE p == m \div k
           q == n \div k
<1>1. m = k * p /\ p \in Nat /\ n = k * q /\ q \in Nat
  BY AlignedIsMultiple
<1> HIDE DEF p, q
<1>2. k * (p + q) = k * p + k * q
  BY <1>1
<1>3. m + n = k * (p + q) /\ p + q \in Int /\ m + n \in Nat
  BY <1>1, <1>2
<1> QED BY <1>3, Multiple

LEMMA AlignedDifference ==
  ASSUME NEW k \in Nat \ {0}, NEW m \in Nat, NEW n \in Nat, m % k = 0, n % k = 0, n <= m
  PROVE  (m - n) % k = 0
<1> DEFINE p == m \div k
           q == n \div k
<1>1. m = k * p /\ p \in Nat /\ n = k * q /\ q \in Nat
  BY AlignedIsMultiple
<1> HIDE DEF p, q
<1>2. k * (p - q) = k * p - k * q
  BY <1>1
<1>3. m - n = k * (p - q) /\ p - q \in Int /\ m - n \in Nat
  BY <1>1, <1>2
<1> QED BY <1>3, Multiple

\* What the proofs use of the constants.
LEMMA Layout ==
  /\ Header \in Nat \ {0} /\ Unit \in Nat \ {0} /\ Threshold \in Nat \ {0}
  /\ Wrap \in Nat \ {0} /\ Start \in Nat \ {0} /\ Limit \in Nat \ {0}
  /\ Header % Unit = 0 /\ Start % Unit = 0
  /\ Header < Start /\ Start <= Limit /\ 2 * Limit < Wrap
  /\ FreeList = 0
  BY LayoutAssumption DEF FreeList

\* ALIGN rounds up to the next multiple of the alignment.
LEMMA AlignRoundsUp ==
  ASSUME Ordinary, NEW n \in Sizes
  PROVE  /\ n \in Nat /\ n < Wrap
         /\ Align(n) \in Nat /\ n <= Align(n) /\ Align(n) + Header + Limit < Wrap
         /\ Align(n) % Unit = 0
<1>1. n \in Nat /\ n < Wrap /\ n + Header + Unit + Limit <= Wrap
  BY SizesAssumption, Layout DEF Ordinary
<1> DEFINE m == n + Unit - 1
<1>2. m \in 0 .. Wrap - 1 /\ m \in Nat
  BY <1>1, Layout
<1>3. m % Wrap = m
  BY <1>2, Layout, ModSmall
<1>4. Align(n) = m - (m % Unit)
  BY <1>3 DEF Align
<1>5. m = Unit * (m \div Unit) + (m % Unit) /\ m \div Unit \in Nat /\ m % Unit \in 0 .. Unit - 1
  BY <1>2, Layout, ModDef
<1> DEFINE q == m \div Unit
           r == m % Unit
<1>6. Unit * q \in Nat
  BY <1>5, Layout
<1>7. Align(n) = Unit * q /\ Align(n) \in Nat
  BY <1>4, <1>5, <1>6
<1>8. Align(n) % Unit = 0
  <2> HIDE DEF q
  <2>1. q \in Int
    BY <1>5 DEF q
  <2> QED BY <1>7, <2>1, Layout, Multiple
<1>9. n <= Align(n) /\ Align(n) + Header + Limit < Wrap
  BY <1>1, <1>4, <1>5, Layout
<1> QED BY <1>1, <1>7, <1>8, <1>9

\* sbrk grows the heap by a header and the aligned size, or refuses.
LEMMA GrowsByTheSum ==
  ASSUME Ordinary, NEW n \in Sizes, NEW h, h.brk \in Start .. Limit, CanGrow(h, n)
  PROVE  Increment(n) = Header + Align(n) /\ h.brk + Header + Align(n) \in Start .. Limit
<1> DEFINE s == Header + Align(n)
<1>1. s \in 0 .. Wrap - 1 /\ s + Limit < Wrap
  BY AlignRoundsUp, Layout
<1>2. s % Wrap = s
  BY <1>1, Layout, ModSmall
<1>3. Increment(n) = IF 2 * s < Wrap THEN s ELSE s - Wrap
  BY <1>2 DEF Increment
<1>4. h.brk + Increment(n) \in Start .. Limit
  BY DEF CanGrow
<1> HIDE DEF s
<1>5. Increment(n) = s
  BY <1>1, <1>3, <1>4, Layout
<1> QED BY <1>4, <1>5, AlignRoundsUp, Layout DEF s

-----------------------------------------------------------------------------
(* What the operators of block.c do to a heap, field by field.             *)

\* Heap k has the blocks of h, with the same capacities and sizes.
SameBlocks(h, k) ==
  /\ Shape(k) /\ Dom(k) = Dom(h) /\ k.brk = h.brk /\ k.blocks = h.blocks /\ k.size = h.size
  /\ \A c \in Dom(h) : Cap(k, c) = Cap(h, c) /\ Siz(k, c) = Siz(h, c)

\* A heap is known by its fields.
LEMMA ShapeOf ==
  ASSUME NEW h, Shape(h), NEW m \in [Dom(h) -> HeaderType], NEW k,
         k = [h EXCEPT !.mem = m]
  PROVE  Shape(k) /\ k.mem = m /\ Dom(k) = Dom(h) /\ k.brk = h.brk /\ k.blocks = h.blocks
         /\ k.size = h.size
<1>1. h = [mem |-> h.mem, brk |-> h.brk, blocks |-> h.blocks, size |-> h.size]
  BY DEF Shape
<1>2. k = [mem |-> m, brk |-> h.brk, blocks |-> h.blocks, size |-> h.size]
  BY <1>1
<1>3. k.mem = m /\ k.brk = h.brk /\ k.blocks = h.blocks /\ k.size = h.size
  BY <1>2
<1>4. DOMAIN m = Dom(h)
  OBVIOUS
<1>5. Dom(k) = Dom(h)
  BY <1>3, <1>4 DEF Dom
<1> QED BY <1>2, <1>3, <1>5 DEF Shape

NextSet(h, c, x, k) ==
  /\ SameBlocks(h, k)
  /\ \A e \in Dom(h) : Nxt(k, e) = (IF e = c THEN x ELSE Nxt(h, e)) /\ Prv(k, e) = Prv(h, e)

\* Setting one link.
LEMMA SetNext ==
  ASSUME NEW h, Shape(h), NEW c \in Dom(h), NEW x \in Nat
  PROVE  NextSet(h, c, x, [h EXCEPT !.mem[c].next = x])
<1> DEFINE m == [h.mem EXCEPT ![c].next = x]
           k == [h EXCEPT !.mem[c].next = x]
<1>1. h.mem \in [Dom(h) -> HeaderType]
  BY DEF Shape
<1>2. m \in [Dom(h) -> HeaderType]
  BY <1>1 DEF HeaderType
<1>3. \A e \in Dom(h) : /\ m[e].capacity = h.mem[e].capacity /\ m[e].size = h.mem[e].size
                        /\ m[e].next = IF e = c THEN x ELSE h.mem[e].next
                        /\ m[e].prev = h.mem[e].prev
  BY <1>1 DEF HeaderType
<1>4. k = [h EXCEPT !.mem = m]
  OBVIOUS
<1> HIDE DEF m, k
<1>5. Shape(k) /\ k.mem = m /\ Dom(k) = Dom(h) /\ k.brk = h.brk /\ k.blocks = h.blocks
      /\ k.size = h.size
  BY <1>2, <1>4, ShapeOf
<1>6. NextSet(h, c, x, k)
  BY <1>3, <1>5 DEF NextSet, SameBlocks, Cap, Siz, Nxt, Prv
<1> QED BY <1>6 DEF k

PrevSet(h, c, x, k) ==
  /\ SameBlocks(h, k)
  /\ \A e \in Dom(h) : Prv(k, e) = (IF e = c THEN x ELSE Prv(h, e)) /\ Nxt(k, e) = Nxt(h, e)

LEMMA SetPrev ==
  ASSUME NEW h, Shape(h), NEW c \in Dom(h), NEW x \in Nat
  PROVE  PrevSet(h, c, x, [h EXCEPT !.mem[c].prev = x])
<1> DEFINE m == [h.mem EXCEPT ![c].prev = x]
           k == [h EXCEPT !.mem[c].prev = x]
<1>1. h.mem \in [Dom(h) -> HeaderType]
  BY DEF Shape
<1>2. m \in [Dom(h) -> HeaderType]
  BY <1>1 DEF HeaderType
<1>3. \A e \in Dom(h) : /\ m[e].capacity = h.mem[e].capacity /\ m[e].size = h.mem[e].size
                        /\ m[e].prev = IF e = c THEN x ELSE h.mem[e].prev
                        /\ m[e].next = h.mem[e].next
  BY <1>1 DEF HeaderType
<1>4. k = [h EXCEPT !.mem = m]
  OBVIOUS
<1> HIDE DEF m, k
<1>5. Shape(k) /\ k.mem = m /\ Dom(k) = Dom(h) /\ k.brk = h.brk /\ k.blocks = h.blocks
      /\ k.size = h.size
  BY <1>2, <1>4, ShapeOf
<1>6. PrevSet(h, c, x, k)
  BY <1>3, <1>5 DEF PrevSet, SameBlocks, Cap, Siz, Nxt, Prv
<1> QED BY <1>6 DEF k

AfterDetach(h, b, k) ==
  /\ SameBlocks(h, k)
  /\ \A c \in Dom(h) :
       /\ Nxt(k, c) = IF c = b THEN b ELSE IF c = Prv(h, b) THEN Nxt(h, b) ELSE Nxt(h, c)
       /\ Prv(k, c) = IF c = b THEN b ELSE IF c = Nxt(h, b) THEN Prv(h, b) ELSE Prv(h, c)

\* Both neighbours pass b over, and b is linked to itself.
LEMMA DetachView ==
  ASSUME NEW h, Shape(h), NEW b \in Dom(h), Prv(h, b) \in Dom(h), Nxt(h, b) \in Dom(h)
  PROVE  AfterDetach(h, b, Detach(h, b))
<1> DEFINE p  == Prv(h, b)
           n  == Nxt(h, b)
           k1 == [h EXCEPT !.mem[p].next = n]
           k2 == [k1 EXCEPT !.mem[n].prev = p]
           k3 == [k2 EXCEPT !.mem[b].next = b]
           k4 == [k3 EXCEPT !.mem[b].prev = b]
<1>1. Detach(h, b) = k4
  BY DEF Detach, Prv, Nxt
<1>2. p \in Dom(h) /\ n \in Dom(h) /\ p \in Nat /\ n \in Nat /\ b \in Nat
  BY DEF Shape
<1> HIDE DEF p, n
<1>3. NextSet(h, p, n, k1)
  BY <1>2, SetNext
<1> HIDE DEF k1
<1>4. PrevSet(k1, n, p, k2)
  BY <1>2, <1>3, SetPrev DEF NextSet, SameBlocks
<1> HIDE DEF k2
<1>5. NextSet(k2, b, b, k3)
  BY <1>2, <1>3, <1>4, SetNext DEF NextSet, PrevSet, SameBlocks
<1> HIDE DEF k3, k4
<1>6. PrevSet(k3, b, b, k4)
  <2>1. Shape(k3) /\ b \in Dom(k3)
    BY <1>3, <1>4, <1>5 DEF NextSet, PrevSet, SameBlocks
  <2> QED BY <1>2, <2>1, SetPrev DEF k4
<1>7. AfterDetach(h, b, k4)
  BY <1>2, <1>3, <1>4, <1>5, <1>6 DEF NextSet, PrevSet, SameBlocks, AfterDetach, p, n
<1> QED BY <1>1, <1>7

\* The header of c is the same in both heaps.
Same(h, k, c) == /\ Cap(k, c) = Cap(h, c) /\ Siz(k, c) = Siz(h, c)
                 /\ Nxt(k, c) = Nxt(h, c) /\ Prv(k, c) = Prv(h, c)

\* The new block is behind the others, not in any list.
AfterAllocate(h, n, k) ==
  /\ Shape(k) /\ Dom(k) = Dom(h) \cup {h.brk}
  /\ k.brk = h.brk + Header + Align(n) /\ k.blocks = h.blocks + 1
  /\ k.size = h.size + Header + Align(n)
  /\ Cap(k, h.brk) = Align(n) /\ Siz(k, h.brk) = n
  /\ Nxt(k, h.brk) = h.brk /\ Prv(k, h.brk) = h.brk
  /\ \A c \in Dom(h) : Same(h, k, c)

\* One more block, at the old break.
LEMMA AllocateView ==
  ASSUME Ordinary, NEW n \in Sizes, NEW h, Shape(h), h.brk \notin Dom(h), CanGrow(h, n),
         h.blocks \in Int, h.size \in Int
  PROVE  AfterAllocate(h, n, Allocate(h, n))
<1> DEFINE x == [capacity |-> Align(n), size |-> n, prev |-> h.brk, next |-> h.brk]
           m == With(h.mem, h.brk, x)
           k == Allocate(h, n)
<1>1. Increment(n) = Header + Align(n) /\ h.brk + Header + Align(n) \in Start .. Limit
  BY GrowsByTheSum DEF Shape
<1>2. Align(n) \in Nat /\ n \in 0 .. Wrap - 1 /\ h.brk \in Nat
  BY AlignRoundsUp, Layout DEF Shape
<1>3. x \in HeaderType
  BY <1>2 DEF HeaderType
<1>4. k = [mem |-> m, brk |-> h.brk + Increment(n), blocks |-> h.blocks + 1,
           size |-> h.size + Increment(n)]
  BY DEF Allocate
<1>5. /\ x.capacity = Align(n) /\ x.size = n /\ x.prev = h.brk /\ x.next = h.brk
  OBVIOUS
<1> HIDE DEF x
<1>6. /\ m \in [Dom(h) \cup {h.brk} -> HeaderType] /\ m[h.brk] = x
      /\ \A c \in Dom(h) : m[c] = h.mem[c]
  BY <1>3 DEF With, Shape, Dom
<1> HIDE DEF m, k
<1>7. /\ k.mem = m /\ k.brk = h.brk + Increment(n) /\ k.blocks = h.blocks + 1
      /\ k.size = h.size + Increment(n)
      /\ k = [mem |-> k.mem, brk |-> k.brk, blocks |-> k.blocks, size |-> k.size]
  BY <1>4
<1>8. Dom(k) = Dom(h) \cup {h.brk}
  BY <1>6, <1>7 DEF Dom
<1>9. IsFiniteSet(Dom(k)) /\ Dom(k) \in SUBSET Nat /\ FreeList \in Dom(k)
  <2>1. IsFiniteSet(Dom(h)) /\ Dom(h) \in SUBSET Nat /\ FreeList \in Dom(h)
    BY DEF Shape
  <2>2. IsFiniteSet(Dom(h) \cup {h.brk})
    BY <2>1, FS_AddElement
  <2> QED BY <1>2, <1>8, <2>1, <2>2
<1>10. /\ k.brk = h.brk + Header + Align(n)
       /\ k.size = h.size + Header + Align(n)
  BY <1>1, <1>2, <1>7, Layout
<1>11. Shape(k)
  <2>1. k.brk \in Start .. Limit
    BY <1>1, <1>10
  <2>2. k.mem \in [Dom(k) -> HeaderType]
    BY <1>6, <1>7, <1>8
  <2> QED BY <1>7, <1>9, <2>1, <2>2 DEF Shape
<1>12. \A c \in Dom(h) : Same(h, k, c)
  BY <1>6, <1>7 DEF Same, Cap, Siz, Nxt, Prv
<1>13. /\ Cap(k, h.brk) = Align(n) /\ Siz(k, h.brk) = n
       /\ Nxt(k, h.brk) = h.brk /\ Prv(k, h.brk) = h.brk
  BY <1>5, <1>6, <1>7 DEF Cap, Siz, Nxt, Prv
<1> QED BY <1>7, <1>8, <1>10, <1>11, <1>12, <1>13 DEF AfterAllocate, k

\* The last block is gone, and the break is where it began.
AfterRelease(h, b, k) ==
  /\ Shape(k) /\ Dom(k) = Dom(h) \ {b} /\ k.brk = b /\ k.blocks = h.blocks - 1
  /\ k.size = h.size - (Header + Cap(h, b))
  /\ \A c \in Dom(k) : Same(h, k, c)

\* One block less, at the new break.
LEMMA ReleaseView ==
  ASSUME NEW h, Shape(h), NEW b \in Dom(h), Prv(h, b) = b, Nxt(h, b) = b,
         b >= Start, b # FreeList, End(h, b) = h.brk
  PROVE  AfterRelease(h, b, Release(h, b))
<1> DEFINE d == Detach(h, b)
           m == Restrict(d.mem, DOMAIN d.mem \ {b})
           n == Header + Cap(h, b)
           k == Release(h, b)
<1>1. SameBlocks(h, d) /\ \A c \in Dom(h) : Same(h, d, c)
  BY DetachView DEF AfterDetach, Same, SameBlocks
<1>2. k = [mem |-> m, brk |-> d.brk - n, blocks |-> d.blocks - 1, size |-> d.size - n]
  BY DEF Release, Cap
<1>3. d.mem \in [Dom(h) -> HeaderType] /\ DOMAIN d.mem = Dom(h)
  BY <1>1 DEF SameBlocks, Shape, Dom
<1>4. Cap(h, b) \in Nat /\ b \in Nat /\ End(h, b) = b + Header + Cap(h, b)
      /\ h.brk \in Start .. Limit
  BY DEF Shape, Cap, HeaderType, End
<1>5. d.brk = h.brk /\ d.blocks = h.blocks /\ d.size = h.size
  BY <1>1 DEF SameBlocks
<1> HIDE DEF d
<1>6. m \in [Dom(h) \ {b} -> HeaderType] /\ \A c \in Dom(h) \ {b} : m[c] = d.mem[c]
  BY <1>3 DEF Restrict
<1> HIDE DEF m
<1>7. h.brk - n = b
  BY <1>4, Layout
<1> HIDE DEF n, k
<1>8. /\ k.mem = m /\ k.brk = b /\ k.blocks = h.blocks - 1 /\ k.size = h.size - n
      /\ k = [mem |-> k.mem, brk |-> k.brk, blocks |-> k.blocks, size |-> k.size]
  BY <1>2, <1>5, <1>7
<1>9. Dom(k) = Dom(h) \ {b}
  BY <1>6, <1>8 DEF Dom
<1>10. IsFiniteSet(Dom(k)) /\ Dom(k) \in SUBSET Nat /\ FreeList \in Dom(k)
  <2>1. IsFiniteSet(Dom(h)) /\ Dom(h) \in SUBSET Nat /\ FreeList \in Dom(h)
    BY DEF Shape
  <2>2. IsFiniteSet(Dom(h) \ {b})
    BY <2>1, FS_RemoveElement
  <2> QED BY <1>9, <2>1, <2>2
<1>11. k.brk \in Start .. Limit
  BY <1>4, <1>7, <1>8, Layout DEF n
<1>12. Shape(k)
  BY <1>6, <1>8, <1>9, <1>10, <1>11 DEF Shape
<1>13. \A c \in Dom(k) : Same(h, k, c)
  BY <1>1, <1>6, <1>8, <1>9 DEF Same, Cap, Siz, Nxt, Prv
<1> QED BY <1>8, <1>9, <1>12, <1>13 DEF AfterRelease, k, n

\* Block src is gone, and its room and its place in the list are those of dst.
AfterMerge(h, dst, src, k) ==
  /\ Shape(k) /\ Dom(k) = Dom(h) \ {src}
  /\ k.brk = h.brk /\ k.blocks = h.blocks - 1 /\ k.size = h.size
  /\ \A c \in Dom(k) :
       /\ Cap(k, c) = IF c = dst THEN Cap(h, c) + Header + Cap(h, src) ELSE Cap(h, c)
       /\ Siz(k, c) = Siz(h, c)
       /\ Nxt(k, c) = IF c = dst THEN Nxt(h, src) ELSE Nxt(h, c)
       /\ Prv(k, c) = IF c = Nxt(h, src) THEN dst ELSE Prv(h, c)

\* The headers that block_merge writes, before it forgets that of src.
Joined(h, dst, src) == [h.mem EXCEPT ![dst].next = h.mem[src].next,
                                     ![h.mem[src].next].prev = dst,
                                     ![dst].capacity = @ + Header + h.mem[src].capacity]

LEMMA MergeIs ==
  ASSUME NEW h, NEW dst, NEW src
  PROVE  Merge(h, dst, src) =
           IF End(h, dst) # src
             THEN h
             ELSE [h EXCEPT !.mem = Restrict(Joined(h, dst, src),
                                             DOMAIN Joined(h, dst, src) \ {src}),
                            !.blocks = @ - 1]
  BY Zenon DEF Merge, Joined

\* src is gone, and dst has its room and its place in the list.
LEMMA MergeView ==
  ASSUME NEW h, Shape(h), NEW dst \in Dom(h), NEW src \in Dom(h), Nxt(h, src) \in Dom(h),
         src # FreeList, dst # src, End(h, dst) = src
  PROVE  AfterMerge(h, dst, src, Merge(h, dst, src))
<1> DEFINE n  == h.mem[src].next
           a  == h.mem[src].capacity
           m1 == [h.mem EXCEPT ![dst].next = n]
           m2 == [m1 EXCEPT ![n].prev = dst]
           larger == h.mem[dst].capacity + Header + a
           m3 == [m2 EXCEPT ![dst].capacity = larger]
           m  == Restrict(m3, DOMAIN m3 \ {src})
           k  == Merge(h, dst, src)
<1>1. /\ h = [mem |-> h.mem, brk |-> h.brk, blocks |-> h.blocks, size |-> h.size]
      /\ h.mem \in [Dom(h) -> HeaderType] /\ Dom(h) \in SUBSET Nat
      /\ IsFiniteSet(Dom(h)) /\ FreeList \in Dom(h)
  BY DEF Shape
<1>2. n \in Dom(h) /\ n \in Nat /\ dst \in Nat /\ a \in Nat /\ n = Nxt(h, src) /\ a = Cap(h, src)
  BY <1>1 DEF Cap, HeaderType, Nxt
<1>3. k = [h EXCEPT !.mem = m, !.blocks = @ - 1]
  <2>1. Joined(h, dst, src) = m3
    BY DEF Joined
  <2> HIDE DEF m3, k
  <2> QED BY <2>1, MergeIs DEF k
<1> HIDE DEF n, a, k
<1>4. /\ m1 \in [Dom(h) -> HeaderType]
      /\ \A c \in Dom(h) : /\ m1[c].capacity = h.mem[c].capacity
                           /\ m1[c].size = h.mem[c].size
                           /\ m1[c].next = IF c = dst THEN n ELSE h.mem[c].next
                           /\ m1[c].prev = h.mem[c].prev
  BY <1>1, <1>2 DEF HeaderType
<1> HIDE DEF m1
<1>5. /\ m2 \in [Dom(h) -> HeaderType]
      /\ \A c \in Dom(h) : /\ m2[c].capacity = m1[c].capacity
                           /\ m2[c].size = m1[c].size
                           /\ m2[c].prev = IF c = n THEN dst ELSE m1[c].prev
                           /\ m2[c].next = m1[c].next
  BY <1>2, <1>4 DEF HeaderType
<1> HIDE DEF m2
<1>6. /\ m3 \in [Dom(h) -> HeaderType]
      /\ \A c \in Dom(h) : /\ m3[c].capacity = IF c = dst THEN larger ELSE m2[c].capacity
                           /\ m3[c].size = m2[c].size
                           /\ m3[c].prev = m2[c].prev
                           /\ m3[c].next = m2[c].next
  <2>1. larger \in Nat
    <3>1. h.mem[dst].capacity \in Nat
      BY <1>1 DEF HeaderType
    <3> QED BY <1>2, <3>1, Layout
  <2> HIDE DEF larger
  <2> QED BY <1>5, <2>1 DEF HeaderType
<1> HIDE DEF m3
<1>7. m \in [Dom(h) \ {src} -> HeaderType] /\ \A c \in Dom(h) \ {src} : m[c] = m3[c]
  BY <1>6 DEF Restrict
<1> HIDE DEF m
<1>8. k = [mem |-> m, brk |-> h.brk, blocks |-> h.blocks - 1, size |-> h.size]
  BY <1>1, <1>3
<1> HIDE DEF k
<1>9. /\ k.mem = m /\ k.brk = h.brk /\ k.blocks = h.blocks - 1 /\ k.size = h.size
      /\ k = [mem |-> k.mem, brk |-> k.brk, blocks |-> k.blocks, size |-> k.size]
  BY <1>8
<1>10. Dom(k) = Dom(h) \ {src}
  BY <1>7, <1>9 DEF Dom
<1>11. IsFiniteSet(Dom(k)) /\ Dom(k) \in SUBSET Nat /\ FreeList \in Dom(k)
  <2>1. IsFiniteSet(Dom(h) \ {src})
    BY <1>1, FS_RemoveElement
  <2> QED BY <1>1, <1>10, <2>1
<1>12. k.brk \in Start .. Limit
  BY <1>9 DEF Shape
<1>13. Shape(k)
  BY <1>7, <1>9, <1>10, <1>11, <1>12 DEF Shape
<1>14. \A c \in Dom(k) :
         /\ Cap(k, c) = IF c = dst THEN Cap(h, c) + Header + a ELSE Cap(h, c)
         /\ Siz(k, c) = Siz(h, c)
         /\ Nxt(k, c) = IF c = dst THEN n ELSE Nxt(h, c)
         /\ Prv(k, c) = IF c = n THEN dst ELSE Prv(h, c)
  <2> SUFFICES ASSUME NEW c \in Dom(h) \ {src}
               PROVE  /\ Cap(k, c) = IF c = dst THEN Cap(h, c) + Header + a ELSE Cap(h, c)
                      /\ Siz(k, c) = Siz(h, c)
                      /\ Nxt(k, c) = IF c = dst THEN n ELSE Nxt(h, c)
                      /\ Prv(k, c) = IF c = n THEN dst ELSE Prv(h, c)
    BY <1>10
  <2>1. k.mem[c] = m3[c]
    BY <1>7, <1>9
  <2> QED BY <1>4, <1>5, <1>6, <2>1 DEF Cap, Siz, Nxt, Prv
<1> QED BY <1>2, <1>9, <1>10, <1>13, <1>14 DEF AfterMerge, k

\* Block b is in front of x.
AfterLink(h, b, x, k) ==
  /\ SameBlocks(h, k)
  /\ \A c \in Dom(h) :
       /\ Nxt(k, c) = IF c = b THEN x ELSE IF c = Prv(h, x) THEN b ELSE Nxt(h, c)
       /\ Prv(k, c) = IF c = b THEN Prv(h, x) ELSE IF c = x THEN b ELSE Prv(h, c)

LEMMA LinkAt ==
  ASSUME NEW h, Shape(h), NEW b \in Dom(h), NEW x \in Dom(h),
         Prv(h, x) \in Dom(h), b # x, b # Prv(h, x)
  PROVE  AfterLink(h, b, x, [h EXCEPT !.mem[b].next = x, !.mem[b].prev = h.mem[x].prev,
                                      !.mem[h.mem[x].prev].next = b, !.mem[x].prev = b])
<1> DEFINE p  == Prv(h, x)
           k1 == [h EXCEPT !.mem[b].next = x]
           k2 == [k1 EXCEPT !.mem[b].prev = p]
           k3 == [k2 EXCEPT !.mem[p].next = b]
           k4 == [k3 EXCEPT !.mem[x].prev = b]
<1>1. [h EXCEPT !.mem[b].next = x, !.mem[b].prev = h.mem[x].prev,
                !.mem[h.mem[x].prev].next = b, !.mem[x].prev = b] = k4
  BY DEF Prv
<1>2. p \in Dom(h) /\ p \in Nat /\ x \in Nat /\ b \in Nat
  BY DEF Shape
<1> HIDE DEF p
<1>3. NextSet(h, b, x, k1)
  BY <1>2, SetNext
<1> HIDE DEF k1
<1>4. PrevSet(k1, b, p, k2)
  BY <1>2, <1>3, SetPrev DEF NextSet, SameBlocks
<1> HIDE DEF k2
<1>5. NextSet(k2, p, b, k3)
  <2>1. Shape(k2) /\ Dom(k2) = Dom(h)
    BY <1>3, <1>4 DEF NextSet, PrevSet, SameBlocks
  <2> QED BY <1>2, <2>1, SetNext
<1> HIDE DEF k3
<1>6. PrevSet(k3, x, b, k4)
  <2>1. Shape(k3) /\ Dom(k3) = Dom(h)
    BY <1>3, <1>4, <1>5 DEF NextSet, PrevSet, SameBlocks
  <2> QED BY <1>2, <2>1, SetPrev
<1> HIDE DEF k4
<1>7. AfterLink(h, b, x, k4)
  BY <1>2, <1>3, <1>4, <1>5, <1>6 DEF NextSet, PrevSet, SameBlocks, AfterLink, p
<1> QED BY <1>1, <1>7

\* b is between the one above it and the one before that.
LEMMA LinkView ==
  ASSUME NEW h, Shape(h), NEW b \in Dom(h), Above(h, b) \in Dom(h),
         Prv(h, Above(h, b)) \in Dom(h), b # Above(h, b), b # Prv(h, Above(h, b))
  PROVE  AfterLink(h, b, Above(h, b), Linked(h, b))
  BY LinkAt DEF Linked

\* Only the size of b is another one.
AfterSize(h, b, n, k) ==
  /\ Shape(k) /\ Dom(k) = Dom(h) /\ k.brk = h.brk /\ k.blocks = h.blocks /\ k.size = h.size
  /\ \A c \in Dom(h) : /\ Cap(k, c) = Cap(h, c) /\ Siz(k, c) = IF c = b THEN n ELSE Siz(h, c)
                       /\ Nxt(k, c) = Nxt(h, c) /\ Prv(k, c) = Prv(h, c)

\* Only a size is set.
LEMMA SetSize ==
  ASSUME NEW h, Shape(h), NEW b \in Dom(h), NEW n \in 0 .. Wrap - 1
  PROVE  AfterSize(h, b, n, [h EXCEPT !.mem[b].size = n])
<1> DEFINE m == [h.mem EXCEPT ![b].size = n]
           k == [h EXCEPT !.mem[b].size = n]
<1>1. h.mem \in [Dom(h) -> HeaderType]
  BY DEF Shape
<1>2. m \in [Dom(h) -> HeaderType]
  BY <1>1 DEF HeaderType
<1>3. \A e \in Dom(h) : /\ m[e].capacity = h.mem[e].capacity
                        /\ m[e].size = IF e = b THEN n ELSE h.mem[e].size
                        /\ m[e].next = h.mem[e].next
                        /\ m[e].prev = h.mem[e].prev
  BY <1>1 DEF HeaderType
<1>4. k = [h EXCEPT !.mem = m]
  OBVIOUS
<1> HIDE DEF m, k
<1>5. Shape(k) /\ k.mem = m /\ Dom(k) = Dom(h) /\ k.brk = h.brk /\ k.blocks = h.blocks
      /\ k.size = h.size
  BY <1>2, <1>4, ShapeOf
<1>6. AfterSize(h, b, n, k)
  BY <1>3, <1>5 DEF AfterSize, Cap, Siz, Nxt, Prv
<1> QED BY <1>6 DEF k

\* The rest of b is a block r of its own, next to b in the list.
AfterSplit(h, b, n, r, k) ==
  /\ Shape(k) /\ Dom(k) = Dom(h) \cup {r}
  /\ k.brk = h.brk /\ k.blocks = h.blocks + 1 /\ k.size = h.size
  /\ Cap(k, r) = Cap(h, b) - Align(n) - Header /\ Siz(k, r) = 0
  /\ Nxt(k, r) = Nxt(h, b) /\ Prv(k, r) = b
  /\ \A c \in Dom(h) :
       /\ Cap(k, c) = IF c = b THEN Align(n) ELSE Cap(h, c)
       /\ Siz(k, c) = IF c = b THEN n ELSE Siz(h, c)
       /\ Nxt(k, c) = IF c = b THEN r ELSE Nxt(h, c)
       /\ Prv(k, c) = IF c = Nxt(h, b) THEN r ELSE Prv(h, c)

\* What block_split leaves behind, if it is large enough.
LEMMA SplitView ==
  ASSUME Ordinary, NEW n \in Sizes, NEW h, Shape(h), NEW b \in Dom(h), Nxt(h, b) \in Dom(h),
         Cap(h, b) > Align(n) + Header, b + Header + Align(n) \notin Dom(h)
  PROVE  AfterSplit(h, b, n, b + Header + Align(n), Split(h, b, n))
<1> DEFINE r     == b + Header + Align(n)
           a     == Align(n)
           x     == h.mem[b].next
           w     == h.mem[b].capacity - a - Header
           sized == [h EXCEPT !.mem[b].size = n]
           left  == [capacity |-> w, size |-> 0, prev |-> b, next |-> x]
           m1    == [sized.mem EXCEPT ![b].capacity = a]
           m2    == [m1 EXCEPT ![b].next = r]
           m3    == [m2 EXCEPT ![x].prev = r]
           m     == With(m3, r, left)
           k     == Split(h, b, n)
<1>1. h.mem[b].capacity = Cap(h, b) /\ ~ (Cap(h, b) <= Align(n) + Header)
  <2> HIDE DEF k, m, sized, w, x, r, a
  <2>1. Align(n) \in Nat
    BY AlignRoundsUp
  <2>2. Cap(h, b) \in Nat
    BY DEF Cap, HeaderType, Shape
  <2> QED BY <2>1, <2>2, Layout DEF Cap
<1>2. /\ h.mem \in [Dom(h) -> HeaderType] /\ Dom(h) \in SUBSET Nat
      /\ IsFiniteSet(Dom(h)) /\ FreeList \in Dom(h) /\ h.brk \in Start .. Limit
  BY DEF Shape
<1>3. /\ x \in Dom(h) /\ x \in Nat /\ b \in Nat /\ r \in Nat /\ n \in 0 .. Wrap - 1
      /\ a \in Nat /\ x = Nxt(h, b) /\ h.mem[b].capacity = Cap(h, b) /\ w \in Nat
      /\ w = Cap(h, b) - Align(n) - Header /\ 0 \in 0 .. Wrap - 1
  <2>1. Cap(h, b) \in Nat
    BY <1>2 DEF Cap, HeaderType
  <2> QED BY <1>2, <2>1, AlignRoundsUp, Layout DEF Cap, Nxt
<1>4. k = [sized EXCEPT !.mem = m, !.blocks = @ + 1]
  <2>1. k = IF h.mem[b].capacity <= Align(n) + Header THEN sized
            ELSE [sized EXCEPT !.mem = m, !.blocks = @ + 1]
    BY DEF Split
  <2>2. ~ (h.mem[b].capacity <= Align(n) + Header)
    BY <1>1
  <2> HIDE DEF m, k, sized
  <2> QED BY <2>1, <2>2
<1>5. AfterSize(h, b, n, sized)
  BY <1>3, SetSize
<1> HIDE DEF r, a, x, w, sized, k
<1>6. left \in HeaderType
  BY <1>3 DEF HeaderType
<1>7. left.capacity = w /\ left.size = 0 /\ left.prev = b /\ left.next = x
  OBVIOUS
<1> HIDE DEF left
<1>8. sized.mem \in [Dom(h) -> HeaderType]
  BY <1>5 DEF AfterSize, Shape
<1>9. /\ m1 \in [Dom(h) -> HeaderType]
      /\ \A c \in Dom(h) : /\ m1[c].capacity = IF c = b THEN a ELSE sized.mem[c].capacity
                           /\ m1[c].size = sized.mem[c].size
                           /\ m1[c].next = sized.mem[c].next
                           /\ m1[c].prev = sized.mem[c].prev
  BY <1>3, <1>8 DEF HeaderType
<1> HIDE DEF m1
<1>10. /\ m2 \in [Dom(h) -> HeaderType]
      /\ \A c \in Dom(h) : /\ m2[c].capacity = m1[c].capacity
                           /\ m2[c].size = m1[c].size
                           /\ m2[c].next = IF c = b THEN r ELSE m1[c].next
                           /\ m2[c].prev = m1[c].prev
  BY <1>3, <1>9 DEF HeaderType
<1> HIDE DEF m2
<1>11. /\ m3 \in [Dom(h) -> HeaderType]
       /\ \A c \in Dom(h) : /\ m3[c].capacity = m2[c].capacity
                            /\ m3[c].size = m2[c].size
                            /\ m3[c].next = m2[c].next
                            /\ m3[c].prev = IF c = x THEN r ELSE m2[c].prev
  BY <1>3, <1>10 DEF HeaderType
<1> HIDE DEF m3
<1>12. /\ m \in [Dom(h) \cup {r} -> HeaderType] /\ m[r] = left
       /\ \A c \in Dom(h) : c # r => m[c] = m3[c]
  BY <1>6, <1>11 DEF With
<1> HIDE DEF m
<1>13. r \notin Dom(h)
  BY DEF r
<1>14. /\ k.mem = m /\ k.brk = h.brk /\ k.blocks = h.blocks + 1 /\ k.size = h.size
       /\ k = [mem |-> k.mem, brk |-> k.brk, blocks |-> k.blocks, size |-> k.size]
  <2>1. sized = [mem |-> sized.mem, brk |-> sized.brk, blocks |-> sized.blocks,
                 size |-> sized.size]
    BY <1>5 DEF AfterSize, Shape
  <2>2. k = [mem |-> m, brk |-> sized.brk, blocks |-> sized.blocks + 1, size |-> sized.size]
    BY <1>4, <2>1
  <2>3. sized.brk = h.brk /\ sized.blocks = h.blocks /\ sized.size = h.size
    BY <1>5 DEF AfterSize
  <2> QED BY <2>2, <2>3
<1>15. Dom(k) = Dom(h) \cup {r}
  BY <1>12, <1>14 DEF Dom
<1>16. IsFiniteSet(Dom(k)) /\ Dom(k) \in SUBSET Nat /\ FreeList \in Dom(k)
  <2>1. IsFiniteSet(Dom(h) \cup {r})
    BY <1>2, FS_AddElement
  <2> QED BY <1>2, <1>3, <1>15, <2>1
<1>17. Shape(k)
  <2>1. k.mem \in [Dom(k) -> HeaderType]
    BY <1>12, <1>14, <1>15
  <2>2. k.brk \in Start .. Limit
    BY <1>2, <1>14
  <2> QED BY <1>14, <1>16, <2>1, <2>2 DEF Shape
<1>18. Cap(k, r) = w /\ Siz(k, r) = 0 /\ Nxt(k, r) = x /\ Prv(k, r) = b
  BY <1>7, <1>12, <1>14 DEF Cap, Siz, Nxt, Prv
<1>19. \A c \in Dom(h) :
         /\ Cap(k, c) = IF c = b THEN a ELSE Cap(h, c)
         /\ Siz(k, c) = IF c = b THEN n ELSE Siz(h, c)
         /\ Nxt(k, c) = IF c = b THEN r ELSE Nxt(h, c)
         /\ Prv(k, c) = IF c = x THEN r ELSE Prv(h, c)
  <2> SUFFICES ASSUME NEW c \in Dom(h)
               PROVE  /\ Cap(k, c) = IF c = b THEN a ELSE Cap(h, c)
                      /\ Siz(k, c) = IF c = b THEN n ELSE Siz(h, c)
                      /\ Nxt(k, c) = IF c = b THEN r ELSE Nxt(h, c)
                      /\ Prv(k, c) = IF c = x THEN r ELSE Prv(h, c)
    OBVIOUS
  <2>1. k.mem[c] = m3[c]
    BY <1>12, <1>13, <1>14
  <2>2. /\ m3[c].capacity = IF c = b THEN a ELSE sized.mem[c].capacity
        /\ m3[c].size = sized.mem[c].size
        /\ m3[c].next = IF c = b THEN r ELSE sized.mem[c].next
        /\ m3[c].prev = IF c = x THEN r ELSE sized.mem[c].prev
    BY <1>9, <1>10, <1>11
  <2> QED BY <1>5, <2>1, <2>2 DEF AfterSize, Cap, Siz, Nxt, Prv
<1>20. AfterSplit(h, b, n, r, k)
  BY <1>3, <1>14, <1>15, <1>17, <1>18, <1>19 DEF AfterSplit, a
<1> QED BY <1>20 DEF r, k

-----------------------------------------------------------------------------
(* The walk along the ring, and the searches.                              *)

\* The recursion that defines the walk has a solution.
LEMMA WalkDef ==
  ASSUME NEW h, Cardinality(Dom(h)) \in Nat
  PROVE  /\ DOMAIN Walk(h) = 0 .. Cardinality(Dom(h))
         /\ Walk(h)[0] = FreeList
         /\ \A i \in 1 .. Cardinality(Dom(h)) : Walk(h)[i] = Nxt(h, Walk(h)[i - 1])
<1> DEFINE N == Cardinality(Dom(h))
           Def(at, k) == [i \in 0 .. k |-> IF i = 0 THEN FreeList ELSE h.mem[at[i - 1]].next]
           S == {k \in 0 .. N : \E at : at = Def(at, k)}
<1>1. 0 \in S
  <2> DEFINE at == [i \in 0 .. 0 |-> FreeList]
  <2>1. at = Def(at, 0)
    OBVIOUS
  <2> HIDE DEF at
  <2> QED BY <2>1
<1>2. \A k \in 0 .. N - 1 : k \in S => k + 1 \in S
  <2> SUFFICES ASSUME NEW k \in 0 .. N - 1, k \in S PROVE k + 1 \in S
    OBVIOUS
  <2>1. PICK at : at = Def(at, k)
    OBVIOUS
  <2> DEFINE bt == [i \in 0 .. k + 1 |-> IF i <= k THEN at[i] ELSE h.mem[at[k]].next]
  <2>2. \A i \in 0 .. k : bt[i] = at[i]
    OBVIOUS
  <2>3. bt[k + 1] = h.mem[at[k]].next
    OBVIOUS
  <2>4. at[0] = FreeList /\ \A i \in 1 .. k : at[i] = h.mem[at[i - 1]].next
    BY <2>1
  <2>5. DOMAIN bt = 0 .. k + 1 /\ bt = [i \in 0 .. k + 1 |-> bt[i]]
    OBVIOUS
  <2> HIDE DEF bt
  <2>6. bt[0] = FreeList /\ \A i \in 1 .. k + 1 : bt[i] = h.mem[bt[i - 1]].next
    <3>1. bt[0] = FreeList
      BY <2>2, <2>4
    <3>2. \A i \in 1 .. k : bt[i] = at[i] /\ bt[i - 1] = at[i - 1]
      BY <2>2
    <3>3. bt[k + 1] = h.mem[bt[k]].next /\ (k + 1) - 1 = k
      BY <2>2, <2>3
    <3>4. \A i \in 1 .. k + 1 : i \in 1 .. k \/ i = k + 1
      OBVIOUS
    <3> QED BY <2>4, <3>1, <3>2, <3>3, <3>4
  <2>7. \A i \in 0 .. k + 1 : bt[i] = IF i = 0 THEN FreeList ELSE h.mem[bt[i - 1]].next
    BY <2>6
  <2>8. bt = Def(bt, k + 1)
    BY <2>5, <2>7
  <2>9. \E a : a = Def(a, k + 1)
    <3> HIDE DEF Def
    <3> QED BY <2>8
  <2>10. k + 1 \in 0 .. N
    OBVIOUS
  <2> HIDE DEF Def, N
  <2> QED BY <2>9, <2>10
<1>3. N \in S
  <2>1. 0 .. N \subseteq S
    <3> HIDE DEF S
    <3> QED BY <1>1, <1>2, IntervalInduction
  <2> QED BY <2>1
<1>4. Walk(h) = CHOOSE at : at = Def(at, N)
  BY DEF Walk, Dom
<1>5. Walk(h) = Def(Walk(h), N)
  <2>1. \E at : at = Def(at, N)
    BY <1>3
  <2> HIDE DEF Def
  <2> QED BY <1>4, <2>1
<1> QED BY <1>5 DEF Nxt

\* Those of G that are not above x.
Upto(G, x) == {c \in G : c <= x}

LEMMA UptoMonotone ==
  ASSUME NEW G \in SUBSET Nat, NEW x \in Nat, NEW y \in Nat, x <= y
  PROVE  Upto(G, x) \in SUBSET Upto(G, y)
<1> SUFFICES ASSUME NEW c \in Upto(G, x) PROVE c \in Upto(G, y)
  OBVIOUS
<1>1. c \in G /\ c \in Nat /\ c <= x
  BY DEF Upto
<1>2. c <= y
  BY <1>1
<1> QED BY <1>1, <1>2 DEF Upto

\* One more is up to the next of G than up to x.
LEMMA UptoNext ==
  ASSUME NEW G \in SUBSET Nat, NEW x \in Nat, NEW y \in G, x < y,
         \A d \in G : x < d => y <= d
  PROVE  Upto(G, y) = Upto(G, x) \cup {y} /\ y \notin Upto(G, x)
<1>1. ASSUME NEW c \in G PROVE c <= y <=> c <= x \/ c = y
  <2>1. c \in Nat /\ y \in Nat /\ (x < c => y <= c)
    OBVIOUS
  <2> QED BY <2>1
<1>2. ~ (y <= x)
  <2>1. y \in Nat
    OBVIOUS
  <2> QED BY <2>1
<1> QED BY <1>1, <1>2 DEF Upto

\* The i-th step of the walk leads to the block that has i blocks up to it.
LEMMA WalkRank ==
  ASSUME NEW h, Shape(h), NEW G \in SUBSET BlocksOf(h), Ring(h, G)
  PROVE  /\ Cardinality(G) \in Nat /\ Cardinality(Dom(h)) \in Nat
         /\ Cardinality(G) < Cardinality(Dom(h)) /\ IsFiniteSet(G)
         /\ \A i \in 0 .. Cardinality(G) : /\ Walk(h)[i] \in G \cup {FreeList}
                                           /\ i > 0 => Walk(h)[i] # FreeList
                                           /\ Cardinality(Upto(G, Walk(h)[i])) = i
<1> DEFINE n  == Cardinality(G)
           F  == G \cup {FreeList}
           at == Walk(h)
           S  == {i \in 0 .. n : /\ at[i] \in F /\ (i > 0 => at[i] # FreeList)
                                 /\ Cardinality(Upto(G, at[i])) = i}
<1>1. /\ IsFiniteSet(Dom(h)) /\ Dom(h) \in SUBSET Nat /\ FreeList \in Dom(h)
      /\ G \in SUBSET Dom(h) /\ FreeList \notin G /\ FreeList = 0
  BY Layout DEF Shape, BlocksOf
<1>2. IsFiniteSet(BlocksOf(h)) /\ Cardinality(BlocksOf(h)) = Cardinality(Dom(h)) - 1
  BY <1>1, FS_RemoveElement DEF BlocksOf
<1>3. IsFiniteSet(G) /\ n <= Cardinality(BlocksOf(h))
  BY <1>2, FS_Subset
<1>4. n \in Nat /\ Cardinality(Dom(h)) \in Nat
  BY <1>1, <1>3, FS_CardinalityType
<1>5. n < Cardinality(Dom(h))
  BY <1>2, <1>3, <1>4
<1>6. \A x : IsFiniteSet(Upto(G, x)) /\ Upto(G, x) \in SUBSET G
  <2> SUFFICES ASSUME NEW x PROVE IsFiniteSet(Upto(G, x)) /\ Upto(G, x) \in SUBSET G
    OBVIOUS
  <2>1. Upto(G, x) \in SUBSET G
    BY DEF Upto
  <2> QED BY <1>3, <2>1, FS_Subset
<1>7. at[0] = FreeList /\ \A i \in 1 .. Cardinality(Dom(h)) : at[i] = Nxt(h, at[i - 1])
  BY <1>4, WalkDef
<1> HIDE DEF at
<1>8. 0 \in S
  <2>1. Upto(G, FreeList) = {}
    <3>1. \A c \in G : ~ (c <= 0)
      <4> SUFFICES ASSUME NEW c \in G PROVE ~ (c <= 0)
        OBVIOUS
      <4>1. c \in Nat /\ c # 0
        BY <1>1
      <4> QED BY <4>1
    <3> QED BY <1>1, <3>1 DEF Upto
  <2>2. Cardinality({}) = 0
    BY FS_EmptySet
  <2> QED BY <1>4, <1>7, <2>1, <2>2
<1>9. \A i \in 0 .. n - 1 : i \in S => i + 1 \in S
  <2> SUFFICES ASSUME NEW i \in 0 .. n - 1, i \in S PROVE i + 1 \in S
    OBVIOUS
  <2> DEFINE x == at[i]
             y == Nxt(h, x)
  <2>1. x \in F /\ Cardinality(Upto(G, x)) = i /\ x \in Nat
    BY <1>1
  <2>2. at[i + 1] = y
    BY <1>4, <1>5, <1>7
  <2> HIDE DEF x, y
  <2>3. PICK z \in G : z > x
    <3>1. Upto(G, x) # G
      BY <1>4, <2>1
    <3>2. PICK z \in G : z \notin Upto(G, x)
      BY <1>6, <3>1
    <3> QED BY <1>1, <2>1, <3>2 DEF Upto
  <2>4. y # FreeList /\ y \in F /\ x < y
    BY <1>1, <2>1, <2>3 DEF Ring, y
  <2>5. y \in G /\ y \in Nat
    BY <1>1, <2>4
  <2>6. Upto(G, y) = Upto(G, x) \cup {y} /\ y \notin Upto(G, x)
    <3>1. \A d \in G : x < d => y <= d
      BY <2>1 DEF Ring, y
    <3>2. G \in SUBSET Nat
      BY <1>1
    <3> HIDE DEF S
    <3> QED BY <2>1, <2>4, <2>5, <3>1, <3>2, UptoNext
  <2>7. Cardinality(Upto(G, y)) = i + 1
    BY <1>6, <2>1, <2>6, FS_AddElement
  <2>8. i + 1 \in 0 .. n
    BY <1>4
  <2> QED BY <2>2, <2>4, <2>7, <2>8
<1>10. 0 .. n \subseteq S
  <2> HIDE DEF S
  <2> QED BY <1>4, <1>8, <1>9, IntervalInduction
<1> QED BY <1>3, <1>4, <1>5, <1>10 DEF at

\* The walk goes through G in ascending order and back to the sentinel.
Enumerates(h, G) ==
  /\ IsFiniteSet(G) /\ Cardinality(G) \in Nat /\ Cardinality(G) + 1 \in DOMAIN Walk(h)
  /\ Walk(h)[0] = FreeList /\ Walk(h)[Cardinality(G) + 1] = FreeList
  /\ \A i \in 1 .. Cardinality(G) : Walk(h)[i] \in G
  /\ \A x \in G : \E i \in 1 .. Cardinality(G) : Walk(h)[i] = x
  /\ \A i, j \in 1 .. Cardinality(G) : i < j => Walk(h)[i] < Walk(h)[j]
  /\ \A i \in 1 .. Cardinality(G) + 1 : Walk(h)[i] = Nxt(h, Walk(h)[i - 1])
  /\ Places(h) = 1 .. Cardinality(G)

\* The walk meets the blocks of the ring once, in ascending order, and comes back.
LEMMA WalkOfRing ==
  ASSUME NEW h, Shape(h), NEW G \in SUBSET BlocksOf(h), Ring(h, G)
  PROVE  Enumerates(h, G)
<1> DEFINE n  == Cardinality(G)
           N  == Cardinality(Dom(h))
           at == Walk(h)
<1>1. n \in Nat /\ N \in Nat /\ n < N /\ IsFiniteSet(G)
  BY WalkRank
<1>2. \A i \in 0 .. n : /\ at[i] \in G \cup {FreeList}
                        /\ i > 0 => at[i] # FreeList
                        /\ Cardinality(Upto(G, at[i])) = i
  BY WalkRank
<1>3. DOMAIN at = 0 .. N /\ at[0] = FreeList /\ \A i \in 1 .. N : at[i] = Nxt(h, at[i - 1])
  BY <1>1, WalkDef
<1>4. G \in SUBSET Nat /\ FreeList = 0 /\ FreeList \notin G
  BY Layout DEF Shape, BlocksOf
<1> HIDE DEF at, n, N
<1>5. \A i \in 1 .. n : at[i] \in G
  BY <1>1, <1>2
<1>6. \A x, y : x \in G /\ y \in G /\ x <= y => Cardinality(Upto(G, x)) <= Cardinality(Upto(G, y))
  <2> SUFFICES ASSUME NEW x \in G, NEW y \in G, x <= y
               PROVE  Cardinality(Upto(G, x)) <= Cardinality(Upto(G, y))
    OBVIOUS
  <2>1. Upto(G, x) \in SUBSET Upto(G, y) /\ Upto(G, y) \in SUBSET G
    <3>1. x \in Nat /\ y \in Nat
      BY <1>4
    <3>2. Upto(G, y) \in SUBSET G
      BY DEF Upto
    <3> QED BY <1>4, <3>1, <3>2, UptoMonotone
  <2>2. IsFiniteSet(Upto(G, y))
    BY <1>1, <2>1, FS_Subset
  <2> QED BY <2>1, <2>2, FS_Subset
<1>7. \A i, j \in 1 .. n : i < j => at[i] < at[j]
  <2> SUFFICES ASSUME NEW i \in 1 .. n, NEW j \in 1 .. n, i < j PROVE at[i] < at[j]
    OBVIOUS
  <2>1. at[i] \in G /\ at[j] \in G /\ at[i] \in Nat /\ at[j] \in Nat
    BY <1>4, <1>5
  <2>2. Cardinality(Upto(G, at[i])) = i /\ Cardinality(Upto(G, at[j])) = j
    BY <1>1, <1>2
  <2>3. ~ (j <= i)
    BY <1>1
  <2>4. ~ (at[j] <= at[i])
    BY <1>6, <2>1, <2>2, <2>3
  <2> QED BY <2>1, <2>4
<1>8. \A x \in G : \E i \in 1 .. n : at[i] = x
  <2> SUFFICES ASSUME NEW x \in G PROVE \E i \in 1 .. n : at[i] = x
    OBVIOUS
  <2> DEFINE k == Cardinality(Upto(G, x))
  <2>1. x \in Nat
    BY <1>4
  <2>2. Upto(G, x) \in SUBSET G /\ x \in Upto(G, x) /\ x \in Nat
    BY <2>1 DEF Upto
  <2>3. IsFiniteSet(Upto(G, x)) /\ k <= n /\ k \in Nat
    BY <1>1, <2>2, FS_Subset, FS_CardinalityType DEF n
  <2>4. k # 0
    BY <2>2, <2>3, FS_EmptySet
  <2>5. k \in 1 .. n
    BY <1>1, <2>3, <2>4
  <2> DEFINE y == at[k]
  <2> HIDE DEF k
  <2>6. y \in G /\ y \in Nat /\ Cardinality(Upto(G, y)) = Cardinality(Upto(G, x))
    <3>1. k \in 0 .. n
      BY <1>1, <2>5
    <3>2. Cardinality(Upto(G, at[k])) = k
      BY <1>2, <3>1
    <3>3. at[k] \in G
      BY <1>5, <2>5
    <3> QED BY <1>4, <3>2, <3>3 DEF k
  <2> HIDE DEF y
  <2>7. Upto(G, y) \in SUBSET G /\ y \in Upto(G, y)
    BY <1>4, <2>6 DEF Upto
  <2>8. IsFiniteSet(Upto(G, y))
    BY <1>1, <2>7, FS_Subset
  <2>9. CASE x <= y
    <3>1. Upto(G, x) \in SUBSET Upto(G, y)
      BY <1>4, <2>2, <2>6, <2>9, UptoMonotone
    <3>2. Upto(G, x) = Upto(G, y)
      BY <2>6, <2>8, <3>1, FS_Subset
    <3>3. y <= x
      BY <2>7, <3>2 DEF Upto
    <3> QED BY <2>2, <2>5, <2>6, <2>9, <3>3 DEF y
  <2>10. CASE y <= x
    <3>1. Upto(G, y) \in SUBSET Upto(G, x)
      BY <1>4, <2>2, <2>6, <2>10, UptoMonotone
    <3>2. Upto(G, x) = Upto(G, y)
      BY <2>3, <2>6, <3>1, FS_Subset
    <3>3. x <= y
      BY <2>2, <3>2 DEF Upto
    <3> QED BY <2>2, <2>5, <2>6, <2>10, <3>3 DEF y
  <2> QED BY <2>2, <2>6, <2>9, <2>10
<1>9. at[n + 1] = FreeList
  <2> DEFINE x == at[n]
             y == Nxt(h, x)
  <2>1. x \in G \cup {FreeList} /\ Cardinality(Upto(G, x)) = n /\ x \in Nat
    <3>1. n \in 0 .. n
      BY <1>1
    <3>2. x \in G \cup {FreeList} /\ Cardinality(Upto(G, x)) = n
      BY <1>2, <3>1
    <3>3. \A c \in G \cup {FreeList} : c \in Nat
      BY <1>4
    <3> HIDE DEF x
    <3> QED BY <3>2, <3>3
  <2>2. at[n + 1] = y
    BY <1>1, <1>3
  <2> HIDE DEF x
  <2>3. y \in G \cup {FreeList} /\ (y # FreeList => x < y)
    BY <2>1 DEF Ring
  <2> HIDE DEF y
  <2>4. Upto(G, x) = G
    <3>1. Upto(G, x) \in SUBSET G
      BY DEF Upto
    <3> QED BY <1>1, <2>1, <3>1, FS_Subset DEF n
  <2>5. y \in G => y <= x
    BY <2>4 DEF Upto
  <2> QED BY <1>4, <2>1, <2>2, <2>3, <2>5
<1>10. Places(h) = 1 .. n
  <2>1. Places(h) = {i \in 0 .. N : \A j \in 1 .. i : at[j] # FreeList} \ {0}
    BY <1>3 DEF Places, at
  <2>2. \A i \in 0 .. N : i > n => n + 1 \in 1 .. i
    BY <1>1
  <2>3. \A i \in 1 .. n : i \in 0 .. N /\ \A j \in 1 .. i : j \in 1 .. n
    BY <1>1
  <2>4. \A i \in 1 .. n : at[i] # FreeList
    BY <1>4, <1>5
  <2>5. \A i \in 0 .. N : (\A j \in 1 .. i : at[j] # FreeList) => i <= n
    BY <1>1, <1>9, <2>2
  <2>6. \A i \in 0 .. N : i <= n /\ i # 0 => i \in 1 .. n
    BY <1>1
  <2> QED BY <2>1, <2>3, <2>4, <2>5, <2>6
<1>11. n + 1 \in DOMAIN at /\ \A i \in 1 .. n + 1 : at[i] = Nxt(h, at[i - 1])
  BY <1>1, <1>3
<1> QED BY <1>1, <1>3, <1>5, <1>7, <1>8, <1>9, <1>10, <1>11 DEF Enumerates, at, n

\* Finite sets of numbers have a least and a greatest element.
LEMMA MinOf ==
  ASSUME NEW S \in SUBSET Nat, S # {}
  PROVE  Min(S) \in S /\ \A y \in S : Min(S) <= y
<1>1. \E x \in S : \A y \in S : x <= y
  BY LeastNumber
<1> QED BY <1>1 DEF Min

LEMMA MaxOf ==
  ASSUME NEW S \in SUBSET Nat, S # {}, NEW n \in Nat, \A y \in S : y <= n
  PROVE  Max(S) \in S /\ \A y \in S : Max(S) >= y
<1> DEFINE T == {d \in 0 .. n : n - d \in S}
<1>1. \A y \in S : y \in 0 .. n /\ n - y \in 0 .. n /\ n - (n - y) = y
  OBVIOUS
<1>2. T \in SUBSET Nat /\ T # {}
  <2>1. PICK y : y \in S
    OBVIOUS
  <2>2. n - y \in T
    BY <1>1, <2>1
  <2> QED BY <2>2
<1>3. PICK d \in T : \A e \in T : d <= e
  <2> HIDE DEF T
  <2> QED BY <1>2, LeastNumber
<1>4. n - d \in S /\ d \in Nat
  BY <1>3
<1>5. \A y \in S : n - d >= y
  <2> SUFFICES ASSUME NEW y \in S PROVE n - d >= y
    OBVIOUS
  <2>1. n - y \in T /\ y \in Nat
    BY <1>1
  <2>2. d <= n - y
    <3> HIDE DEF T
    <3> QED BY <1>3, <2>1
  <2> QED BY <1>4, <2>1, <2>2
<1>6. \E x \in S : \A y \in S : x >= y
  BY <1>4, <1>5
<1> QED BY <1>6 DEF Max

\* The search finds a block of G that is large enough, if there is one.
LEMMA SearchFinds ==
  ASSUME NEW h, Shape(h), NEW G \in SUBSET BlocksOf(h), Ring(h, G), fit \in Fits,
         NEW n \in Nat, \A c \in G : Cap(h, c) <= Limit
  PROVE  \/ Search(h, n) = FreeList /\ \A c \in G : Cap(h, c) < n
         \/ Search(h, n) \in G /\ Cap(h, Search(h, n)) >= n
<1> DEFINE at    == Walk(h)
           large == {i \in Places(h) : h.mem[at[i]].capacity >= n}
           capacities == {h.mem[at[i]].capacity : i \in large}
           worst == {i \in large : h.mem[at[i]].capacity = Max(capacities)}
           best  == {i \in large : h.mem[at[i]].capacity = Min(capacities)}
           wanted == CASE fit = "first" -> large
                       [] fit = "worst" -> worst
                       [] fit = "best"  -> best
           N == Cardinality(G)
<1>1. Enumerates(h, G)
  BY WalkOfRing
<1>2. /\ Places(h) = 1 .. N /\ N \in Nat
      /\ \A i \in 1 .. N : at[i] \in G
      /\ \A x \in G : \E i \in 1 .. N : at[i] = x
  BY <1>1 DEF Enumerates
<1>3. \A c \in G : h.mem[c].capacity = Cap(h, c) /\ Cap(h, c) \in Nat
  BY DEF Cap, Shape, HeaderType, BlocksOf
<1>4. Search(h, n) = IF large = {} THEN FreeList ELSE at[Min(wanted)]
  BY Zenon DEF Search
<1> HIDE DEF at, N
<1>5. CASE large = {}
  <2>1. \A c \in G : Cap(h, c) < n
    <3> SUFFICES ASSUME NEW c \in G PROVE Cap(h, c) < n
      OBVIOUS
    <3>1. PICK i \in 1 .. N : at[i] = c
      BY <1>2
    <3>2. ~ (Cap(h, c) >= n)
      BY <1>2, <1>3, <1>5, <3>1
    <3> QED BY <1>3, <3>2
  <2> QED BY <1>4, <1>5, <2>1
<1>6. CASE large # {}
  <2>1. large \in SUBSET Nat /\ \A i \in large : i \in 1 .. N
    BY <1>2
  <2>2. capacities \in SUBSET Nat /\ capacities # {}
    <3>1. \A i \in large : h.mem[at[i]].capacity \in Nat
      BY <1>2, <1>3, <2>1
    <3> HIDE DEF large
    <3> QED BY <1>6, <3>1
  <2>3. worst # {}
    <3>1. \A y \in capacities : y <= Limit
      BY <1>2, <1>3, <2>1
    <3>2. Max(capacities) \in capacities
      <4> HIDE DEF capacities
      <4> QED BY <2>2, <3>1, Layout, MaxOf
    <3> QED BY <3>2
  <2>4. best # {}
    <3>1. Min(capacities) \in capacities
      <4> HIDE DEF capacities
      <4> QED BY <2>2, MinOf
    <3> QED BY <3>1
  <2>5. wanted \in SUBSET large /\ wanted # {}
    <3>1. fit \in {"first", "worst", "best"}
      BY FitsAssumption
    <3> HIDE DEF large
    <3>2. worst \in SUBSET large /\ best \in SUBSET large
      OBVIOUS
    <3> HIDE DEF worst, best
    <3> QED BY <1>6, <2>3, <2>4, <3>1, <3>2
  <2>6. Min(wanted) \in large
    <3> HIDE DEF large, wanted
    <3>1. wanted \in SUBSET Nat
      BY <2>1, <2>5
    <3> QED BY <2>5, <3>1, MinOf
  <2> HIDE DEF wanted
  <2>7. at[Min(wanted)] \in G /\ h.mem[at[Min(wanted)]].capacity >= n
    BY <1>2, <2>1, <2>6
  <2> QED BY <1>3, <1>4, <1>6, <2>7
<1> QED BY <1>5, <1>6

\* The block that Above finds is the least of G that is higher than b.
LEMMA AboveIsNext ==
  ASSUME NEW h, Shape(h), NEW G \in SUBSET BlocksOf(h), Ring(h, G), NEW b \in Nat
  PROVE  \/ Above(h, b) = FreeList /\ \A c \in G : c <= b
         \/ Above(h, b) \in G /\ Above(h, b) > b /\ \A c \in G : c > b => Above(h, b) <= c
<1> DEFINE at    == Walk(h)
           later == {i \in Places(h) : at[i] > b}
           N     == Cardinality(G)
<1>1. Enumerates(h, G)
  BY WalkOfRing
<1>2. /\ Places(h) = 1 .. N /\ N \in Nat
      /\ \A i \in 1 .. N : at[i] \in G
      /\ \A x \in G : \E i \in 1 .. N : at[i] = x
      /\ \A i, j \in 1 .. N : i < j => at[i] < at[j]
  BY <1>1 DEF Enumerates
<1>3. G \in SUBSET Nat
  BY DEF Shape, BlocksOf
<1>4. Above(h, b) = IF later = {} THEN FreeList ELSE at[Min(later)]
  BY DEF Above
<1> HIDE DEF at, N
<1>5. CASE later = {}
  <2>1. \A c \in G : c <= b
    <3> SUFFICES ASSUME NEW c \in G PROVE c <= b
      OBVIOUS
    <3>1. PICK i \in 1 .. N : at[i] = c
      BY <1>2
    <3>2. ~ (c > b)
      BY <1>2, <1>5, <3>1
    <3> QED BY <1>3, <3>2
  <2> QED BY <1>4, <1>5, <2>1
<1>6. CASE later # {}
  <2> DEFINE k == Min(later)
  <2>1. later \in SUBSET Nat
    BY <1>2
  <2>2. k \in later /\ \A j \in later : k <= j
    <3> HIDE DEF later
    <3> QED BY <1>6, <2>1, MinOf
  <2>3. Above(h, b) = at[k]
    <3> HIDE DEF k
    <3> QED BY <1>4, <1>6 DEF k
  <2> HIDE DEF k
  <2>4. k \in 1 .. N /\ at[k] \in G /\ at[k] > b
    BY <1>2, <2>2
  <2>5. \A c \in G : c > b => at[k] <= c
    <3> SUFFICES ASSUME NEW c \in G, c > b PROVE at[k] <= c
      OBVIOUS
    <3>1. PICK j \in 1 .. N : at[j] = c
      BY <1>2
    <3>2. j \in later
      BY <1>2, <3>1
    <3>3. k = j \/ k < j
      <4>1. k <= j
        BY <2>2, <3>2
      <4> QED BY <2>4, <4>1
    <3>4. at[k] = at[j] \/ at[k] < at[j]
      BY <1>2, <2>4, <3>3
    <3>5. at[k] \in Nat /\ c \in Nat
      BY <1>3, <2>4
    <3> QED BY <3>1, <3>4, <3>5
  <2> QED BY <2>3, <2>4, <2>5
<1> QED BY <1>5, <1>6

-----------------------------------------------------------------------------
(* Taking a block out of a ring and putting one in.                        *)

\* Rings depend on the links of their members only.
LEMMA RingSame ==
  ASSUME NEW h, NEW k, NEW G, Ring(h, G),
         \A c \in G \cup {FreeList} : Nxt(k, c) = Nxt(h, c) /\ Prv(k, c) = Prv(h, c)
  PROVE  Ring(k, G)
  BY DEF Ring

\* Taking b out of the ring.
LEMMA RingWithout ==
  ASSUME NEW h, NEW k, NEW G \in SUBSET Nat, FreeList \notin G, Ring(h, G), NEW b \in G,
         \A c \in (G \ {b}) \cup {FreeList} :
           /\ Nxt(k, c) = IF c = Prv(h, b) THEN Nxt(h, b) ELSE Nxt(h, c)
           /\ Prv(k, c) = IF c = Nxt(h, b) THEN Prv(h, b) ELSE Prv(h, c)
  PROVE  Ring(k, G \ {b})
<1> DEFINE p == Prv(h, b)
           n == Nxt(h, b)
           F == G \cup {FreeList}
           H == (G \ {b}) \cup {FreeList}
<1>1. /\ \A c \in F : /\ Nxt(h, c) \in F /\ Prv(h, c) \in F
                      /\ Prv(h, Nxt(h, c)) = c /\ Nxt(h, Prv(h, c)) = c
                      /\ Nxt(h, c) # FreeList => c < Nxt(h, c)
      /\ \A c \in F : \A d \in G : c < d => Nxt(h, c) # FreeList /\ Nxt(h, c) <= d
  BY DEF Ring
<1>2. \A c \in F : c \in Nat
  BY Layout
<1>3. b \in F /\ b # FreeList /\ b \in Nat
  OBVIOUS
<1>4. \A c \in H : /\ Nxt(k, c) = IF c = p THEN n ELSE Nxt(h, c)
                   /\ Prv(k, c) = IF c = n THEN p ELSE Prv(h, c)
  OBVIOUS
<1>5. (\A c \in F : c # b => c \in H) /\ (\A c \in H : c \in F /\ c # b)
  OBVIOUS
<1> HIDE DEF F, H
<1>6. p \in F /\ n \in F /\ Nxt(h, p) = b /\ Prv(h, n) = b
  BY <1>1, <1>3
<1> HIDE DEF p, n
<1>7. p < b /\ (n # FreeList => b < n)
  <2>1. p < b
    BY <1>1, <1>3, <1>6
  <2>2. n # FreeList => b < n
    BY <1>1, <1>3, <1>6 DEF n
  <2> QED BY <2>1, <2>2
<1>8. p # b /\ n # b /\ p \in H /\ n \in H /\ p \in Nat /\ n \in Nat
  <2>1. p \in Nat /\ n \in Nat
    BY <1>2, <1>6
  <2>2. p # b /\ n # b
    BY <1>3, <1>7, <2>1
  <2> QED BY <1>5, <1>6, <2>1, <2>2
<1>9. \A c \in H : c \in F /\ c # b /\ (Nxt(h, c) = b => c = p) /\ (Prv(h, c) = b => c = n)
  BY <1>1, <1>3, <1>5, <1>6 DEF p, n
<1>10. ASSUME NEW c \in H
      PROVE  /\ Nxt(k, c) \in H /\ Prv(k, c) \in H
             /\ Prv(k, Nxt(k, c)) = c /\ Nxt(k, Prv(k, c)) = c
             /\ Nxt(k, c) # FreeList => c < Nxt(k, c)
  <2>1. CASE c = p
    <3>1. Nxt(k, c) = n
      BY <1>4, <2>1
    <3>2. n # FreeList => p < n
      BY <1>3, <1>7, <1>8
    <3>3. Prv(k, n) = p
      BY <1>4, <1>8
    <3>4. Prv(k, c) \in H /\ Nxt(k, Prv(k, c)) = c
      <4>1. CASE c = n
        BY <1>4, <1>8, <2>1, <3>1, <4>1
      <4>2. CASE c # n
        <5>1. Prv(k, c) = Prv(h, c) /\ Prv(h, c) \in H /\ Nxt(h, Prv(h, c)) = c
          BY <1>1, <1>4, <1>5, <1>9, <4>2
        <5>2. Prv(h, c) # p
          BY <1>6, <1>9, <5>1
        <5> QED BY <1>4, <5>1, <5>2
      <4> QED BY <4>1, <4>2
    <3> QED BY <1>8, <2>1, <3>1, <3>2, <3>3, <3>4
  <2>2. CASE c # p
    <3>1. c \in F /\ c # b
      BY <1>9
    <3>2. Nxt(k, c) = Nxt(h, c) /\ Nxt(h, c) \in H
      BY <1>1, <1>4, <1>5, <1>9, <2>2
    <3>3. Nxt(h, c) # n
      <4>1. Prv(h, Nxt(h, c)) = c
        BY <1>1, <3>1
      <4> QED BY <1>6, <3>1, <4>1
    <3>4. Prv(k, Nxt(k, c)) = c
      <4>1. Prv(h, Nxt(h, c)) = c
        BY <1>1, <3>1
      <4> QED BY <1>4, <3>2, <3>3, <4>1
    <3>5. Prv(k, c) \in H /\ Nxt(k, Prv(k, c)) = c
      <4>1. CASE c = n
        <5>1. Prv(k, c) = p /\ Nxt(k, p) = n
          BY <1>4, <1>8, <4>1
        <5> QED BY <1>8, <4>1, <5>1
      <4>2. CASE c # n
        <5>1. Prv(k, c) = Prv(h, c) /\ Prv(h, c) \in H /\ Nxt(h, Prv(h, c)) = c
          BY <1>1, <1>4, <1>5, <1>9, <4>2
        <5>2. Prv(h, c) # p
          BY <1>6, <1>9, <5>1
        <5> QED BY <1>4, <5>1, <5>2
      <4> QED BY <4>1, <4>2
    <3>6. Nxt(h, c) # FreeList => c < Nxt(h, c)
      BY <1>1, <3>1
    <3> QED BY <3>2, <3>4, <3>5, <3>6
  <2> QED BY <2>1, <2>2
<1>11. ASSUME NEW c \in H, NEW d \in G \ {b}, c < d
       PROVE  Nxt(k, c) # FreeList /\ Nxt(k, c) <= d
  <2>1. CASE c = p
    <3>1. b <= d
      BY <1>1, <1>6, <1>11, <2>1
    <3>2. d \in G /\ d # b /\ d \in Nat
      OBVIOUS
    <3>3. b < d
      BY <1>3, <3>1, <3>2
    <3>4. n # FreeList /\ n <= d
      BY <1>1, <1>3, <3>2, <3>3 DEF n
    <3> QED BY <1>4, <2>1, <3>4
  <2>2. CASE c # p
    BY <1>1, <1>4, <1>9, <1>11, <2>2
  <2> QED BY <2>1, <2>2
<1> QED BY <1>10, <1>11 DEF Ring, H

\* Putting b into the ring, in front of the least that is higher.
LEMMA RingWith ==
  ASSUME NEW h, NEW k, NEW G \in SUBSET Nat, FreeList \notin G, Ring(h, G),
         NEW b \in Nat, b # FreeList, b \notin G, NEW x,
         \/ x = FreeList /\ \A c \in G : c <= b
         \/ x \in G /\ x > b /\ \A c \in G : c > b => x <= c,
         \A c \in (G \cup {b}) \cup {FreeList} :
           /\ Nxt(k, c) = IF c = b THEN x ELSE IF c = Prv(h, x) THEN b ELSE Nxt(h, c)
           /\ Prv(k, c) = IF c = b THEN Prv(h, x) ELSE IF c = x THEN b ELSE Prv(h, c)
  PROVE  Ring(k, G \cup {b})
<1> DEFINE p == Prv(h, x)
           F == G \cup {FreeList}
           H == (G \cup {b}) \cup {FreeList}
<1>1. /\ \A c \in F : /\ Nxt(h, c) \in F /\ Prv(h, c) \in F
                      /\ Prv(h, Nxt(h, c)) = c /\ Nxt(h, Prv(h, c)) = c
                      /\ Nxt(h, c) # FreeList => c < Nxt(h, c)
      /\ \A c \in F : \A d \in G : c < d => Nxt(h, c) # FreeList /\ Nxt(h, c) <= d
  BY DEF Ring
<1>2. \A c \in H : c \in Nat
  BY Layout
<1>3. x \in F /\ p \in F /\ Nxt(h, p) = x /\ x # b /\ p # b
  <2>1. x \in F
    OBVIOUS
  <2>2. \A c \in F : c # b
    OBVIOUS
  <2> HIDE DEF F
  <2> QED BY <1>1, <2>1, <2>2
<1>4. \A c \in H : /\ Nxt(k, c) = IF c = b THEN x ELSE IF c = p THEN b ELSE Nxt(h, c)
                   /\ Prv(k, c) = IF c = b THEN p ELSE IF c = x THEN b ELSE Prv(h, c)
  OBVIOUS
<1>5. \A c \in G : c > b => x # FreeList /\ x <= c
  <2> SUFFICES ASSUME NEW c \in G, c > b PROVE x # FreeList /\ x <= c
    OBVIOUS
  <2>1. c \in Nat
    OBVIOUS
  <2> QED BY <2>1
<1>6. x # FreeList => x > b
  OBVIOUS
<1>7. (\A c \in F : c # FreeList => c \in G) /\ (\A c \in G : c \in F)
       /\ (\A c \in G \cup {b} : c \in G \/ c = b) /\ FreeList \in F
  OBVIOUS
<1> HIDE DEF p
<1>8. p < b
  <2>1. CASE p = FreeList
    BY <2>1, Layout
  <2>2. CASE p # FreeList
    <3>1. p \in G /\ p \in Nat
      BY <1>3, <1>7, <2>2
    <3> SUFFICES ASSUME p > b PROVE FALSE
      BY <1>3, <3>1
    <3>2. x # FreeList /\ x <= p /\ x \in Nat
      BY <1>2, <1>3, <1>5, <3>1
    <3>3. p < x
      BY <1>1, <1>3, <3>2
    <3> QED BY <3>1, <3>2, <3>3
  <2> QED BY <2>1, <2>2
<1>9. \A c \in H : c # b => c \in F
  OBVIOUS
<1>10. \A c \in F : c \in H /\ c # b
  OBVIOUS
<1>11. b \in H
  OBVIOUS
<1> HIDE DEF F, H
<1>12. ASSUME NEW c \in H
       PROVE  /\ Nxt(k, c) \in H /\ Prv(k, c) \in H
              /\ Prv(k, Nxt(k, c)) = c /\ Nxt(k, Prv(k, c)) = c
              /\ Nxt(k, c) # FreeList => c < Nxt(k, c)
  <2>1. CASE c = b
    BY <1>1, <1>2, <1>3, <1>4, <1>6, <1>10, <1>11, <2>1
  <2>2. CASE c # b /\ c = p
    <3>1. Nxt(k, c) = b
      BY <1>4, <2>2
    <3>2. Prv(k, c) \in H /\ Nxt(k, Prv(k, c)) = c
      <4>1. CASE c = x
        BY <1>3, <1>4, <1>11, <2>2, <4>1
      <4>2. CASE c # x
        <5>1. Prv(k, c) = Prv(h, c) /\ Prv(h, c) \in F
          BY <1>1, <1>4, <1>9, <2>2, <4>2
        <5>2. Prv(h, c) # p
          BY <1>1, <1>3, <1>9, <2>2, <4>2
        <5> QED BY <1>1, <1>4, <1>9, <1>10, <2>2, <5>1, <5>2
      <4> QED BY <4>1, <4>2
    <3> QED BY <1>4, <1>8, <1>11, <2>2, <3>1, <3>2
  <2>3. CASE c # b /\ c # p
    <3>1. Nxt(k, c) = Nxt(h, c) /\ Nxt(h, c) \in F /\ c \in F
      BY <1>1, <1>4, <1>9, <2>3
    <3>2. Nxt(h, c) # x
      BY <1>1, <1>9, <2>3, <3>1 DEF p
    <3>3. Prv(k, Nxt(k, c)) = c
      BY <1>1, <1>4, <1>10, <3>1, <3>2
    <3>4. Prv(k, c) \in H /\ Nxt(k, Prv(k, c)) = c
      <4>1. CASE c = x
        <5>1. Prv(k, c) = b /\ Nxt(k, b) = x
          BY <1>4, <1>11, <2>3, <4>1
        <5> QED BY <1>11, <4>1, <5>1
      <4>2. CASE c # x
        <5>1. Prv(k, c) = Prv(h, c) /\ Prv(h, c) \in F
          BY <1>1, <1>4, <2>3, <3>1, <4>2
        <5>2. Prv(h, c) # p
          BY <1>1, <1>3, <3>1, <4>2
        <5> QED BY <1>1, <1>4, <1>10, <3>1, <5>1, <5>2
      <4> QED BY <4>1, <4>2
    <3> QED BY <1>1, <1>10, <3>1, <3>3, <3>4
  <2> QED BY <2>1, <2>2, <2>3
<1>13. ASSUME NEW c \in H, NEW d \in G \cup {b}, c < d
       PROVE  Nxt(k, c) # FreeList /\ Nxt(k, c) <= d
  <2>1. CASE c = b
    <3>1. d \in G /\ d > b
      BY <1>2, <1>11, <1>13, <2>1
    <3> QED BY <1>4, <1>5, <1>11, <2>1, <3>1
  <2>2. CASE c = p
    <3>1. Nxt(k, c) = b
      BY <1>3, <1>4, <2>2
    <3>2. d \in Nat /\ c \in Nat
      BY <1>2
    <3>3. b <= d
      <4> SUFFICES ASSUME d < b PROVE FALSE
        BY <3>2
      <4>1. d \in G
        BY <3>2
      <4>2. x # FreeList /\ x <= d
        BY <1>1, <1>3, <1>13, <2>2, <4>1
      <4>3. x > b /\ x \in Nat
        BY <1>2, <1>3, <1>6, <4>2
      <4> QED BY <3>2, <4>2, <4>3
    <3> QED BY <3>1, <3>3
  <2>3. CASE c # b /\ c # p
    <3>1. Nxt(k, c) = Nxt(h, c) /\ c \in F
      BY <1>4, <1>9, <2>3
    <3>2. CASE d \in G
      BY <1>1, <1>13, <3>1, <3>2
    <3>3. CASE d = b
      <4>1. c < p
        <5>1. c \in Nat /\ p \in Nat
          BY <1>2, <1>3, <1>10
        <5> SUFFICES ASSUME p < c PROVE FALSE
          BY <2>3, <5>1
        <5>2. c \in G
          <6>1. c # 0
            BY <5>1
          <6> QED BY <1>7, <3>1, <6>1, Layout
        <5>3. x # FreeList /\ x <= c
          BY <1>1, <1>3, <5>2
        <5>4. x > b /\ x \in Nat
          BY <1>2, <1>3, <1>6, <1>10, <5>3
        <5> QED BY <1>13, <3>3, <5>1, <5>3, <5>4
      <4>2. p \in G /\ p \in Nat /\ c \in Nat
        <5>1. c \in Nat /\ p \in Nat
          BY <1>2, <1>3, <1>10
        <5>2. p # 0
          BY <4>1, <5>1
        <5> QED BY <1>3, <1>7, <5>1, <5>2, Layout
      <4>3. Nxt(h, c) # FreeList /\ Nxt(h, c) <= p /\ Nxt(h, c) \in Nat
        BY <1>1, <1>2, <1>10, <3>1, <4>1, <4>2
      <4> QED BY <1>8, <3>1, <3>3, <4>2, <4>3
    <3> QED BY <3>2, <3>3
  <2> QED BY <2>1, <2>2, <2>3
<1> QED BY <1>12, <1>13 DEF Ring, H

-----------------------------------------------------------------------------
(* Where the blocks lie.                                                   *)

Geometry(h) ==
  /\ \A c \in Dom(h) : /\ c \in Nat /\ Cap(h, c) \in Nat /\ Siz(h, c) \in 0 .. Wrap - 1
                       /\ Nxt(h, c) \in Nat /\ Prv(h, c) \in Nat
                       /\ End(h, c) = c + Header + Cap(h, c) /\ End(h, c) \in Nat
  /\ h.brk \in Nat /\ Start <= h.brk /\ h.brk <= Limit /\ h.brk \notin Dom(h)
  /\ \A b \in BlocksOf(h) : /\ b \in Dom(h) /\ b # FreeList /\ b > 0
                            /\ Start <= b /\ b < End(h, b) /\ End(h, b) <= h.brk
                            /\ Cap(h, b) <= Limit
  /\ \A c \in BlocksOf(h) : End(h, FreeList) # c
  /\ \A b, c \in BlocksOf(h) : End(h, b) = End(h, c) => b = c
  /\ \A b, c \in BlocksOf(h) : b < c => End(h, b) <= c

\* What tiling says of each block and each pair of blocks.
LEMMA GeometryHolds ==
  ASSUME NEW h, Shape(h), Aligned(h), Tiled(h)
  PROVE  Geometry(h)
<1>1. ASSUME NEW c \in Dom(h)
      PROVE  /\ c \in Nat /\ Cap(h, c) \in Nat /\ Siz(h, c) \in 0 .. Wrap - 1
             /\ Nxt(h, c) \in Nat /\ Prv(h, c) \in Nat
             /\ End(h, c) = c + Header + Cap(h, c) /\ End(h, c) \in Nat
  <2>1. /\ c \in Nat /\ Cap(h, c) \in Nat /\ Siz(h, c) \in 0 .. Wrap - 1
        /\ Nxt(h, c) \in Nat /\ Prv(h, c) \in Nat
    BY DEF Shape, HeaderType, Cap, Siz, Nxt, Prv
  <2>2. End(h, c) = c + Header + Cap(h, c)
    BY DEF End, Cap
  <2> QED BY <2>1, <2>2, Layout
<1>2. h.brk \in Nat /\ Start <= h.brk /\ h.brk <= Limit
  BY Layout DEF Shape
<1>3. ASSUME NEW b \in BlocksOf(h)
      PROVE  /\ b \in Dom(h) /\ b # FreeList /\ b > 0
             /\ Start <= b /\ b < End(h, b) /\ End(h, b) <= h.brk
             /\ Cap(h, b) <= Limit
  <2>1. b \in Dom(h) /\ b # FreeList
    BY DEF BlocksOf
  <2>2. Start <= b /\ End(h, b) <= h.brk
    BY DEF Tiled
  <2> QED BY <1>1, <1>2, <2>1, <2>2, Layout
<1>4. h.brk \notin Dom(h)
  <2> SUFFICES ASSUME h.brk \in Dom(h) PROVE FALSE
    OBVIOUS
  <2>1. h.brk # FreeList
    BY <1>2, Layout
  <2>2. h.brk \in BlocksOf(h)
    BY <2>1 DEF BlocksOf
  <2> QED BY <1>1, <1>2, <1>3, <2>2
<1>5. \A c \in BlocksOf(h) : End(h, FreeList) # c
  <2> SUFFICES ASSUME NEW c \in BlocksOf(h) PROVE End(h, FreeList) # c
    OBVIOUS
  <2>1. End(h, FreeList) = Header
    <3>1. FreeList \in Dom(h) /\ Cap(h, FreeList) = 0
      BY DEF Shape, Aligned
    <3> QED BY <1>1, <3>1, Layout
  <2>2. c >= Start /\ c \in Nat
    BY <1>1, <1>3
  <2> QED BY <2>1, <2>2, Layout
<1>6. \A b, c \in BlocksOf(h) : b < c => End(h, b) <= c
  BY DEF Tiled
<1>7. \A b, c \in BlocksOf(h) : End(h, b) = End(h, c) => b = c
  <2> SUFFICES ASSUME NEW b \in BlocksOf(h), NEW c \in BlocksOf(h),
                      End(h, b) = End(h, c), b < c
               PROVE  FALSE
    <3>1. \A d \in BlocksOf(h) : d \in Nat
      BY <1>1, <1>3
    <3>2. \A b, c \in BlocksOf(h) : End(h, b) = End(h, c) => ~ (b < c)
      OBVIOUS
    <3>3. \A b, c \in BlocksOf(h) : ~ (b < c) /\ ~ (c < b) => b = c
      BY <3>1
    <3> QED BY <3>2, <3>3
  <2>1. End(h, b) <= c /\ c < End(h, c) /\ c \in Nat /\ End(h, c) \in Nat
    BY <1>1, <1>3, <1>6
  <2> QED BY <2>1
<1> QED BY <1>1, <1>2, <1>3, <1>4, <1>5, <1>6, <1>7 DEF Geometry

\* Where nothing but links and sizes differ, the blocks lie where they did.
SamePlaces(h, k) ==
  /\ Dom(k) = Dom(h) /\ k.brk = h.brk /\ k.blocks = h.blocks /\ k.size = h.size
  /\ \A c \in Dom(h) : Cap(k, c) = Cap(h, c)

\* Then all that concerns places stays.
LEMMA PlacesKept ==
  ASSUME NEW h, NEW k, Shape(h), Aligned(h), Tiled(h), Counted(h), SamePlaces(h, k)
  PROVE  /\ Aligned(k) /\ Tiled(k) /\ Counted(k) /\ BlocksOf(k) = BlocksOf(h)
         /\ \A c \in Dom(h) : End(k, c) = End(h, c)
<1>1. BlocksOf(k) = BlocksOf(h) /\ \A b \in BlocksOf(h) : b \in Dom(h)
  BY DEF SamePlaces, BlocksOf
<1>2. \A c \in Dom(h) : End(k, c) = End(h, c)
  BY DEF SamePlaces, End, Cap
<1>3. Aligned(k)
  <2>1. FreeList \in Dom(h)
    BY DEF Shape
  <2> QED BY <1>1, <2>1 DEF Aligned, SamePlaces
<1>4. Tiled(k)
  <2>1. k.brk = h.brk
    BY DEF SamePlaces
  <2> QED BY <1>1, <1>2, <2>1 DEF Tiled
<1>5. Counted(k)
  BY <1>1 DEF Counted, SamePlaces
<1> QED BY <1>1, <1>2, <1>3, <1>4, <1>5

\* Of two free blocks that are adjacent, the second follows in the ring.
LEMMA AdjacentIsNext ==
  ASSUME NEW h, NEW G \in SUBSET BlocksOf(h), Geometry(h), Ring(h, G),
         NEW c \in G, NEW d \in G, End(h, c) = d
  PROVE  Nxt(h, c) = d
<1> DEFINE x == Nxt(h, c)
<1>1. c < d /\ c \in BlocksOf(h) /\ d \in BlocksOf(h) /\ d \in Nat
  BY DEF Geometry
<1>2. x \in G \cup {FreeList} /\ x # FreeList /\ x <= d
  BY <1>1 DEF Ring
<1>3. c < x
  BY <1>2 DEF Ring
<1>4. x \in BlocksOf(h) /\ x \in Nat
  <2> HIDE DEF x
  <2>1. x \in BlocksOf(h)
    BY <1>2
  <2> QED BY <2>1 DEF Geometry
<1>5. End(h, c) <= x
  BY <1>1, <1>3, <1>4 DEF Geometry
<1> QED BY <1>1, <1>2, <1>4, <1>5

-----------------------------------------------------------------------------
(* Each operator keeps the heap in order.                                  *)

\* What the lemmas unpack.
LEMMA HeapParts ==
  ASSUME NEW h, NEW L, NEW P, HeapOK(h, L, P)
  PROVE  /\ Shape(h) /\ Aligned(h) /\ Tiled(h) /\ Counted(h) /\ Geometry(h)
         /\ L \subseteq BlocksOf(h) /\ BlocksOf(h) \ L \in SUBSET Nat
         /\ FreeList \notin BlocksOf(h) \ L /\ FreeList \in Dom(h)
         /\ IsFiniteSet(BlocksOf(h))
         /\ Ring(h, BlocksOf(h) \ L)
         /\ \A c \in L : Nxt(h, c) = c /\ Prv(h, c) = c
         /\ Apart(h, BlocksOf(h) \ L, P)
<1>1. Shape(h) /\ Aligned(h) /\ Tiled(h)
  BY DEF HeapOK
<1>2. Geometry(h)
  BY <1>1, GeometryHolds
<1>3. BlocksOf(h) \ L \in SUBSET Nat /\ FreeList \notin BlocksOf(h) \ L /\ FreeList \in Dom(h)
  BY <1>1 DEF BlocksOf, Shape
<1>4. IsFiniteSet(BlocksOf(h))
  BY <1>1, FS_RemoveElement DEF BlocksOf, Shape
<1> QED BY <1>1, <1>2, <1>3, <1>4 DEF HeapOK

\* A detached block is held.
LEMMA DetachKeeps ==
  ASSUME NEW h, NEW L, NEW P, HeapOK(h, L, P), NEW b \in BlocksOf(h) \ L
  PROVE  /\ HeapOK(Detach(h, b), L \cup {b}, P)
         /\ SameBlocks(h, Detach(h, b))
         /\ \A c \in L : Same(h, Detach(h, b), c)
<1> DEFINE G == BlocksOf(h) \ L
           k == Detach(h, b)
<1>1. /\ Shape(h) /\ Aligned(h) /\ Tiled(h) /\ Counted(h) /\ Geometry(h)
      /\ L \subseteq BlocksOf(h) /\ G \in SUBSET Nat
      /\ FreeList \notin G /\ FreeList \in Dom(h)
      /\ Ring(h, G) /\ Apart(h, G, P)
      /\ \A c \in L : Nxt(h, c) = c /\ Prv(h, c) = c
  BY HeapParts
<1>2. G \subseteq Dom(h) /\ L \subseteq Dom(h) /\ G \cap L = {} /\ FreeList \notin L
  BY <1>1 DEF BlocksOf
<1>3. Prv(h, b) \in G \cup {FreeList} /\ Nxt(h, b) \in G \cup {FreeList}
  BY <1>1 DEF Ring
<1>4. Prv(h, b) \in Dom(h) /\ Nxt(h, b) \in Dom(h) /\ b \in Dom(h) /\ b \in G
  BY <1>1, <1>2, <1>3
<1>5. AfterDetach(h, b, k)
  BY <1>1, <1>4, DetachView
<1> HIDE DEF k
<1>6. SameBlocks(h, k)
  BY <1>5 DEF AfterDetach
<1>7. SamePlaces(h, k) /\ Shape(k)
  BY <1>6 DEF SameBlocks, SamePlaces
<1>8. /\ Aligned(k) /\ Tiled(k) /\ Counted(k) /\ BlocksOf(k) = BlocksOf(h)
      /\ \A c \in Dom(h) : End(k, c) = End(h, c)
  BY <1>1, <1>7, PlacesKept
<1>9. Ring(k, G \ {b})
  <2>1. \A c \in (G \ {b}) \cup {FreeList} :
           /\ Nxt(k, c) = IF c = Prv(h, b) THEN Nxt(h, b) ELSE Nxt(h, c)
           /\ Prv(k, c) = IF c = Nxt(h, b) THEN Prv(h, b) ELSE Prv(h, c)
    <3>1. \A c \in (G \ {b}) \cup {FreeList} : c \in Dom(h) /\ c # b
      BY <1>1, <1>2, <1>4
    <3> QED BY <1>5, <3>1 DEF AfterDetach
  <2> HIDE DEF G
  <2> QED BY <1>1, <1>4, <2>1, RingWithout
<1>10. \A c \in L : Same(h, k, c)
  <2> SUFFICES ASSUME NEW c \in L PROVE Same(h, k, c)
    OBVIOUS
  <2>1. c \in Dom(h) /\ c # b /\ c # Prv(h, b) /\ c # Nxt(h, b)
    BY <1>2, <1>3, <1>4
  <2> QED BY <1>5, <1>6, <2>1 DEF AfterDetach, SameBlocks, Same
<1>11. \A c \in L \cup {b} : Nxt(k, c) = c /\ Prv(k, c) = c
  <2>1. Nxt(k, b) = b /\ Prv(k, b) = b
    BY <1>4, <1>5 DEF AfterDetach
  <2> QED BY <1>1, <1>10, <2>1 DEF Same
<1>12. Apart(k, G \ {b}, P)
  BY <1>1, <1>2, <1>8 DEF Apart
<1>13. BlocksOf(k) \ (L \cup {b}) = G \ {b} /\ L \cup {b} \subseteq BlocksOf(k)
  BY <1>1, <1>8
<1> QED BY <1>6, <1>7, <1>8, <1>9, <1>10, <1>11, <1>12, <1>13 DEF HeapOK, k

\* A block that is new at the break is held.
LEMMA AllocateKeeps ==
  ASSUME Ordinary, NEW n \in Sizes, NEW h, NEW L, NEW P, HeapOK(h, L, P), CanGrow(h, n)
  PROVE  /\ HeapOK(Allocate(h, n), L \cup {h.brk}, P)
         /\ h.brk \notin BlocksOf(h)
         /\ \A c \in Dom(h) : Same(h, Allocate(h, n), c)
         /\ Siz(Allocate(h, n), h.brk) = n /\ n <= Cap(Allocate(h, n), h.brk)
<1> DEFINE B == BlocksOf(h)
           G == B \ L
           a == h.brk
           k == Allocate(h, n)
<1>1. /\ Shape(h) /\ Aligned(h) /\ Tiled(h) /\ Counted(h) /\ Geometry(h)
      /\ L \subseteq B /\ IsFiniteSet(B) /\ FreeList \in Dom(h)
      /\ Ring(h, G) /\ Apart(h, G, P)
      /\ \A c \in L : Nxt(h, c) = c /\ Prv(h, c) = c
  BY HeapParts
<1>2. a \in Nat /\ a \notin Dom(h) /\ a # FreeList /\ a \notin B /\ Start <= a
  BY <1>1, Layout DEF Geometry, BlocksOf
<1>3. \A c \in B : c \in Dom(h) /\ c \in Nat /\ End(h, c) \in Nat
  BY <1>1 DEF Geometry
<1>4. Align(n) \in Nat /\ n <= Align(n) /\ Align(n) % Unit = 0 /\ n \in Nat
  BY AlignRoundsUp
<1>5. h.blocks = Cardinality(B) /\ h.size = a - Start /\ Cardinality(B) \in Nat
  BY <1>1, FS_CardinalityType DEF Counted
<1>6. AfterAllocate(h, n, k)
  <2>1. h.blocks \in Int /\ h.size \in Int
    BY <1>2, <1>5, Layout
  <2> QED BY <1>1, <1>2, <2>1, AllocateView
<1> HIDE DEF a, k
<1>7. /\ Shape(k) /\ Dom(k) = Dom(h) \cup {a} /\ k.brk = a + Header + Align(n)
      /\ k.blocks = h.blocks + 1 /\ k.size = h.size + Header + Align(n)
      /\ Cap(k, a) = Align(n) /\ Siz(k, a) = n /\ Nxt(k, a) = a /\ Prv(k, a) = a
      /\ \A c \in Dom(h) : Same(h, k, c)
  BY <1>6 DEF AfterAllocate, a
<1>8. BlocksOf(k) = B \cup {a} /\ BlocksOf(k) \ (L \cup {a}) = G
  BY <1>1, <1>2, <1>7 DEF BlocksOf
<1> HIDE DEF B
<1>9. (\A c \in Dom(h) : End(k, c) = End(h, c)) /\ End(k, a) = k.brk
  BY <1>7 DEF End, Same, Cap
<1>10. Aligned(k)
  <2>1. a % Unit = 0 /\ Header % Unit = 0 /\ Align(n) % Unit = 0
    BY <1>1, <1>4, Layout DEF Aligned, a
  <2>2. (a + Header) % Unit = 0
    BY <1>2, <2>1, Layout, AlignedSum
  <2>3. k.brk % Unit = 0
    <3>1. a + Header \in Nat
      BY <1>2, Layout
    <3>2. ((a + Header) + Align(n)) % Unit = 0
      BY <1>4, <2>1, <2>2, <3>1, Layout, AlignedSum
    <3> QED BY <1>7, <3>2
  <2>4. Cap(k, FreeList) = 0
    BY <1>1, <1>7 DEF Same, Aligned
  <2>5. \A b \in B : b % Unit = 0 /\ Cap(k, b) % Unit = 0
    BY <1>1, <1>3, <1>7 DEF Same, Aligned, B
  <2> QED BY <1>7, <1>8, <2>1, <2>3, <2>4, <2>5 DEF Aligned
<1>11. Tiled(k)
  <2>1. /\ Start \in B \cup {a}
        /\ \A b \in B : Start <= b /\ End(h, b) \in B \cup {a} /\ End(h, b) <= a
        /\ \A b, c \in B : b < c => End(h, b) <= c
        /\ \A b \in B \cup {a} : b = Start \/ \E c \in B : End(h, c) = b
    BY <1>1 DEF Tiled, B, a
  <2>2. k.brk \in Nat /\ a <= k.brk /\ a < k.brk
    BY <1>2, <1>4, <1>7, Layout
  <2>3. \A b \in B : End(k, b) = End(h, b) /\ b < a
    <3> SUFFICES ASSUME NEW b \in B PROVE End(k, b) = End(h, b) /\ b < a
      OBVIOUS
    <3>1. b < End(h, b)
      BY <1>1 DEF Geometry, B
    <3> QED BY <1>2, <1>3, <1>9, <2>1, <3>1
  <2>4. \A b \in B \cup {a} : Start <= b /\ End(k, b) \in (B \cup {a}) \cup {k.brk}
                              /\ End(k, b) <= k.brk
    <3> SUFFICES ASSUME NEW b \in B \cup {a}
                 PROVE  Start <= b /\ End(k, b) \in (B \cup {a}) \cup {k.brk}
                        /\ End(k, b) <= k.brk
      OBVIOUS
    <3>1. CASE b = a
      BY <1>2, <1>9, <2>2, <3>1
    <3>2. CASE b \in B
      <4>1. End(h, b) <= k.brk
        BY <1>2, <1>3, <2>1, <2>2, <3>2
      <4> QED BY <2>1, <2>3, <3>2, <4>1
    <3> QED BY <3>1, <3>2
  <2>5. \A b, c \in B \cup {a} : b < c => End(k, b) <= c
    <3> SUFFICES ASSUME NEW b \in B \cup {a}, NEW c \in B \cup {a}, b < c
                 PROVE  End(k, b) <= c
      OBVIOUS
    <3>1. CASE b = a
      <4>1. c \in B
        BY <1>2, <3>1
      <4>2. c < a
        BY <2>3, <4>1
      <4> QED BY <1>2, <1>3, <3>1, <4>1, <4>2
    <3>2. CASE b \in B
      BY <2>1, <2>3, <3>2
    <3> QED BY <3>1, <3>2
  <2>6. \A b \in (B \cup {a}) \cup {k.brk} : b = Start \/ \E c \in B \cup {a} : End(k, c) = b
    BY <1>9, <2>1, <2>3
  <2> QED BY <1>8, <2>1, <2>4, <2>5, <2>6 DEF Tiled
<1>12. Counted(k)
  <2>1. Cardinality(B \cup {a}) = Cardinality(B) + 1
    BY <1>1, <1>2, FS_AddElement
  <2> QED BY <1>2, <1>4, <1>5, <1>7, <1>8, <2>1, Layout DEF Counted
<1>13. Ring(k, G)
  <2>1. \A c \in G \cup {FreeList} : Nxt(k, c) = Nxt(h, c) /\ Prv(k, c) = Prv(h, c)
    BY <1>1, <1>3, <1>7 DEF Same
  <2> QED BY <1>1, <2>1, RingSame
<1>14. \A c \in L \cup {a} : Nxt(k, c) = c /\ Prv(k, c) = c
  BY <1>1, <1>3, <1>7 DEF Same
<1>15. Apart(k, G, P)
  BY <1>1, <1>3, <1>9 DEF Apart
<1>16. HeapOK(k, L \cup {a}, P)
  BY <1>1, <1>7, <1>8, <1>10, <1>11, <1>12, <1>13, <1>14, <1>15 DEF HeapOK
<1> QED BY <1>2, <1>4, <1>7, <1>16 DEF k, a, B

\* Without the last block the heap ends where that block began.
LEMMA ReleaseKeeps ==
  ASSUME NEW h, NEW L, NEW P, HeapOK(h, L, P), NEW b \in L, End(h, b) = h.brk
  PROVE  /\ HeapOK(Release(h, b), L \ {b}, P)
         /\ \A c \in L \ {b} : Same(h, Release(h, b), c)
         /\ Release(h, b).brk < h.brk
<1> DEFINE B == BlocksOf(h)
           G == B \ L
           k == Release(h, b)
<1>1. /\ Shape(h) /\ Aligned(h) /\ Tiled(h) /\ Counted(h) /\ Geometry(h)
      /\ L \subseteq B /\ IsFiniteSet(B) /\ FreeList \in Dom(h)
      /\ Ring(h, G) /\ Apart(h, G, P)
      /\ \A c \in L : Nxt(h, c) = c /\ Prv(h, c) = c
  BY HeapParts
<1>2. b \in B /\ b \in Dom(h) /\ b # FreeList /\ b >= Start /\ b \in Nat /\ b < h.brk
      /\ h.brk \in Nat /\ Cap(h, b) \in Nat /\ h.brk = b + Header + Cap(h, b)
  BY <1>1, Layout DEF Geometry
<1>3. \A c \in B : c \in Dom(h) /\ c \in Nat /\ End(h, c) \in Nat /\ c < End(h, c)
  BY <1>1 DEF Geometry
<1>4. h.blocks = Cardinality(B) /\ h.size = h.brk - Start /\ Cardinality(B) \in Nat
  BY <1>1, FS_CardinalityType DEF Counted
<1>5. AfterRelease(h, b, k)
  BY <1>1, <1>2, ReleaseView
<1> HIDE DEF k
<1>6. /\ Shape(k) /\ Dom(k) = Dom(h) \ {b} /\ k.brk = b /\ k.blocks = h.blocks - 1
      /\ k.size = h.size - (Header + Cap(h, b))
      /\ \A c \in Dom(k) : Same(h, k, c)
  BY <1>5 DEF AfterRelease
<1>7. BlocksOf(k) = B \ {b} /\ BlocksOf(k) \ (L \ {b}) = G
  BY <1>6 DEF BlocksOf
<1>8. \A c \in Dom(k) : End(k, c) = End(h, c)
  BY <1>6 DEF End, Same, Cap
<1>9. \A c \in B \ {b} : c \in Dom(k)
  BY <1>3, <1>6
<1>10. FreeList \in Dom(k)
  BY <1>1, <1>2, <1>6
<1> HIDE DEF B
<1>11. Aligned(k)
  <2>1. b % Unit = 0
    BY <1>1, <1>2 DEF Aligned, B
  <2>2. Cap(k, FreeList) = 0
    BY <1>1, <1>6, <1>10 DEF Same, Aligned
  <2>3. \A c \in B \ {b} : c % Unit = 0 /\ Cap(k, c) % Unit = 0
    BY <1>1, <1>6, <1>9 DEF Same, Aligned, B
  <2> QED BY <1>6, <1>7, <2>1, <2>2, <2>3 DEF Aligned
<1>12. Tiled(k)
  <2>1. /\ Start \in B \cup {h.brk}
        /\ \A c \in B : /\ Start <= c /\ End(h, c) \in B \cup {h.brk} /\ End(h, c) <= h.brk
        /\ \A c, d \in B : c < d => End(h, c) <= d
        /\ \A c \in B \cup {h.brk} : c = Start \/ \E d \in B : End(h, d) = c
    BY <1>1 DEF Tiled, B
  <2>2. Start \in (B \ {b}) \cup {b}
    BY <1>2, <2>1, Layout
  <2>3. ASSUME NEW c \in B \ {b}
        PROVE  Start <= c /\ End(k, c) \in (B \ {b}) \cup {b} /\ End(k, c) <= b
    <3>1. c \in B /\ c # b /\ c \in Nat /\ End(k, c) = End(h, c) /\ End(h, c) \in Nat
          /\ c < End(h, c)
      BY <1>3, <1>8, <1>9
    <3>2. End(h, c) # h.brk
      BY <1>1, <1>2, <3>1 DEF Geometry, B
    <3>3. End(h, c) \in B
      BY <2>1, <3>1, <3>2
    <3>4. c < b
      <4> SUFFICES ASSUME b < c PROVE FALSE
        BY <1>2, <3>1
      <4>1. h.brk <= c
        BY <1>2, <2>1, <3>1
      <4>2. End(h, c) <= h.brk
        BY <2>1, <3>1
      <4> QED BY <1>2, <3>1, <4>1, <4>2
    <3>5. End(h, c) <= b
      BY <1>2, <2>1, <3>1, <3>4
    <3> QED BY <2>1, <3>1, <3>3, <3>5
  <2>4. \A c, d \in B \ {b} : c < d => End(k, c) <= d
    BY <1>8, <1>9, <2>1
  <2>5. \A c \in (B \ {b}) \cup {b} : c = Start \/ \E d \in B \ {b} : End(k, d) = c
    <3> SUFFICES ASSUME NEW c \in B, c # Start PROVE \E d \in B \ {b} : End(k, d) = c
      BY <1>2
    <3>1. PICK d \in B : End(h, d) = c
      BY <2>1
    <3>2. d # b
      <4>1. h.brk \notin Dom(h) /\ c \in Dom(h)
        BY <1>1, <1>3 DEF Geometry
      <4> QED BY <3>1, <4>1
    <3> QED BY <1>8, <1>9, <3>1, <3>2
  <2> QED BY <1>6, <1>7, <2>2, <2>3, <2>4, <2>5 DEF Tiled
<1>13. Counted(k)
  <2>1. Cardinality(B \ {b}) = Cardinality(B) - 1
    BY <1>1, <1>2, FS_RemoveElement
  <2> QED BY <1>2, <1>4, <1>6, <1>7, <2>1, Layout DEF Counted
<1>14. \A c \in G \cup L : c # b => c \in Dom(k)
  BY <1>1, <1>9
<1>15. Ring(k, G)
  <2>1. \A c \in G \cup {FreeList} : c \in Dom(k)
    BY <1>10, <1>14
  <2>2. \A c \in G \cup {FreeList} : Nxt(k, c) = Nxt(h, c) /\ Prv(k, c) = Prv(h, c)
    BY <1>6, <2>1 DEF Same
  <2> QED BY <1>1, <2>2, RingSame
<1>16. \A c \in L \ {b} : Same(h, k, c)
  BY <1>6, <1>14
<1>17. \A c \in L \ {b} : Nxt(k, c) = c /\ Prv(k, c) = c
  BY <1>1, <1>16 DEF Same
<1>18. Apart(k, G, P)
  BY <1>1, <1>8, <1>14 DEF Apart
<1>19. L \ {b} \subseteq B \ {b}
  BY <1>1
<1>20. HeapOK(k, L \ {b}, P)
  BY <1>6, <1>7, <1>11, <1>12, <1>13, <1>15, <1>17, <1>18, <1>19 DEF HeapOK
<1> QED BY <1>2, <1>6, <1>16, <1>20 DEF k

\* Merging a block with its next one removes the adjacency at dst, and makes none.
LEMMA MergeKeeps ==
  ASSUME NEW h, NEW L, NEW P, HeapOK(h, L, P),
         NEW dst \in (BlocksOf(h) \ L) \cup {FreeList},
         NEW src \in (BlocksOf(h) \ L) \cup {FreeList},
         Nxt(h, dst) = src, src \in P => src = FreeList
  PROVE  /\ HeapOK(Merge(h, dst, src), L, P \ {dst})
         /\ \A c \in L : Same(h, Merge(h, dst, src), c)
         /\ Merge(h, dst, src).brk = h.brk
         /\ Prv(Merge(h, dst, src), dst) = Prv(h, dst)
         /\ dst \in (BlocksOf(Merge(h, dst, src)) \ L) \cup {FreeList}
<1> DEFINE B == BlocksOf(h)
           G == B \ L
           k == Merge(h, dst, src)
<1>1. /\ Shape(h) /\ Aligned(h) /\ Tiled(h) /\ Counted(h) /\ Geometry(h)
      /\ L \subseteq B /\ IsFiniteSet(B) /\ FreeList \in Dom(h)
      /\ G \in SUBSET Nat /\ FreeList \notin G
      /\ Ring(h, G) /\ Apart(h, G, P)
      /\ \A c \in L : Nxt(h, c) = c /\ Prv(h, c) = c
  BY HeapParts
<1>2. \A c \in B : c \in Dom(h) /\ c \in Nat /\ End(h, c) \in Nat /\ c < End(h, c)
  BY <1>1 DEF Geometry
<1>3. CASE End(h, dst) # src
  <2>1. k = h
    BY <1>3, MergeIs
  <2>2. Apart(h, G, P \ {dst})
    <3> SUFFICES ASSUME NEW c \in G, NEW d \in G, End(h, c) = d PROVE c \in P \ {dst}
      BY DEF Apart
    <3>1. c \in P
      BY <1>1 DEF Apart
    <3>2. Nxt(h, c) = d
      <4>1. G \in SUBSET B
        OBVIOUS
      <4> HIDE DEF G, B
      <4> QED BY <1>1, <4>1, AdjacentIsNext DEF B
    <3>3. c # dst
      BY <1>3, <3>2
    <3> QED BY <3>1, <3>3
  <2>3. HeapOK(h, L, P \ {dst})
    BY <1>1, <2>2 DEF HeapOK
  <2> QED BY <2>1, <2>3 DEF Same
<1>4. CASE End(h, dst) = src
  <2>1. src # FreeList /\ dst # FreeList
    <3>1. src # FreeList
      <4>1. End(h, dst) \in Nat /\ End(h, dst) > 0
        <5>1. dst \in Dom(h)
          BY <1>1, <1>2
        <5> QED BY <1>1, <5>1, Layout DEF Geometry
      <4> QED BY <1>4, <4>1, Layout
    <3>2. src \in B
      BY <3>1
    <3>3. dst # FreeList
      BY <1>1, <1>4, <3>2 DEF Geometry
    <3> QED BY <3>1, <3>3
  <2>2. /\ src \in G /\ dst \in G /\ src \in B /\ dst \in B /\ src \in Dom(h) /\ dst \in Dom(h)
        /\ src \in Nat /\ dst \in Nat /\ dst < src /\ dst # src /\ src \notin P
        /\ src \notin L /\ dst \notin L
    BY <1>2, <1>4, <2>1
  <2>3. /\ Prv(h, src) = dst /\ Nxt(h, src) \in G \cup {FreeList}
        /\ Nxt(h, src) # dst /\ Nxt(h, src) # src /\ Nxt(h, src) \in Dom(h)
        /\ Prv(h, dst) \in G \cup {FreeList}
    <3>1. Prv(h, src) = dst /\ Nxt(h, src) \in G \cup {FreeList}
          /\ Prv(h, dst) \in G \cup {FreeList}
      BY <1>1, <2>2 DEF Ring
    <3>2. Nxt(h, src) # FreeList => src < Nxt(h, src)
      BY <1>1, <2>2 DEF Ring
    <3>3. Nxt(h, src) \in Dom(h) /\ Nxt(h, src) \in Nat
      BY <1>1, <1>2, <3>1, Layout
    <3> QED BY <2>1, <2>2, <3>1, <3>2, <3>3
  <2>4. AfterMerge(h, dst, src, k)
    BY <1>1, <1>4, <2>1, <2>2, <2>3, MergeView
  <2> HIDE DEF k
  <2>5. /\ Shape(k) /\ Dom(k) = Dom(h) \ {src}
        /\ k.brk = h.brk /\ k.blocks = h.blocks - 1 /\ k.size = h.size
        /\ \A c \in Dom(k) :
             /\ Cap(k, c) = IF c = dst THEN Cap(h, c) + Header + Cap(h, src) ELSE Cap(h, c)
             /\ Siz(k, c) = Siz(h, c)
             /\ Nxt(k, c) = IF c = dst THEN Nxt(h, src) ELSE Nxt(h, c)
             /\ Prv(k, c) = IF c = Nxt(h, src) THEN dst ELSE Prv(h, c)
    BY <2>4 DEF AfterMerge
  <2>6. BlocksOf(k) = B \ {src} /\ BlocksOf(k) \ L = G \ {src} /\ L \subseteq BlocksOf(k)
    BY <1>1, <2>2, <2>5 DEF BlocksOf
  <2>7. /\ \A c \in B \ {src} : c \in Dom(k)
        /\ FreeList \in Dom(k) /\ dst \in Dom(k)
    BY <1>1, <1>2, <2>1, <2>2, <2>5
  <2>8. /\ Cap(h, dst) \in Nat /\ Cap(h, src) \in Nat
        /\ End(h, dst) = dst + Header + Cap(h, dst) /\ End(h, src) = src + Header + Cap(h, src)
    BY <1>1, <2>2 DEF Geometry
  <2>9. End(k, dst) = End(h, src) /\ \A c \in Dom(k) : c # dst => End(k, c) = End(h, c)
    <3>1. \A c \in Dom(k) : End(k, c) = c + Header + Cap(k, c)
                            /\ (c # dst => End(h, c) = c + Header + Cap(h, c))
      BY DEF End, Cap
    <3>2. End(k, dst) = dst + Header + (Cap(h, dst) + Header + Cap(h, src))
      BY <2>5, <2>7, <3>1
    <3>3. End(k, dst) = End(h, src)
      <4> DEFINE x == Cap(h, dst)
                 y == Cap(h, src)
      <4>1. src = dst + Header + x /\ End(h, src) = src + Header + y
        BY <1>4, <2>8
      <4>2. End(k, dst) = dst + Header + (x + Header + y)
        BY <3>2
      <4>3. x \in Nat /\ y \in Nat /\ Header \in Nat
        BY <2>8, Layout
      <4> HIDE DEF x, y
      <4>4. dst + Header + (x + Header + y) = (dst + Header + x) + Header + y
        BY <2>2, <4>3
      <4> QED BY <4>1, <4>2, <4>4
    <3>4. \A c \in Dom(k) : c # dst => Cap(k, c) = Cap(h, c)
      BY <2>5
    <3> QED BY <3>1, <3>3, <3>4
  <2> HIDE DEF B
  <2>10. Aligned(k)
    <3>1. Cap(h, dst) % Unit = 0 /\ Cap(h, src) % Unit = 0 /\ Header % Unit = 0
      BY <1>1, <2>2, Layout DEF Aligned, B
    <3>2. (Cap(h, dst) + Header) % Unit = 0
      BY <2>8, <3>1, Layout, AlignedSum
    <3>3. ((Cap(h, dst) + Header) + Cap(h, src)) % Unit = 0
      <4>1. Cap(h, dst) + Header \in Nat
        BY <2>8, Layout
      <4> QED BY <2>8, <3>1, <3>2, <4>1, Layout, AlignedSum
    <3>4. Cap(k, dst) % Unit = 0
      BY <2>5, <2>7, <3>3
    <3>5. \A c \in B \ {src} : c % Unit = 0 /\ Cap(k, c) % Unit = 0
      <4> SUFFICES ASSUME NEW c \in B \ {src} PROVE c % Unit = 0 /\ Cap(k, c) % Unit = 0
        OBVIOUS
      <4>1. c % Unit = 0 /\ Cap(h, c) % Unit = 0
        BY <1>1 DEF Aligned, B
      <4>2. c # dst => Cap(k, c) = Cap(h, c)
        BY <2>5, <2>7
      <4> QED BY <3>4, <4>1, <4>2
    <3>6. Cap(k, FreeList) = 0
      BY <1>1, <2>1, <2>5, <2>7 DEF Aligned
    <3>7. k.brk % Unit = 0
      BY <1>1, <2>5 DEF Aligned
    <3> QED BY <2>6, <3>5, <3>6, <3>7 DEF Aligned
  <2>11. Tiled(k)
    <3>1. /\ Start \in B \cup {h.brk}
          /\ \A c \in B : /\ Start <= c /\ End(h, c) \in B \cup {h.brk} /\ End(h, c) <= h.brk
          /\ \A c, d \in B : c < d => End(h, c) <= d
          /\ \A c \in B \cup {h.brk} : c = Start \/ \E d \in B : End(h, d) = c
      BY <1>1 DEF Tiled, B
    <3>2. src # h.brk /\ src # Start
      <4>1. src # h.brk
        BY <1>1, <2>2 DEF Geometry
      <4>2. Start <= dst
        BY <2>2, <3>1
      <4> QED BY <2>2, <4>1, <4>2, Layout
    <3>3. ASSUME NEW c \in B \ {src}
          PROVE  /\ Start <= c /\ End(k, c) \in (B \ {src}) \cup {h.brk} /\ End(k, c) <= h.brk
                 /\ End(k, c) = IF c = dst THEN End(h, src) ELSE End(h, c)
      <4>1. Start <= c /\ (c # dst => End(h, c) # src)
        BY <1>1, <1>4, <2>2, <3>1 DEF Geometry, B
      <4>2. End(h, src) # src
        BY <1>2, <2>2 DEF B
      <4>3. End(k, c) = IF c = dst THEN End(h, src) ELSE End(h, c)
        BY <2>7, <2>9
      <4> QED BY <2>2, <3>1, <4>1, <4>2, <4>3
    <3>4. ASSUME NEW c \in B \ {src}, NEW d \in B \ {src}, c < d
          PROVE  End(k, c) <= d
      <4>1. CASE c # dst
        BY <3>1, <3>3, <3>4, <4>1
      <4>2. CASE c = dst
        <5>1. d \in Nat /\ d # src
          BY <1>2 DEF B
        <5>2. src <= d
          BY <1>4, <2>2, <3>1, <3>4, <4>2
        <5>3. src < d
          BY <2>2, <5>1, <5>2
        <5>4. End(h, src) <= d
          BY <2>2, <3>1, <5>3
        <5> QED BY <3>3, <4>2, <5>4
      <4> QED BY <4>1, <4>2
    <3>5. ASSUME NEW c \in (B \ {src}) \cup {h.brk}, c # Start
          PROVE  \E d \in B \ {src} : End(k, d) = c
      <4>1. PICK d \in B : End(h, d) = c
        BY <3>1, <3>5
      <4>2. c # src
        BY <3>2
      <4>3. d # dst
        BY <1>4, <4>1, <4>2
      <4>4. CASE d = src
        <5>1. dst \in B \ {src} /\ End(k, dst) = c
          BY <2>2, <2>9, <4>1, <4>4
        <5> QED BY <5>1
      <4>5. CASE d # src
        <5>1. d \in B \ {src} /\ End(k, d) = c
          BY <2>7, <2>9, <4>1, <4>3, <4>5
        <5> QED BY <5>1
      <4> QED BY <4>4, <4>5
    <3>6. Start \in (B \ {src}) \cup {h.brk}
      BY <3>1, <3>2
    <3> QED BY <2>5, <2>6, <3>3, <3>4, <3>5, <3>6 DEF Tiled
  <2>12. Counted(k)
    <3>1. Cardinality(B \ {src}) = Cardinality(B) - 1
      <4>1. IsFiniteSet(B) /\ src \in B
        BY <1>1, <2>2 DEF B
      <4>2. Cardinality(B \ {src}) = IF src \in B THEN Cardinality(B) - 1 ELSE Cardinality(B)
        BY <4>1, FS_RemoveElement
      <4> QED BY <4>1, <4>2
    <3>2. h.blocks = Cardinality(B) /\ h.size = h.brk - Start
      BY <1>1 DEF Counted, B
    <3> QED BY <2>5, <2>6, <3>1, <3>2 DEF Counted
  <2>13. \A c \in (G \ {src}) \cup {FreeList} : c \in Dom(k)
    BY <2>7
  <2> HIDE DEF G
  <2>14. Ring(k, G \ {src})
    <3>1. \A c \in (G \ {src}) \cup {FreeList} :
             /\ Nxt(k, c) = IF c = Prv(h, src) THEN Nxt(h, src) ELSE Nxt(h, c)
             /\ Prv(k, c) = IF c = Nxt(h, src) THEN Prv(h, src) ELSE Prv(h, c)
      BY <2>3, <2>5, <2>13
    <3> QED BY <1>1, <2>2, <3>1, RingWithout
  <2>15. \A c \in L : Same(h, k, c)
    <3> SUFFICES ASSUME NEW c \in L PROVE Same(h, k, c)
      OBVIOUS
    <3>1. c \in Dom(k) /\ c # dst /\ c # Nxt(h, src)
      BY <1>1, <2>2, <2>3, <2>7 DEF G, B, BlocksOf
    <3> QED BY <2>5, <3>1 DEF Same
  <2>16. \A c \in L : Nxt(k, c) = c /\ Prv(k, c) = c
    BY <1>1, <2>15 DEF Same
  <2>17. Apart(k, G \ {src}, P \ {dst})
    <3> SUFFICES ASSUME NEW c \in G \ {src}, NEW d \in G \ {src}, End(k, c) = d
                 PROVE  c \in P \ {dst}
      BY DEF Apart
    <3>1. c # dst
      <4> SUFFICES ASSUME c = dst PROVE FALSE
        OBVIOUS
      <4>1. End(h, src) = d
        BY <2>9
      <4>2. src \in P
        BY <1>1, <2>2, <4>1 DEF Apart
      <4> QED BY <2>2, <4>2
    <3>2. End(h, c) = d
      BY <2>9, <2>13, <3>1
    <3>3. c \in P
      BY <1>1, <3>2 DEF Apart
    <3> QED BY <3>1, <3>3
  <2>18. Prv(k, dst) = Prv(h, dst)
    BY <2>3, <2>5, <2>7
  <2>19. HeapOK(k, L, P \ {dst})
    BY <2>5, <2>6, <2>10, <2>11, <2>12, <2>14, <2>16, <2>17 DEF HeapOK, G, B
  <2> QED BY <2>2, <2>5, <2>6, <2>15, <2>18, <2>19 DEF k
<1> QED BY <1>3, <1>4

\* Only what P says of free blocks matters.
LEMMA ApartFrom ==
  ASSUME NEW h, NEW L, NEW P, HeapOK(h, L, P), NEW Q, P \cap (BlocksOf(h) \ L) \subseteq Q
  PROVE  HeapOK(h, L, Q)
<1>1. Apart(h, BlocksOf(h) \ L, P)
  BY HeapParts
<1>2. Apart(h, BlocksOf(h) \ L, Q)
  BY <1>1 DEF Apart
<1> QED BY <1>2 DEF HeapOK

\* Another size in one header leaves everything else.
LEMMA SizeKeeps ==
  ASSUME NEW h, NEW L, NEW P, HeapOK(h, L, P), NEW b \in BlocksOf(h), NEW n, NEW k,
         AfterSize(h, b, n, k)
  PROVE  /\ HeapOK(k, L, P) /\ BlocksOf(k) = BlocksOf(h)
         /\ \A c \in L : c # b => Same(h, k, c)
<1> DEFINE B == BlocksOf(h)
           G == B \ L
<1>1. /\ Shape(h) /\ Aligned(h) /\ Tiled(h) /\ Counted(h) /\ Geometry(h)
      /\ L \subseteq B /\ FreeList \in Dom(h)
      /\ Ring(h, G) /\ Apart(h, G, P)
      /\ \A c \in L : Nxt(h, c) = c /\ Prv(h, c) = c
  BY HeapParts
<1>2. \A c \in B : c \in Dom(h)
  BY DEF BlocksOf
<1>3. /\ Shape(k) /\ SamePlaces(h, k)
      /\ \A c \in Dom(h) : /\ Cap(k, c) = Cap(h, c) /\ Siz(k, c) = IF c = b THEN n ELSE Siz(h, c)
                           /\ Nxt(k, c) = Nxt(h, c) /\ Prv(k, c) = Prv(h, c)
  BY DEF AfterSize, SamePlaces
<1>4. /\ Aligned(k) /\ Tiled(k) /\ Counted(k) /\ BlocksOf(k) = B
      /\ \A c \in Dom(h) : End(k, c) = End(h, c)
  BY <1>1, <1>3, PlacesKept
<1>5. Ring(k, G)
  <2>1. \A c \in G \cup {FreeList} : Nxt(k, c) = Nxt(h, c) /\ Prv(k, c) = Prv(h, c)
    BY <1>1, <1>2, <1>3
  <2> QED BY <1>1, <2>1, RingSame
<1>6. \A c \in L : c # b => Same(h, k, c)
  BY <1>1, <1>2, <1>3 DEF Same
<1>7. \A c \in L : Nxt(k, c) = c /\ Prv(k, c) = c
  BY <1>1, <1>2, <1>3
<1>8. Apart(k, G, P)
  BY <1>1, <1>2, <1>4 DEF Apart
<1> QED BY <1>1, <1>3, <1>4, <1>5, <1>6, <1>7, <1>8 DEF HeapOK

\* A block of which nobody holds the rest is cut in two, if the rest is large enough.
\* Either way b is free and large enough, and of the free blocks only b may have a
\* neighbour.
LEMMA SplitKeeps ==
  ASSUME Ordinary, NEW n \in Sizes, NEW h, NEW L, HeapOK(h, L, {}),
         NEW b \in BlocksOf(h) \ L, Cap(h, b) >= n
  PROVE  /\ HeapOK(Split(h, b, n), L, {b})
         /\ b \in BlocksOf(Split(h, b, n)) \ L
         /\ \A c \in L : Same(h, Split(h, b, n), c)
         /\ Split(h, b, n).brk = h.brk
         /\ Siz(Split(h, b, n), b) = n /\ n <= Cap(Split(h, b, n), b)
<1> DEFINE B == BlocksOf(h)
           G == B \ L
           k == Split(h, b, n)
<1>1. /\ Shape(h) /\ Aligned(h) /\ Tiled(h) /\ Counted(h) /\ Geometry(h)
      /\ L \subseteq B /\ IsFiniteSet(B) /\ FreeList \in Dom(h)
      /\ G \in SUBSET Nat /\ FreeList \notin G
      /\ Ring(h, G) /\ Apart(h, G, {})
      /\ \A c \in L : Nxt(h, c) = c /\ Prv(h, c) = c
  BY HeapParts
<1>2. \A c \in B : c \in Dom(h) /\ c \in Nat /\ End(h, c) \in Nat /\ c < End(h, c)
  BY <1>1 DEF Geometry
<1>3. /\ Align(n) \in Nat /\ n <= Align(n) /\ Align(n) % Unit = 0 /\ n \in 0 .. Wrap - 1
      /\ n \in Nat
  BY AlignRoundsUp, Layout
<1>4. /\ b \in G /\ b \in B /\ b \in Dom(h) /\ b \in Nat /\ Cap(h, b) \in Nat /\ b \notin L
      /\ End(h, b) = b + Header + Cap(h, b) /\ End(h, b) <= h.brk /\ b # FreeList
      /\ Start <= b
  BY <1>1, <1>2 DEF Geometry
<1>5. Nxt(h, b) \in G \cup {FreeList} /\ Nxt(h, b) \in Dom(h) /\ Prv(h, Nxt(h, b)) = b
  <2>1. Nxt(h, b) \in G \cup {FreeList} /\ Prv(h, Nxt(h, b)) = b
    BY <1>1, <1>4 DEF Ring
  <2> QED BY <1>1, <1>2, <2>1
<1>6. CASE Cap(h, b) <= Align(n) + Header
  <2>1. k = [h EXCEPT !.mem[b].size = n]
    BY <1>6 DEF Split, Cap
  <2>2. AfterSize(h, b, n, k)
    BY <1>1, <1>3, <1>4, <2>1, SetSize
  <2> HIDE DEF k
  <2>3. HeapOK(k, L, {}) /\ BlocksOf(k) = B /\ \A c \in L : c # b => Same(h, k, c)
    BY <1>4, <2>2, SizeKeeps
  <2>4. HeapOK(k, L, {b})
    <3>1. {} \cap (BlocksOf(k) \ L) \subseteq {b}
      OBVIOUS
    <3> QED BY <2>3, <3>1, ApartFrom
  <2>5. \A c \in L : Same(h, k, c)
    BY <1>4, <2>3
  <2>6. k.brk = h.brk /\ Siz(k, b) = n /\ n <= Cap(k, b)
    BY <1>3, <1>4, <2>2 DEF AfterSize
  <2> QED BY <1>4, <2>3, <2>4, <2>5, <2>6 DEF k
<1>7. CASE Cap(h, b) > Align(n) + Header
  <2> DEFINE r == b + Header + Align(n)
             w == Cap(h, b) - Align(n) - Header
  <2>1. r \in Nat /\ b < r /\ r < End(h, b) /\ w \in Nat /\ r > Start
    BY <1>3, <1>4, <1>7, Layout
  <2>2. r + Header + w = End(h, b)
    BY <1>3, <1>4, <1>7, Layout
  <2>3. r \notin Dom(h) /\ r \notin B /\ r # FreeList /\ r # h.brk
    <3> HIDE DEF r
    <3>1. r \notin B
      <4> SUFFICES ASSUME r \in B PROVE FALSE
        OBVIOUS
      <4>1. End(h, b) <= r
        BY <1>1, <1>4, <2>1 DEF Geometry
      <4> QED BY <1>2, <1>4, <2>1, <4>1
    <3>2. r # FreeList
      BY <2>1, Layout
    <3>3. r # h.brk
      BY <1>1, <1>2, <1>4, <2>1 DEF Geometry
    <3> QED BY <3>1, <3>2, <3>3 DEF BlocksOf
  <2>4. AfterSplit(h, b, n, r, k)
    BY <1>1, <1>4, <1>5, <1>7, <2>3, SplitView
  <2> HIDE DEF k
  <2>5. /\ Shape(k) /\ Dom(k) = Dom(h) \cup {r}
        /\ k.brk = h.brk /\ k.blocks = h.blocks + 1 /\ k.size = h.size
        /\ Cap(k, r) = w /\ Siz(k, r) = 0
        /\ Nxt(k, r) = Nxt(h, b) /\ Prv(k, r) = b
        /\ \A c \in Dom(h) :
             /\ Cap(k, c) = IF c = b THEN Align(n) ELSE Cap(h, c)
             /\ Siz(k, c) = IF c = b THEN n ELSE Siz(h, c)
             /\ Nxt(k, c) = IF c = b THEN r ELSE Nxt(h, c)
             /\ Prv(k, c) = IF c = Nxt(h, b) THEN r ELSE Prv(h, c)
    BY <2>4 DEF AfterSplit
  <2>6. End(k, b) = r /\ End(k, r) = End(h, b)
        /\ \A c \in Dom(h) : c # b => End(k, c) = End(h, c)
    <3>1. \A c : End(k, c) = c + Header + Cap(k, c) /\ End(h, c) = c + Header + Cap(h, c)
      BY DEF End, Cap
    <3>2. End(k, r) = r + Header + w
      BY <2>5, <3>1
    <3>3. End(k, b) = r
      BY <1>4, <2>5, <3>1
    <3>4. \A c \in Dom(h) : c # b => Cap(k, c) = Cap(h, c)
      BY <2>5
    <3> HIDE DEF r, w
    <3> QED BY <2>2, <3>1, <3>2, <3>3, <3>4
  <2>7. w % Unit = 0 /\ r % Unit = 0
    <3>1. /\ Cap(h, b) % Unit = 0 /\ Header % Unit = 0 /\ Align(n) % Unit = 0 /\ b % Unit = 0
      BY <1>1, <1>3, <1>4, Layout DEF Aligned
    <3> HIDE DEF r, w, k, G, B
    <3>2. b + Header \in Nat /\ Align(n) <= Cap(h, b) /\ Cap(h, b) - Align(n) \in Nat
          /\ Header <= Cap(h, b) - Align(n)
      BY <1>3, <1>4, <1>7, Layout
    <3>3. (b + Header) % Unit = 0
      BY <1>4, <3>1, Layout, AlignedSum
    <3>4. ((b + Header) + Align(n)) % Unit = 0
      BY <1>3, <3>1, <3>2, <3>3, Layout, AlignedSum
    <3>5. (Cap(h, b) - Align(n)) % Unit = 0
      BY <1>3, <1>4, <3>1, <3>2, Layout, AlignedDifference
    <3>6. ((Cap(h, b) - Align(n)) - Header) % Unit = 0
      BY <3>1, <3>2, <3>5, Layout, AlignedDifference
    <3> QED BY <3>4, <3>6 DEF r, w
  <2> HIDE DEF r, w
  <2>8. BlocksOf(k) = B \cup {r} /\ BlocksOf(k) \ L = G \cup {r} /\ L \subseteq BlocksOf(k)
        /\ r \notin L /\ r \notin G
    BY <1>1, <2>3, <2>5 DEF BlocksOf
  <2> HIDE DEF B
  <2>9. Aligned(k)
    <3>1. Cap(k, FreeList) = 0
      BY <1>1, <1>4, <2>5 DEF Aligned
    <3>2. \A c \in B : c % Unit = 0 /\ Cap(k, c) % Unit = 0
      BY <1>1, <1>2, <1>3, <2>5 DEF Aligned, B
    <3>3. k.brk % Unit = 0
      BY <1>1, <2>5 DEF Aligned
    <3> QED BY <2>5, <2>7, <2>8, <3>1, <3>2, <3>3 DEF Aligned
  <2>10. Tiled(k)
    <3>1. /\ Start \in B \cup {h.brk}
          /\ \A c \in B : /\ Start <= c /\ End(h, c) \in B \cup {h.brk} /\ End(h, c) <= h.brk
          /\ \A c, d \in B : c < d => End(h, c) <= d
          /\ \A c \in B \cup {h.brk} : c = Start \/ \E d \in B : End(h, d) = c
      BY <1>1 DEF Tiled, B
    <3>2. h.brk \in Nat
      BY <1>1 DEF Geometry
    <3>3. ASSUME NEW c \in B \cup {r}
          PROVE  Start <= c /\ End(k, c) \in (B \cup {r}) \cup {h.brk} /\ End(k, c) <= h.brk
      <4>1. CASE c = r
        BY <1>4, <2>1, <2>6, <3>1, <4>1, Layout
      <4>2. CASE c = b
        BY <1>2, <1>4, <2>1, <2>6, <3>1, <3>2, <4>2
      <4>3. CASE c # r /\ c # b
        BY <1>2, <2>6, <3>1, <4>3
      <4> QED BY <4>1, <4>2, <4>3
    <3>4. ASSUME NEW c \in B \cup {r}, NEW d \in B \cup {r}, c < d
          PROVE  End(k, c) <= d
      <4>1. CASE c = r
        <5>1. d \in B /\ d \in Nat
          BY <1>2, <2>1, <3>4, <4>1
        <5>2. b < d
          BY <1>4, <2>1, <3>4, <4>1, <5>1
        <5> QED BY <1>4, <2>6, <3>1, <4>1, <5>1, <5>2
      <4>2. CASE c = b
        <5>1. CASE d = r
          BY <2>1, <2>6, <4>2, <5>1
        <5>2. CASE d # r
          <6>1. d \in B /\ d \in Nat /\ End(h, b) <= d
            BY <1>2, <1>4, <3>1, <3>4, <4>2, <5>2
          <6> QED BY <1>2, <1>4, <2>1, <2>6, <4>2, <6>1
        <5> QED BY <5>1, <5>2
      <4>3. CASE c # r /\ c # b
        <5>1. c \in B /\ c \in Nat /\ End(k, c) = End(h, c) /\ End(h, c) \in Nat
          BY <1>2, <2>6, <4>3
        <5>2. CASE d # r
          BY <3>1, <3>4, <5>1, <5>2
        <5>3. CASE d = r
          <6>1. c < b
            <7> SUFFICES ASSUME b < c PROVE FALSE
              BY <1>4, <4>3, <5>1
            <7>1. End(h, b) <= c
              BY <1>4, <3>1, <5>1
            <7> QED BY <1>2, <1>4, <2>1, <3>4, <5>1, <5>3, <7>1
          <6>2. End(h, c) <= b
            BY <1>4, <3>1, <5>1, <6>1
          <6> QED BY <1>4, <2>1, <5>1, <5>3, <6>2
        <5> QED BY <5>2, <5>3
      <4> QED BY <4>1, <4>2, <4>3
    <3>5. ASSUME NEW c \in (B \cup {r}) \cup {h.brk}, c # Start
          PROVE  \E d \in B \cup {r} : End(k, d) = c
      <4>1. CASE c = r
        BY <1>4, <2>6, <4>1
      <4>2. CASE c # r
        <5>1. PICK d \in B : End(h, d) = c
          BY <3>1, <3>5, <4>2
        <5>2. CASE d = b
          BY <2>6, <5>1, <5>2
        <5>3. CASE d # b
          BY <1>2, <2>6, <5>1, <5>3
        <5> QED BY <5>2, <5>3
      <4> QED BY <4>1, <4>2
    <3>6. Start \in (B \cup {r}) \cup {h.brk}
      BY <3>1
    <3> QED BY <2>5, <2>8, <3>3, <3>4, <3>5, <3>6 DEF Tiled
  <2>11. Counted(k)
    <3>1. Cardinality(B \cup {r}) = Cardinality(B) + 1
      BY <1>1, <2>3, FS_AddElement
    <3>2. h.blocks = Cardinality(B) /\ h.size = h.brk - Start
      BY <1>1 DEF Counted, B
    <3> QED BY <2>5, <2>8, <3>1, <3>2 DEF Counted
  <2>12. \A c \in G : c \in Dom(h) /\ c \in B /\ c # r /\ c \in Nat
    BY <1>1, <1>2, <2>3
  <2> HIDE DEF G
  <2>13. Ring(k, G \cup {r})
    <3> DEFINE x == Nxt(h, b)
    <3>1. \/ x = FreeList /\ \A c \in G : c <= r
          \/ x \in G /\ x > r /\ \A c \in G : c > r => x <= c
      <4>1. \A c \in G : c > r => c > b
        BY <1>4, <2>1, <2>12
      <4>2. \A c \in G : c > b => x # FreeList /\ x <= c
        BY <1>1, <1>4 DEF Ring
      <4>3. CASE x = FreeList
        <5>1. \A c \in G : c <= r
          BY <2>1, <2>12, <4>1, <4>2, <4>3
        <5> QED BY <4>3, <5>1
      <4>4. CASE x # FreeList
        <5>1. x \in G /\ x \in B /\ x \in Nat
          BY <1>5, <2>12, <4>4
        <5>2. b < x
          BY <1>1, <1>4, <4>4 DEF Ring
        <5>3. End(h, b) <= x
          BY <1>1, <1>4, <5>1, <5>2 DEF Geometry, B
        <5>4. x > r
          BY <1>2, <1>4, <2>1, <5>1, <5>3
        <5> QED BY <4>1, <4>2, <5>1, <5>4
      <4> QED BY <4>3, <4>4
    <3>2. \A c \in (G \cup {r}) \cup {FreeList} :
            /\ Nxt(k, c) = IF c = r THEN x ELSE IF c = Prv(h, x) THEN r ELSE Nxt(h, c)
            /\ Prv(k, c) = IF c = r THEN Prv(h, x) ELSE IF c = x THEN r ELSE Prv(h, c)
      BY <1>1, <1>5, <2>3, <2>5, <2>12
    <3> HIDE DEF x
    <3> QED BY <1>1, <2>1, <2>3, <2>8, <3>1, <3>2, RingWith
  <2>14. \A c \in L : Same(h, k, c)
    <3> SUFFICES ASSUME NEW c \in L PROVE Same(h, k, c)
      OBVIOUS
    <3>1. c \in Dom(h) /\ c # b /\ c # Nxt(h, b)
      BY <1>1, <1>2, <1>4, <1>5 DEF G, B, BlocksOf
    <3> QED BY <2>5, <3>1 DEF Same
  <2>15. \A c \in L : Nxt(k, c) = c /\ Prv(k, c) = c
    BY <1>1, <2>14 DEF Same
  <2>16. Apart(k, G \cup {r}, {b})
    <3> SUFFICES ASSUME NEW c \in G \cup {r}, NEW d \in G \cup {r}, End(k, c) = d, c # b
                 PROVE  FALSE
      BY DEF Apart
    <3>1. CASE c = r
      <4>1. d = End(h, b) /\ d # r
        BY <1>2, <1>4, <2>1, <2>6, <3>1
      <4>2. d \in G /\ b \in G
        BY <1>4, <4>1
      <4> QED BY <1>1, <4>1, <4>2 DEF Apart
    <3>2. CASE c # r
      <4>1. c \in G /\ End(h, c) = d
        BY <2>6, <2>12, <3>2
      <4>2. CASE d \in G
        BY <1>1, <4>1, <4>2 DEF Apart
      <4>3. CASE d = r
        <5>1. End(h, c) \in B \cup {h.brk}
          BY <1>1, <2>12, <4>1 DEF Tiled, B
        <5> QED BY <2>3, <4>1, <4>3, <5>1
      <4> QED BY <4>2, <4>3
    <3> QED BY <3>1, <3>2
  <2>17. HeapOK(k, L, {b})
    BY <2>5, <2>8, <2>9, <2>10, <2>11, <2>13, <2>15, <2>16 DEF HeapOK
  <2>18. Siz(k, b) = n /\ n <= Cap(k, b)
    BY <1>3, <1>4, <2>5
  <2>19. b \in BlocksOf(k) \ L
    BY <1>4, <2>8
  <2> QED BY <2>5, <2>14, <2>17, <2>18, <2>19 DEF k
<1> QED BY <1>3, <1>4, <1>6, <1>7, Layout

\* A held block is linked in where its address belongs.  It may then be adjacent to the
\* one after it, and the one before it to it.
LEMMA LinkKeeps ==
  ASSUME NEW h, NEW L, HeapOK(h, L, {}), NEW b \in L
  PROVE  /\ HeapOK(Linked(h, b), L \ {b}, {b, Prv(Linked(h, b), b)})
         /\ b \in BlocksOf(Linked(h, b)) \ (L \ {b})
         /\ Nxt(Linked(h, b), b) = Above(h, b)
         /\ Above(h, b) \in {b, Prv(Linked(h, b), b)} => Above(h, b) = FreeList
         /\ \A c \in L \ {b} : Same(h, Linked(h, b), c)
         /\ Linked(h, b).brk = h.brk
<1> DEFINE B == BlocksOf(h)
           G == B \ L
           x == Above(h, b)
           p == Prv(h, x)
           k == Linked(h, b)
<1>1. /\ Shape(h) /\ Aligned(h) /\ Tiled(h) /\ Counted(h) /\ Geometry(h)
      /\ L \subseteq B /\ IsFiniteSet(B) /\ FreeList \in Dom(h)
      /\ G \in SUBSET Nat /\ FreeList \notin G
      /\ Ring(h, G) /\ Apart(h, G, {})
      /\ \A c \in L : Nxt(h, c) = c /\ Prv(h, c) = c
  BY HeapParts
<1>2. \A c \in B : c \in Dom(h) /\ c \in Nat /\ c # FreeList
  BY <1>1 DEF Geometry
<1>3. b \in B /\ b \in Dom(h) /\ b \in Nat /\ b # FreeList /\ b \notin G
  BY <1>1, <1>2
<1>4. G \in SUBSET B /\ (B \ (L \ {b})) = G \cup {b}
  BY <1>3
<1>5. \A c \in G \cup {FreeList} : c \in Dom(h) /\ c # b /\ c \notin L
  BY <1>1, <1>2, <1>3
<1> HIDE DEF G, B
<1>6. \/ x = FreeList /\ \A c \in G : c <= b
      \/ x \in G /\ x > b /\ \A c \in G : c > b => x <= c
  <2> HIDE DEF x
  <2> QED BY <1>1, <1>3, <1>4, AboveIsNext DEF B, x
<1>7. x \in G \cup {FreeList}
  BY <1>6
<1> HIDE DEF x, k
<1>8. p \in G \cup {FreeList} /\ Nxt(h, p) = x
  BY <1>1, <1>7 DEF Ring
<1>9. x = p => x = FreeList
  <2> SUFFICES ASSUME x = p, x # FreeList PROVE FALSE
    OBVIOUS
  <2>1. x < x
    BY <1>1, <1>7, <1>8 DEF Ring
  <2>2. x \in Nat
    BY <1>1, <1>7
  <2> QED BY <2>1, <2>2
<1>10. AfterLink(h, b, x, k)
  BY <1>1, <1>3, <1>5, <1>7, <1>8, LinkView DEF x, k
<1> HIDE DEF p
<1>11. /\ SameBlocks(h, k)
       /\ \A c \in Dom(h) :
            /\ Nxt(k, c) = IF c = b THEN x ELSE IF c = p THEN b ELSE Nxt(h, c)
            /\ Prv(k, c) = IF c = b THEN p ELSE IF c = x THEN b ELSE Prv(h, c)
  BY <1>10 DEF AfterLink, p
<1>12. Shape(k) /\ SamePlaces(h, k) /\ k.brk = h.brk /\ Dom(k) = Dom(h)
       /\ \A c \in Dom(h) : Cap(k, c) = Cap(h, c) /\ Siz(k, c) = Siz(h, c)
  BY <1>11 DEF SameBlocks, SamePlaces
<1>13. /\ Aligned(k) /\ Tiled(k) /\ Counted(k) /\ BlocksOf(k) = B
       /\ \A c \in Dom(h) : End(k, c) = End(h, c)
  BY <1>1, <1>12, PlacesKept DEF B
<1>14. Geometry(k)
  BY <1>12, <1>13, GeometryHolds
<1>15. Ring(k, G \cup {b})
  <2>1. \A c \in (G \cup {b}) \cup {FreeList} :
          /\ Nxt(k, c) = IF c = b THEN x ELSE IF c = Prv(h, x) THEN b ELSE Nxt(h, c)
          /\ Prv(k, c) = IF c = b THEN Prv(h, x) ELSE IF c = x THEN b ELSE Prv(h, c)
    BY <1>3, <1>5, <1>11 DEF p
  <2> QED BY <1>1, <1>3, <1>6, <2>1, RingWith
<1>16. \A c \in L \ {b} : Same(h, k, c)
  <2> SUFFICES ASSUME NEW c \in L \ {b} PROVE Same(h, k, c)
    OBVIOUS
  <2>1. c \in Dom(h) /\ c # b /\ c # x /\ c # p
    BY <1>1, <1>2, <1>5, <1>7, <1>8
  <2> QED BY <1>11, <1>12, <2>1 DEF Same
<1>17. \A c \in L \ {b} : Nxt(k, c) = c /\ Prv(k, c) = c
  BY <1>1, <1>16 DEF Same
<1>18. Nxt(k, b) = x /\ Prv(k, b) = p
  BY <1>3, <1>11
<1>19. Apart(k, G \cup {b}, {b, p})
  <2> SUFFICES ASSUME NEW c \in G \cup {b}, NEW d \in G \cup {b}, End(k, c) = d, c # b
               PROVE  c = p
    BY DEF Apart
  <2>1. c \in G /\ c \in Dom(h) /\ End(h, c) = d
    BY <1>5, <1>13
  <2>2. d = b
    BY <1>1, <2>1 DEF Apart
  <2>3. Nxt(k, c) = b
    <3>1. G \cup {b} \in SUBSET BlocksOf(k)
      BY <1>3, <1>4, <1>13
    <3> QED BY <1>14, <1>15, <2>2, <3>1, AdjacentIsNext
  <2>4. Prv(k, b) = c
    BY <1>15, <2>3 DEF Ring
  <2> QED BY <1>18, <2>4
<1>20. HeapOK(k, L \ {b}, {b, p})
  <2>1. L \ {b} \subseteq BlocksOf(k) /\ BlocksOf(k) \ (L \ {b}) = G \cup {b}
    BY <1>1, <1>4, <1>13
  <2> QED BY <1>12, <1>13, <1>15, <1>17, <1>19, <2>1 DEF HeapOK
<1>21. b \in BlocksOf(k) \ (L \ {b})
  BY <1>3, <1>13
<1>22. x \in {b, p} => x = FreeList
  BY <1>5, <1>7, <1>9
<1> QED BY <1>12, <1>16, <1>18, <1>20, <1>21, <1>22 DEF k, x

\* Adjacencies are of free blocks.
LEMMA InsertKeeps ==
  ASSUME NEW h, NEW L, HeapOK(h, L, {}), NEW b \in L
  PROVE  /\ HeapOK(Insert(h, b), L \ {b}, {})
         /\ \A c \in L \ {b} : Same(h, Insert(h, b), c)
         /\ Insert(h, b).brk = h.brk
<1> DEFINE M == L \ {b}
           x == Above(h, b)
           k == Linked(h, b)
           m == Merge(k, b, x)
           p == Prv(k, b)
           j == Merge(m, p, b)
           P == {b, p}
<1>1. /\ HeapOK(k, M, P) /\ b \in BlocksOf(k) \ M /\ Nxt(k, b) = x
      /\ x \in {b, p} => x = FreeList
      /\ \A c \in M : Same(h, k, c)
      /\ k.brk = h.brk
  BY LinkKeeps
<1>2. (x \in P => x = FreeList) /\ b \notin P \ {b} /\ (P \ {b}) \ {p} = {}
  BY <1>1
<1> HIDE DEF M, x, k, P, m, p, j
<1>3. Ring(k, BlocksOf(k) \ M)
  BY <1>1, HeapParts
<1>4. x \in (BlocksOf(k) \ M) \cup {FreeList} /\ p # b
      /\ b \in Nat /\ b # FreeList
  <2>1. Nxt(k, b) \in (BlocksOf(k) \ M) \cup {FreeList} /\ Nxt(k, p) = b
        /\ (Nxt(k, b) # FreeList => b < Nxt(k, b))
    BY <1>1, <1>3 DEF Ring, p
  <2>2. BlocksOf(k) \ M \in SUBSET Nat /\ FreeList \notin BlocksOf(k) \ M
    BY <1>1, HeapParts
  <2>3. b \in Nat /\ b # FreeList
    BY <1>1, <2>2
  <2> QED BY <1>1, <2>1, <2>3
<1>5. /\ HeapOK(m, M, P \ {b})
      /\ \A c \in M : Same(k, m, c)
      /\ m.brk = k.brk /\ Prv(m, b) = p
      /\ b \in (BlocksOf(m) \ M) \cup {FreeList}
  <2>1. b \in (BlocksOf(k) \ M) \cup {FreeList}
    BY <1>1
  <2> QED BY <1>1, <1>2, <1>4, <2>1, MergeKeeps DEF m, p
<1>6. Insert(h, b) = j
  BY <1>5 DEF Insert, k, x, Prv, m, j
<1>7. Ring(m, BlocksOf(m) \ M)
  BY <1>5, HeapParts
<1>8. p \in (BlocksOf(m) \ M) \cup {FreeList} /\ Nxt(m, p) = b
  BY <1>5, <1>7 DEF Ring
<1>9. /\ HeapOK(j, M, (P \ {b}) \ {p})
      /\ \A c \in M : Same(m, j, c)
      /\ j.brk = m.brk
  BY <1>2, <1>5, <1>8, MergeKeeps DEF j
<1>10. \A c \in M : Same(h, j, c)
  BY <1>1, <1>5, <1>9 DEF Same
<1> QED BY <1>1, <1>2, <1>5, <1>6, <1>9, <1>10 DEF M

-----------------------------------------------------------------------------
(* The calls.                                                              *)

\* What malloc does to a heap h on which the blocks L are held, with k after it.
AfterMalloc(h, L, n, b, k) ==
  /\ HeapOK(k, L \cup {b}, {}) /\ b \notin L
  /\ \A c \in L : Same(h, k, c)
  /\ Siz(k, b) = n /\ n <= Cap(k, b)
  /\ k.brk > h.brk => \A c \in BlocksOf(h) \ L : Cap(h, c) < n

\* malloc, from the free list or from a larger heap.
LEMMA AllocatedKeeps ==
  ASSUME Ordinary, NEW n \in Sizes, NEW h, NEW L, HeapOK(h, L, {}), fit \in Fits,
         Succeeds(h, n)
  PROVE  AfterMalloc(h, L, n, Chosen(h, n), Allocated(h, n))
<1> DEFINE G == BlocksOf(h) \ L
           b == Search(h, n)
<1>1. /\ Shape(h) /\ Geometry(h) /\ L \subseteq BlocksOf(h) /\ Ring(h, G)
      /\ G \in SUBSET Nat /\ FreeList \notin G
  BY HeapParts
<1>2. n \in Nat
  BY AlignRoundsUp
<1>3. G \in SUBSET BlocksOf(h) /\ \A c \in G : Cap(h, c) <= Limit
  BY <1>1 DEF Geometry
<1>4. \A c \in L : c \in Dom(h)
  BY <1>1 DEF BlocksOf
<1> HIDE DEF G, b
<1>5. \/ b = FreeList /\ \A c \in G : Cap(h, c) < n
      \/ b \in G /\ Cap(h, b) >= n
  BY <1>1, <1>2, <1>3, SearchFinds DEF b
<1>6. CASE b = FreeList
  <2> DEFINE k == Allocate(h, n)
  <2>1. Chosen(h, n) = h.brk /\ Allocated(h, n) = k /\ CanGrow(h, n)
    BY <1>6 DEF Chosen, Allocated, Succeeds, b
  <2>2. /\ HeapOK(k, L \cup {h.brk}, {})
        /\ h.brk \notin BlocksOf(h)
        /\ \A c \in Dom(h) : Same(h, k, c)
        /\ Siz(k, h.brk) = n /\ n <= Cap(k, h.brk)
    BY <2>1, AllocateKeeps
  <2>3. \A c \in G : Cap(h, c) < n
    BY <1>1, <1>5, <1>6
  <2> HIDE DEF k
  <2> QED BY <1>1, <1>4, <2>1, <2>2, <2>3 DEF AfterMalloc, G
<1>7. CASE b # FreeList
  <2> DEFINE s == Split(h, b, n)
             k == Detach(s, b)
  <2>1. Chosen(h, n) = b /\ Allocated(h, n) = k
    BY <1>7 DEF Chosen, Allocated, b
  <2>2. b \in BlocksOf(h) \ L /\ Cap(h, b) >= n
    BY <1>5, <1>7 DEF G
  <2>3. /\ HeapOK(s, L, {b}) /\ b \in BlocksOf(s) \ L
        /\ \A c \in L : Same(h, s, c)
        /\ s.brk = h.brk /\ Siz(s, b) = n /\ n <= Cap(s, b)
    BY <2>2, SplitKeeps
  <2> HIDE DEF s
  <2>4. /\ HeapOK(k, L \cup {b}, {b}) /\ SameBlocks(s, k)
        /\ \A c \in L : Same(s, k, c)
    BY <2>3, DetachKeeps
  <2>5. b \in Dom(s)
    BY <2>3 DEF BlocksOf
  <2> HIDE DEF k
  <2>6. k.brk = h.brk /\ Siz(k, b) = n /\ n <= Cap(k, b)
    BY <2>3, <2>4, <2>5 DEF SameBlocks
  <2>7. \A c \in L : Same(h, k, c)
    BY <2>3, <2>4 DEF Same
  <2>8. HeapOK(k, L \cup {b}, {})
    <3>1. {b} \cap (BlocksOf(k) \ (L \cup {b})) \subseteq {}
      OBVIOUS
    <3> QED BY <2>4, <3>1, ApartFrom
  <2>9. ~ (k.brk > h.brk)
    BY <1>1, <2>6 DEF Geometry
  <2> QED BY <2>1, <2>2, <2>6, <2>7, <2>8, <2>9 DEF AfterMalloc
<1> QED BY <1>6, <1>7

AfterFree(h, L, b, k) ==
  /\ HeapOK(k, L \ {b}, {})
  /\ \A c \in L \ {b} : Same(h, k, c)
  /\ k.brk <= h.brk

\* A block that is held is linked to itself, so that detaching it changes nothing.
LEMMA DetachedStays ==
  ASSUME NEW h, NEW L, HeapOK(h, L, {}), NEW b \in L
  PROVE  Detach(h, b) = h
<1>1. /\ h = [mem |-> h.mem, brk |-> h.brk, blocks |-> h.blocks, size |-> h.size]
      /\ h.mem \in [Dom(h) -> HeaderType] /\ b \in Dom(h)
      /\ h.mem[b].next = b /\ h.mem[b].prev = b
  BY DEF HeapOK, Shape, BlocksOf, Nxt, Prv
<1>2. [h.mem EXCEPT ![b].next = b] = h.mem /\ [h.mem EXCEPT ![b].prev = b] = h.mem
  BY <1>1 DEF HeaderType
<1>3. [h EXCEPT !.mem[b].next = b] = h /\ [h EXCEPT !.mem[b].prev = b] = h
  BY <1>1, <1>2
<1>4. Detach(h, b) = [h EXCEPT !.mem[b].next = b, !.mem[b].prev = b,
                               !.mem[b].next = b, !.mem[b].prev = b]
  BY <1>1 DEF Detach
<1> QED BY <1>3, <1>4

\* free, by a smaller heap or into the free list.
LEMMA FreedKeeps ==
  ASSUME NEW h, NEW L, HeapOK(h, L, {}), NEW b \in L, NEW k \in Freed(h, b)
  PROVE  AfterFree(h, L, b, k)
<1>1. h.brk \in Nat
  BY HeapParts DEF Geometry
<1>2. CASE Releasable(h, b) /\ k = Release(h, b)
  <2>1. End(h, b) = h.brk
    BY <1>2 DEF Releasable
  <2>2. /\ HeapOK(Release(h, b), L \ {b}, {})
        /\ \A c \in L \ {b} : Same(h, Release(h, b), c)
        /\ Release(h, b).brk < h.brk
    BY <2>1, ReleaseKeeps
  <2>3. Release(h, b).brk \in Nat
    BY <2>2, HeapParts DEF Geometry
  <2>4. Release(h, b).brk <= h.brk
    BY <1>1, <2>2, <2>3
  <2> QED BY <1>2, <2>2, <2>4 DEF AfterFree
<1>3. CASE k = Insert(h, b)
  <2>1. /\ HeapOK(Insert(h, b), L \ {b}, {})
        /\ \A c \in L \ {b} : Same(h, Insert(h, b), c)
        /\ Insert(h, b).brk = h.brk
    BY InsertKeeps
  <2> QED BY <1>1, <1>3, <2>1 DEF AfterFree
<1>4. Detach(h, b) = h
  BY DetachedStays
<1> QED BY <1>2, <1>3, <1>4 DEF Freed

\* Headers of the same values are the same.
LEMMA SameHeader ==
  ASSUME NEW h, NEW k, Shape(h), Shape(k), NEW c, c \in Dom(h), c \in Dom(k), Same(h, k, c)
  PROVE  k.mem[c] = h.mem[c]
<1>1. h.mem[c] \in HeaderType /\ k.mem[c] \in HeaderType
  BY DEF Shape
<1>2. /\ k.mem[c].capacity = h.mem[c].capacity /\ k.mem[c].size = h.mem[c].size
      /\ k.mem[c].next = h.mem[c].next /\ k.mem[c].prev = h.mem[c].prev
  BY DEF Same, Cap, Siz, Nxt, Prv
<1> QED BY <1>1, <1>2 DEF HeaderType

-----------------------------------------------------------------------------
(* The invariant.                                                          *)

\* Of the sized blocks, in the words of the lemmas.
SizedOf(h, L, a) == \A c \in L : a[c] <= Siz(h, c) /\ Siz(h, c) <= Cap(h, c)

LEMMA SizedIs == Sized <=> SizedOf(heap, live, asked)
  BY DEF Sized, SizedOf, Siz, Cap

LEMMA SizedIsNext == Sized' <=> SizedOf(heap', live', asked')
  BY DEF Sized, SizedOf, Siz, Cap

\* The empty heap.
LEMMA InitHolds == Init => IInv
<1> SUFFICES ASSUME Init PROVE IInv
  OBVIOUS
<1> DEFINE x == [capacity |-> 0, size |-> 0, prev |-> FreeList, next |-> FreeList]
<1>1. /\ heap.mem = [b \in {FreeList} |-> x] /\ heap.brk = Start /\ heap.blocks = 0
      /\ heap.size = 0 /\ live = {}
      /\ heap = [mem |-> heap.mem, brk |-> heap.brk, blocks |-> heap.blocks, size |-> heap.size]
  BY DEF Init
<1>2. x \in HeaderType
  BY Layout DEF HeaderType
<1>3. Dom(heap) = {FreeList} /\ BlocksOf(heap) = {}
  BY <1>1 DEF Dom, BlocksOf
<1>4. /\ Cap(heap, FreeList) = 0 /\ Nxt(heap, FreeList) = FreeList
      /\ Prv(heap, FreeList) = FreeList
  BY <1>1 DEF Cap, Nxt, Prv
<1>5. Shape(heap)
  <2>1. heap.mem \in [Dom(heap) -> HeaderType]
    BY <1>1, <1>2, <1>3
  <2>2. IsFiniteSet({FreeList})
    BY FS_Singleton
  <2>3. {FreeList} \in SUBSET Nat /\ Start \in Start .. Limit
    BY Layout
  <2> QED BY <1>1, <1>3, <2>1, <2>2, <2>3 DEF Shape
<1>6. Aligned(heap)
  BY <1>1, <1>3, <1>4, Layout DEF Aligned
<1>7. Tiled(heap)
  BY <1>1, <1>3 DEF Tiled
<1>8. Counted(heap)
  BY <1>1, <1>3, FS_EmptySet, Layout DEF Counted
<1>9. BlocksOf(heap) \ live = {}
  BY <1>3
<1>10. Ring(heap, {}) /\ Apart(heap, {}, {})
  BY <1>4 DEF Ring, Apart
<1>11. HeapOK(heap, live, {})
  BY <1>1, <1>3, <1>5, <1>6, <1>7, <1>8, <1>9, <1>10 DEF HeapOK
<1>12. asked \in [live -> Sizes] /\ fit \in Fits /\ Sized
  BY <1>1 DEF Init, Sized
<1> QED BY <1>11, <1>12 DEF IInv

\* What a call may do to the blocks of others and to the break.
Careful == /\ \A b \in live \cap live' : asked'[b] = asked[b] => heap'.mem[b] = heap.mem[b]
           /\ heap'.brk > heap.brk =>
                \E b \in live' \ live : \A c \in Free : heap.mem[c].capacity < asked'[b]

LEMMA FreeIs == Free = BlocksOf(heap) \ live /\ Blocks = BlocksOf(heap)
  BY DEF Free, Blocks, BlocksOf, Dom

LEMMA RestrictOf ==
  ASSUME NEW S, NEW T, NEW f \in [S -> T], NEW R \in SUBSET S
  PROVE  Restrict(f, R) \in [R -> T] /\ \A z \in R : Restrict(f, R)[z] = f[z]
  BY DEF Restrict

\* Each call keeps the invariant and is careful.
LEMMA MallocStep ==
  ASSUME Ordinary, IInv, NEW n \in Sizes, malloc(n)
  PROVE  IInv' /\ Careful
<1> DEFINE b == Chosen(heap, n)
<1>1. /\ HeapOK(heap, live, {}) /\ asked \in [live -> Sizes] /\ fit \in Fits
      /\ SizedOf(heap, live, asked) /\ Succeeds(heap, n)
      /\ heap' = Allocated(heap, n) /\ live' = live \cup {b}
      /\ asked' = With(asked, b, n) /\ fit' = fit
  BY SizedIs DEF IInv, malloc
<1>2. AfterMalloc(heap, live, n, b, heap')
  BY <1>1, AllocatedKeeps
<1> HIDE DEF b
<1>3. /\ HeapOK(heap', live', {}) /\ b \notin live
      /\ \A c \in live : Same(heap, heap', c)
      /\ Siz(heap', b) = n /\ n <= Cap(heap', b)
      /\ heap'.brk > heap.brk => \A c \in BlocksOf(heap) \ live : Cap(heap, c) < n
  BY <1>1, <1>2 DEF AfterMalloc
<1>4. /\ asked' \in [live' -> Sizes] /\ asked'[b] = n
      /\ \A c \in live : asked'[c] = asked[c]
  <2>1. asked' = [z \in live \cup {b} |-> IF z = b THEN n ELSE asked[z]]
    BY <1>1 DEF With
  <2> QED BY <1>1, <1>3, <2>1
<1>5. Sized'
  <2>1. n \in Nat
    BY AlignRoundsUp
  <2>2. SizedOf(heap', live', asked')
    BY <1>1, <1>3, <1>4, <2>1 DEF SizedOf, Same
  <2> QED BY <2>2, SizedIsNext
<1>6. IInv'
  <2>1. HeapOK(heap, live, {})'
    BY <1>3
  <2> QED BY <1>1, <1>4, <1>5, <2>1 DEF IInv
<1>7. ASSUME NEW c \in live PROVE heap'.mem[c] = heap.mem[c]
  <2>1. Shape(heap) /\ c \in Dom(heap)
    BY <1>1, HeapParts DEF BlocksOf
  <2>2. Shape(heap') /\ c \in Dom(heap')
    <3>1. c \in live'
      BY <1>1
    <3> QED BY <1>3, <3>1, HeapParts DEF BlocksOf
  <2> QED BY <1>3, <2>1, <2>2, SameHeader
<1>8. heap'.brk > heap.brk =>
        \E a \in live' \ live : \A c \in Free : heap.mem[c].capacity < asked'[a]
  <2>1. b \in live' \ live
    BY <1>1, <1>3
  <2> QED BY <1>3, <1>4, <2>1, FreeIs DEF Cap
<1> QED BY <1>6, <1>7, <1>8 DEF Careful

LEMMA FreeStep ==
  ASSUME IInv, NEW b \in live, free(b)
  PROVE  IInv' /\ Careful
<1>1. /\ HeapOK(heap, live, {}) /\ asked \in [live -> Sizes] /\ fit \in Fits
      /\ SizedOf(heap, live, asked)
      /\ heap' \in Freed(heap, b) /\ live' = live \ {b}
      /\ asked' = Restrict(asked, live \ {b}) /\ fit' = fit
  BY SizedIs DEF IInv, free
<1>2. AfterFree(heap, live, b, heap')
  BY <1>1, FreedKeeps
<1>3. /\ HeapOK(heap', live', {})
      /\ \A c \in live' : Same(heap, heap', c)
      /\ heap'.brk <= heap.brk
  BY <1>1, <1>2 DEF AfterFree
<1>4. asked' \in [live' -> Sizes] /\ \A c \in live' : asked'[c] = asked[c]
  <2>1. asked \in [live -> Sizes] /\ live \ {b} \in SUBSET live
    BY <1>1
  <2>2. asked' = Restrict(asked, live \ {b}) /\ live' = live \ {b}
    BY <1>1
  <2>3. /\ Restrict(asked, live \ {b}) \in [live \ {b} -> Sizes]
        /\ \A c \in live \ {b} : Restrict(asked, live \ {b})[c] = asked[c]
    BY <2>1, RestrictOf
  <2> QED BY <2>2, <2>3
<1>5. Sized'
  <2>1. SizedOf(heap', live', asked')
    BY <1>1, <1>3, <1>4 DEF SizedOf, Same
  <2> QED BY <2>1, SizedIsNext
<1>6. IInv'
  <2>1. HeapOK(heap, live, {})'
    BY <1>3
  <2> QED BY <1>1, <1>4, <1>5, <2>1 DEF IInv
<1>7. ASSUME NEW c \in live \cap live' PROVE heap'.mem[c] = heap.mem[c]
  <2>1. Shape(heap) /\ c \in Dom(heap)
    BY <1>1, HeapParts DEF BlocksOf
  <2>2. Shape(heap') /\ c \in Dom(heap')
    BY <1>3, HeapParts DEF BlocksOf
  <2> QED BY <1>3, <2>1, <2>2, SameHeader
<1>8. ~ (heap'.brk > heap.brk)
  <2>1. heap.brk \in Nat /\ heap'.brk \in Nat
    BY <1>1, <1>3, HeapParts DEF Geometry
  <2> QED BY <1>3, <2>1
<1> QED BY <1>6, <1>7, <1>8 DEF Careful

LEMMA InPlaceStep ==
  ASSUME IInv, NEW b \in live, NEW n \in Sizes, reallocInPlace(b, n)
  PROVE  IInv' /\ Careful
<1> DEFINE s == IF Siz(heap, b) < n THEN n ELSE Siz(heap, b)
<1>1. /\ HeapOK(heap, live, {}) /\ asked \in [live -> Sizes] /\ fit \in Fits
      /\ SizedOf(heap, live, asked)
      /\ Cap(heap, b) >= n
      /\ asked' = [asked EXCEPT ![b] = n] /\ live' = live /\ fit' = fit
  BY SizedIs DEF IInv, reallocInPlace, Cap
<1>2. heap' = [heap EXCEPT !.mem[b].size = s]
  BY DEF reallocInPlace, Siz
<1>3. /\ Shape(heap) /\ Geometry(heap) /\ b \in BlocksOf(heap) /\ b \in Dom(heap)
      /\ \A c \in live : c \in Dom(heap)
  BY <1>1, HeapParts DEF BlocksOf
<1>4. n \in 0 .. Wrap - 1 /\ Siz(heap, b) \in 0 .. Wrap - 1 /\ Cap(heap, b) \in Nat
  BY <1>3, SizesAssumption DEF Geometry
<1>5. /\ s \in 0 .. Wrap - 1 /\ n <= s /\ s <= Cap(heap, b)
      /\ n <= Siz(heap, b) => s = Siz(heap, b)
  <2>1. Siz(heap, b) <= Cap(heap, b)
    BY <1>1 DEF SizedOf
  <2>2. n \in Nat /\ Siz(heap, b) \in Nat
    BY <1>4, Layout
  <2>3. CASE Siz(heap, b) < n
    BY <1>1, <1>4, <2>2, <2>3
  <2>4. CASE ~ (Siz(heap, b) < n)
    BY <1>4, <2>1, <2>2, <2>4
  <2> QED BY <2>3, <2>4
<1> HIDE DEF s
<1>6. AfterSize(heap, b, s, heap')
  BY <1>2, <1>3, <1>5, SetSize
<1>7. HeapOK(heap', live', {}) /\ \A c \in live : c # b => Same(heap, heap', c)
  BY <1>1, <1>3, <1>6, SizeKeeps
<1>8. Shape(heap') /\ Dom(heap') = Dom(heap) /\ heap'.brk = heap.brk
      /\ Cap(heap', b) = Cap(heap, b) /\ Siz(heap', b) = s
      /\ Nxt(heap', b) = Nxt(heap, b) /\ Prv(heap', b) = Prv(heap, b)
  BY <1>3, <1>6 DEF AfterSize
<1>9. /\ asked' \in [live' -> Sizes] /\ asked'[b] = n
      /\ \A c \in live : c # b => asked'[c] = asked[c]
  BY <1>1
<1>10. Sized'
  <2>1. SizedOf(heap', live', asked')
    BY <1>1, <1>5, <1>7, <1>8, <1>9 DEF SizedOf, Same
  <2> QED BY <2>1, SizedIsNext
<1>11. IInv'
  <2>1. HeapOK(heap, live, {})'
    BY <1>7
  <2> QED BY <1>1, <1>9, <1>10, <2>1 DEF IInv
<1>12. ASSUME NEW c \in live, asked'[c] = asked[c] PROVE heap'.mem[c] = heap.mem[c]
  <2>1. Same(heap, heap', c)
    <3>1. CASE c # b
      BY <1>7, <3>1
    <3>2. CASE c = b
      <4>1. n <= Siz(heap, b)
        BY <1>1, <1>9, <1>12, <3>2 DEF SizedOf
      <4> QED BY <1>5, <1>8, <3>2, <4>1 DEF Same
    <3> QED BY <3>1, <3>2
  <2> QED BY <1>3, <1>8, <2>1, SameHeader
<1>13. ~ (heap'.brk > heap.brk)
  BY <1>3, <1>8 DEF Geometry
<1> QED BY <1>11, <1>12, <1>13 DEF Careful

LEMMA MovedStep ==
  ASSUME Ordinary, IInv, NEW b \in live, NEW n \in Sizes, reallocMoved(b, n)
  PROVE  IInv' /\ Careful
<1> DEFINE new == Chosen(heap, n)
           k   == Allocated(heap, n)
<1>1. /\ HeapOK(heap, live, {}) /\ asked \in [live -> Sizes] /\ fit \in Fits
      /\ SizedOf(heap, live, asked) /\ Succeeds(heap, n)
      /\ heap' \in Freed(k, b) /\ live' = (live \cup {new}) \ {b}
      /\ asked' = Restrict(With(asked, new, n), live') /\ fit' = fit
  BY SizedIs DEF IInv, reallocMoved
<1>2. AfterMalloc(heap, live, n, new, k)
  BY <1>1, AllocatedKeeps
<1> HIDE DEF new, k
<1>3. /\ HeapOK(k, live \cup {new}, {}) /\ new \notin live
      /\ \A c \in live : Same(heap, k, c)
      /\ Siz(k, new) = n /\ n <= Cap(k, new)
      /\ k.brk > heap.brk => \A c \in BlocksOf(heap) \ live : Cap(heap, c) < n
  BY <1>2 DEF AfterMalloc
<1>4. AfterFree(k, live \cup {new}, b, heap')
  BY <1>1, <1>3, FreedKeeps
<1>5. /\ HeapOK(heap', live', {})
      /\ \A c \in live' : Same(k, heap', c)
      /\ heap'.brk <= k.brk
  BY <1>1, <1>4 DEF AfterFree
<1>6. /\ asked' \in [live' -> Sizes] /\ asked'[new] = n /\ new \in live'
      /\ \A c \in live' : c # new => c \in live /\ asked'[c] = asked[c]
  <2>1. With(asked, new, n) = [z \in live \cup {new} |-> IF z = new THEN n ELSE asked[z]]
    BY <1>1 DEF With
  <2>2. asked' = [z \in live' |-> IF z = new THEN n ELSE asked[z]]
    BY <1>1, <2>1 DEF Restrict
  <2>3. new \in live' /\ \A c \in live' : c # new => c \in live
    BY <1>1, <1>3
  <2> QED BY <1>1, <2>2, <2>3
<1>7. \A c \in live' : c # new => Same(heap, heap', c)
  BY <1>3, <1>5, <1>6 DEF Same
<1>8. Sized'
  <2>1. n \in Nat
    BY AlignRoundsUp
  <2>2. SizedOf(heap', live', asked')
    BY <1>1, <1>3, <1>5, <1>6, <1>7, <2>1 DEF SizedOf, Same
  <2> QED BY <2>2, SizedIsNext
<1>9. IInv'
  <2>1. HeapOK(heap, live, {})'
    BY <1>5
  <2> QED BY <1>1, <1>6, <1>8, <2>1 DEF IInv
<1>10. ASSUME NEW c \in live \cap live' PROVE heap'.mem[c] = heap.mem[c]
  <2>1. Shape(heap) /\ c \in Dom(heap)
    BY <1>1, HeapParts DEF BlocksOf
  <2>2. Shape(heap') /\ c \in Dom(heap')
    BY <1>5, HeapParts DEF BlocksOf
  <2>3. c # new
    BY <1>3
  <2> QED BY <1>7, <2>1, <2>2, <2>3, SameHeader
<1>11. heap'.brk > heap.brk =>
         \E a \in live' \ live : \A c \in Free : heap.mem[c].capacity < asked'[a]
  <2> SUFFICES ASSUME heap'.brk > heap.brk
               PROVE  \E a \in live' \ live : \A c \in Free : heap.mem[c].capacity < asked'[a]
    OBVIOUS
  <2>1. heap.brk \in Nat /\ heap'.brk \in Nat /\ k.brk \in Nat
    <3>1. Geometry(heap) /\ Geometry(heap') /\ Geometry(k)
      BY <1>1, <1>3, <1>5, HeapParts
    <3> QED BY <3>1 DEF Geometry
  <2>2. k.brk > heap.brk
    BY <1>5, <2>1
  <2>3. new \in live' \ live
    BY <1>3, <1>6
  <2> QED BY <1>3, <1>6, <2>2, <2>3, FreeIs DEF Cap
<1> QED BY <1>9, <1>10, <1>11 DEF Careful

LEMMA StepHolds ==
  ASSUME Ordinary, IInv, Next
  PROVE  IInv' /\ Careful
  BY MallocStep, FreeStep, InPlaceStep, MovedStep DEF Next

LEMMA StutterHolds ==
  ASSUME IInv, UNCHANGED vars
  PROVE  IInv'
<1>1. heap' = heap /\ live' = live /\ asked' = asked /\ fit' = fit
  BY DEF vars
<1>2. HeapOK(heap, live, {})'
  BY <1>1 DEF IInv
<1>3. Sized'
  BY <1>1 DEF IInv, Sized
<1> QED BY <1>1, <1>2, <1>3 DEF IInv

\* The invariant holds throughout.
LEMMA Invariance ==
  ASSUME Ordinary
  PROVE  Spec => []IInv
<1>1. IInv /\ [Next]_vars => IInv'
  BY StepHolds, StutterHolds
<1> QED BY <1>1, InitHolds, PTL DEF Spec

-----------------------------------------------------------------------------
(* The theorems.                                                           *)

\* What links point to.
LEMMA LinksStay ==
  ASSUME IInv, NEW c \in Dom(heap)
  PROVE  /\ Nxt(heap, c) \in BlocksOf(heap) \cup {FreeList}
         /\ Prv(heap, c) \in BlocksOf(heap) \cup {FreeList}
<1>1. HeapOK(heap, live, {})
  BY DEF IInv
<1>2. /\ live \subseteq BlocksOf(heap) /\ Ring(heap, BlocksOf(heap) \ live)
      /\ \A d \in live : Nxt(heap, d) = d /\ Prv(heap, d) = d
  BY <1>1, HeapParts
<1>3. CASE c \in live
  BY <1>2, <1>3
<1>4. CASE c \notin live
  <2>1. c \in (BlocksOf(heap) \ live) \cup {FreeList}
    BY <1>4 DEF BlocksOf
  <2> QED BY <1>2, <2>1 DEF Ring
<1> QED BY <1>3, <1>4

\* The counters are within the heap's limit.
LEMMA CountersBounded ==
  ASSUME IInv
  PROVE  heap.blocks \in 0 .. Limit /\ heap.size \in 0 .. Limit
<1>1. Geometry(heap) /\ Counted(heap) /\ IsFiniteSet(BlocksOf(heap))
  BY HeapParts DEF IInv
<1>2. BlocksOf(heap) \in SUBSET (Start .. Limit)
  <2> SUFFICES ASSUME NEW c \in BlocksOf(heap) PROVE c \in Start .. Limit
    OBVIOUS
  <2>1. c \in Nat /\ Start <= c /\ c < End(heap, c) /\ End(heap, c) <= heap.brk
        /\ End(heap, c) \in Nat /\ heap.brk \in Nat /\ heap.brk <= Limit
    BY <1>1 DEF Geometry
  <2> QED BY <2>1, Layout
<1>3. IsFiniteSet(Start .. Limit) /\ Cardinality(Start .. Limit) = Limit - Start + 1
  <2>1. Start \in Int /\ Limit \in Int /\ ~ (Start > Limit)
    BY Layout
  <2> QED BY <2>1, FS_Interval
<1>4. Cardinality(BlocksOf(heap)) <= Limit - Start + 1
  BY <1>2, <1>3, FS_Subset
<1>5. Cardinality(BlocksOf(heap)) \in Nat
  BY <1>1, FS_CardinalityType
<1>6. heap.blocks \in 0 .. Limit
  BY <1>1, <1>4, <1>5, Layout DEF Counted
<1>7. heap.size \in 0 .. Limit
  BY <1>1, Layout DEF Counted, Geometry
<1> QED BY <1>6, <1>7

\* What the invariant says in the words of the properties.
LEMMA TypeHolds == IInv => TypeOK
<1> SUFFICES ASSUME IInv PROVE TypeOK
  OBVIOUS
<1>1. /\ Shape(heap) /\ Aligned(heap) /\ Geometry(heap)
      /\ live \subseteq BlocksOf(heap)
  BY HeapParts DEF IInv
<1>2. ASSUME NEW c \in Dom(heap)
      PROVE  heap.mem[c] \in BlockType /\ c % Unit = 0 /\ heap.mem[c].capacity % Unit = 0
  <2>1. \A d \in BlocksOf(heap) \cup {FreeList} : d \in {FreeList} \cup Start .. Limit
    <3> SUFFICES ASSUME NEW d \in BlocksOf(heap) PROVE d \in Start .. Limit
      OBVIOUS
    <3>1. d \in Nat /\ Start <= d /\ d < End(heap, d) /\ End(heap, d) <= heap.brk
          /\ End(heap, d) \in Nat /\ heap.brk \in Nat /\ heap.brk <= Limit
      BY <1>1 DEF Geometry
    <3> QED BY <3>1, Layout
  <2>2. heap.mem[c].prev \in {FreeList} \cup Start .. Limit
        /\ heap.mem[c].next \in {FreeList} \cup Start .. Limit
    BY <2>1, LinksStay DEF Nxt, Prv
  <2>3. c \in BlocksOf(heap) \/ c = FreeList
    BY DEF BlocksOf
  <2>4. heap.mem[c].capacity \in 0 .. Limit /\ c % Unit = 0 /\ heap.mem[c].capacity % Unit = 0
    <3>1. CASE c = FreeList
      <4>1. Cap(heap, FreeList) = 0
        BY <1>1 DEF Aligned
      <4>2. 0 % Unit = 0
        BY Layout, ModSmall
      <4> QED BY <3>1, <4>1, <4>2, Layout DEF Cap
    <3>2. CASE c \in BlocksOf(heap)
      <4>1. Cap(heap, c) \in Nat /\ Cap(heap, c) <= Limit
        BY <1>1, <3>2 DEF Geometry
      <4>2. c % Unit = 0 /\ Cap(heap, c) % Unit = 0
        BY <1>1, <3>2 DEF Aligned
      <4> QED BY <4>1, <4>2, Layout DEF Cap
    <3> QED BY <2>3, <3>1, <3>2
  <2>5. heap.mem[c] \in HeaderType
    BY <1>1 DEF Shape
  <2> QED BY <2>2, <2>4, <2>5 DEF HeaderType, BlockType
<1>3. heap.brk \in Start .. Limit
  BY <1>1 DEF Shape
<1>4. live \subseteq Blocks /\ asked \in [live -> Sizes] /\ fit \in Fits
  BY <1>1, FreeIs DEF IInv
<1> QED BY <1>2, <1>3, <1>4, CountersBounded DEF TypeOK, Dom

\* Type correctness: capacities and addresses are aligned, links lead into the heap.
THEOREM TypeCorrect ==
  ASSUME Ordinary
  PROVE  Spec => []TypeOK
  BY Invariance, TypeHolds, PTL

LEMMA TiledHolds == IInv => HeapTiled
<1> SUFFICES ASSUME IInv PROVE HeapTiled
  OBVIOUS
<1>1. Tiled(heap) /\ Counted(heap)
  BY HeapParts DEF IInv
<1>2. ASSUME NEW c \in BlocksOf(heap) \cup {heap.brk}
      PROVE  c \in {Start} \cup {End(heap, b) : b \in BlocksOf(heap)}
  BY <1>1 DEF Tiled
<1>3. ASSUME NEW c \in {Start} \cup {End(heap, b) : b \in BlocksOf(heap)}
      PROVE  c \in BlocksOf(heap) \cup {heap.brk}
  BY <1>1 DEF Tiled
<1>4. BlocksOf(heap) \cup {heap.brk} = {Start} \cup {End(heap, b) : b \in BlocksOf(heap)}
  BY <1>2, <1>3
<1> QED BY <1>1, <1>4, FreeIs DEF HeapTiled, Tiled, Counted

\* The blocks tile the heap and the two counters agree with it, whatever is split,
\* merged, grown or released.
THEOREM TilingCorrect ==
  ASSUME Ordinary
  PROVE  Spec => []HeapTiled
  BY Invariance, TiledHolds, PTL

LEMMA ListHolds == IInv => FreeListOK
<1> SUFFICES ASSUME IInv PROVE FreeListOK
  OBVIOUS
<1> DEFINE G  == BlocksOf(heap) \ live
           at == Walk(heap)
           n  == Cardinality(G)
<1>1. /\ Shape(heap) /\ Ring(heap, G)
      /\ \A c \in live : Nxt(heap, c) = c /\ Prv(heap, c) = c
  BY HeapParts DEF IInv
<1>2. Enumerates(heap, G)
  BY <1>1, WalkOfRing
<1>3. Free = G
  BY FreeIs
<1> HIDE DEF G, at
<1>4. /\ n \in Nat /\ at[0] = FreeList /\ at[n + 1] = FreeList
      /\ \A i \in 1 .. n : at[i] \in G
      /\ \A x \in G : \E i \in 1 .. n : at[i] = x
      /\ \A i, j \in 1 .. n : i < j => at[i] < at[j]
      /\ \A i \in 1 .. n + 1 : at[i] = Nxt(heap, at[i - 1])
  BY <1>2 DEF Enumerates, at
<1> HIDE DEF n
<1>5. {at[i] : i \in 1 .. n} = G
  <2>1. \A x \in {at[i] : i \in 1 .. n} : x \in G
    BY <1>4
  <2>2. \A x \in G : x \in {at[i] : i \in 1 .. n}
    BY <1>4
  <2> QED BY <2>1, <2>2
<1>6. \A i \in 1 .. n - 1 : at[i] < at[i + 1]
  <2> SUFFICES ASSUME NEW i \in 1 .. n - 1 PROVE at[i] < at[i + 1]
    OBVIOUS
  <2>1. i \in 1 .. n /\ i + 1 \in 1 .. n /\ i < i + 1
    BY <1>4
  <2> QED BY <1>4, <2>1
<1>7. \A i \in 1 .. n + 1 : heap.mem[at[i]].prev = at[i - 1]
  <2> SUFFICES ASSUME NEW i \in 1 .. n + 1 PROVE Prv(heap, at[i]) = at[i - 1]
    BY DEF Prv
  <2>1. at[i - 1] \in G \cup {FreeList}
    <3>1. i - 1 = 0 \/ i - 1 \in 1 .. n
      BY <1>4
    <3> QED BY <1>4, <3>1
  <2>2. Prv(heap, Nxt(heap, at[i - 1])) = at[i - 1]
    BY <1>1, <2>1 DEF Ring
  <2> QED BY <1>4, <2>2
<1>8. \A c \in live : heap.mem[c].next = c /\ heap.mem[c].prev = c
  BY <1>1 DEF Nxt, Prv
<1> QED BY <1>3, <1>4, <1>5, <1>6, <1>7, <1>8 DEF FreeListOK, at, n

\* The list goes around once through the free blocks, in ascending order.
THEOREM FreeListCorrect ==
  ASSUME Ordinary
  PROVE  Spec => []FreeListOK
  BY Invariance, ListHolds, PTL

\* No two free blocks are adjacent.
THEOREM CoalescingCorrect ==
  ASSUME Ordinary
  PROVE  Spec => []Coalesced
<1>1. IInv => Coalesced
  <2> SUFFICES ASSUME IInv PROVE Coalesced
    OBVIOUS
  <2>1. Apart(heap, BlocksOf(heap) \ live, {})
    BY HeapParts DEF IInv
  <2> QED BY <2>1, FreeIs DEF Apart, Coalesced
<1> QED BY <1>1, Invariance, PTL

\* Whatever a caller asked for fits into the size of its block, and that into the
\* block.
THEOREM SizingCorrect ==
  ASSUME Ordinary
  PROVE  Spec => []Sized
<1>1. IInv => Sized
  BY DEF IInv
<1> QED BY <1>1, Invariance, PTL

\* A call leaves the blocks of others alone, and grows the heap only if no free block
\* is large enough.
THEOREM CallsAreCareful ==
  ASSUME Ordinary
  PROVE  Spec => OthersKept
<1>1. IInv /\ [Next]_vars => [Careful]_vars
  BY StepHolds
<1>2. Spec => [][Careful]_vars
  BY <1>1, Invariance, PTL DEF Spec
<1> QED BY <1>2 DEF OthersKept, Careful
=============================================================================
