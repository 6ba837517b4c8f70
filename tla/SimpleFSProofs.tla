--------------------------- MODULE SimpleFSProofs ---------------------------
(***************************************************************************)
(* Which blocks the files of Project 04's file system use, for any disk    *)
(* and any number of calls: no block has two uses, the bitmap in memory    *)
(* marks what no file uses, and so the calls do to the files what          *)
(* FileStore says.  All of it is conditional on Careful:                   *)
(*   - of the calls only format and create return early after a failing    *)
(*     disk operation; a failing mount, removal or write does spoil the    *)
(*     bitmap, and is excluded;                                            *)
(*   - mounts, creates and removals may be killed on any disk, writes and  *)
(*     formats only on one with room for the largest files of all inodes,  *)
(*     and so it is with failing formats: on a disk that fills up they     *)
(*     leave the data that the run sfs_garbage finds taken for pointers.   *)
(* Writes that are not killed may fill any disk.                           *)
(***************************************************************************)
EXTENDS SimpleFS, Induction, FiniteSetTheorems, Sequences

-----------------------------------------------------------------------------
(* The disks this is about.                                                *)

\* No call is cut off where it leaves data in blocks that no file uses.
LeavesNoData(s) == "format" \notin s.failing \cup s.killed /\ "write" \notin s.killed

\* The blocks of the largest file, and the slots it needs for them.
FileBlocks == (MaxSize + Words - 1) \div Words
Reach      == {k \in Slots : k < FileBlocks \/ (k = Direct + Words /\ FileBlocks > Direct)}

\* There is room for as many of the largest files as there are inodes.
HasRoom(s) == s.inodeBlocks * PerBlock * Cardinality(Reach) <= s.blocks - 1 - s.inodeBlocks

\* What the theorems assume.  A failing mount, removal or write leaves a bitmap that does
\* not agree with the disk, so only format and create may fail; and what leaves data in
\* free blocks is for disks with room only.
Careful == \A s \in Setups : /\ s.failing \subseteq {"format", "create"}
                             /\ LeavesNoData(s) \/ HasRoom(s)

-----------------------------------------------------------------------------
(* A sound disk.                                                           *)

Table(s)      == 0 .. s.inodeBlocks * PerBlock - 1
DataOf(s)     == s.inodeBlocks + 1 .. s.blocks - 1
BlocksOn(s)   == 0 .. s.blocks - 1
Contents      == [0 .. Words - 1 -> Nat]
InodesOn(s)   == [valid : BOOLEAN, size : 0 .. MaxSize,
                  direct : [0 .. Direct - 1 -> BlocksOn(s)], indirect : BlocksOn(s)]
Typed(s, I, D) == I \in [Table(s) -> InodesOn(s)] /\ D \in [{0} \cup DataOf(s) -> Contents]

\* The pointer in slot k of inode i, and the blocks there are pointers to.
At(I, D, i, k) == PointerOf(I[i], D, k)
Read(I, D, i, k) == D[At(I, D, i, k)]
Used(I, D)     == {At(I, D, i, k) : i \in DOMAIN I, k \in Slots} \ {0}

\* An inode that is not valid holds nothing, which fs_create relies on.
EmptyUnlessValid(I) == \A i \in DOMAIN I : ~ I[i].valid => I[i] = NoInode

InRange(s, I, D) == \A i \in DOMAIN I, k \in Slots : At(I, D, i, k) \in {0} \cup DataOf(s)

Apart(I, D) == \A i, j \in DOMAIN I, k, l \in Slots :
                 At(I, D, i, k) # 0 /\ At(I, D, i, k) = At(I, D, j, l) => i = j /\ k = l

\* Blocks that no file uses hold zeros, as fs_write expects of a new indirect block ...
CleanOutside(s, I, D) == \A b \in DataOf(s) : b \notin Used(I, D) => D[b] = Zeros

\* ... or the disk never gets full, so that it is written before the inode is.
WithinReach(I, D) == \A i \in DOMAIN I, k \in Slots : At(I, D, i, k) # 0 => k \in Reach

Sound(s, I, D) == /\ Typed(s, I, D)
                  /\ EmptyUnlessValid(I)
                  /\ InRange(s, I, D)
                  /\ Apart(I, D)
                  /\ LeavesNoData(s) => CleanOutside(s, I, D)
                  /\ HasRoom(s) => WithinReach(I, D)

\* The inductive invariant.
IInv == /\ setup \in Setups
        /\ Sound(setup, inodes, disk)
        /\ mounted \in BOOLEAN
        /\ free = IF mounted THEN DataOf(setup) \ Used(inodes, disk) ELSE {}
        /\ kills \in 0 .. MaxKills

-----------------------------------------------------------------------------
(* Layout, and least and greatest numbers.                                 *)

LEMMA Layout ==
  /\ PerBlock \in Nat \ {0} /\ Direct \in Nat \ {0} /\ Words \in Nat \ {0}
  /\ Super \in Nat /\ MaxKills \in Nat /\ MaxSize \in Nat
  /\ (Direct + Words) * Words \in Nat /\ MaxSize <= (Direct + Words) * Words
<1>1. {PerBlock, Direct, Words} \subseteq Nat \ {0} /\ Super \in Nat
  BY LayoutAssumption
<1>2. PerBlock \in Nat \ {0} /\ Direct \in Nat \ {0} /\ Words \in Nat \ {0}
  BY <1>1
<1>3. (Direct + Words) * Words \in Nat
  BY <1>2
<1>4. MaxKills \in Nat /\ MaxSize \in 0 .. (Direct + Words) * Words
  BY BoundsAssumption
<1> QED BY <1>1, <1>2, <1>3, <1>4

LEMMA SetupLayout ==
  ASSUME NEW s \in Setups
  PROVE  /\ s.inodeBlocks \in Nat \ {0} /\ s.blocks \in Nat /\ s.inodeBlocks + 1 < s.blocks
         /\ s.data \subseteq Nat
         /\ s.inodeBlocks * PerBlock \in Nat \ {0}
         /\ 0 \in BlocksOn(s) /\ 0 \notin DataOf(s)
         /\ DataOf(s) \subseteq BlocksOn(s) /\ DataOf(s) \subseteq Nat
<1>1. s.inodeBlocks \in Nat \ {0} /\ s.blocks \in Nat /\ s.inodeBlocks + 1 < s.blocks
  BY SetupsAssumption
<1>2. s.data \subseteq Nat
  BY SetupsAssumption
<1>3. s.inodeBlocks * PerBlock \in Nat /\ s.inodeBlocks * PerBlock # 0
  <2>1. s.inodeBlocks * 1 <= s.inodeBlocks * PerBlock /\ s.inodeBlocks * PerBlock \in Nat
    BY <1>1, Layout, ProductGrows
  <2> QED BY <1>1, <2>1
<1>4. 0 \in BlocksOn(s) /\ 0 \notin DataOf(s)
  BY <1>1 DEF BlocksOn, DataOf
<1>5. DataOf(s) \subseteq BlocksOn(s) /\ DataOf(s) \subseteq Nat
  BY <1>1 DEF BlocksOn, DataOf
<1> QED BY <1>1, <1>2, <1>3, <1>4, <1>5

\* The block of the table that holds an inode, and the first inode of a block.
LEMMA TableBlocks ==
  ASSUME NEW s \in Setups
  PROVE  /\ \A i \in Table(s) : TableBlock(i) \in 1 .. s.inodeBlocks
         /\ \A b \in 1 .. s.inodeBlocks :
              \E i \in Table(s) : TableBlock(i) = b /\ i % PerBlock = 0
<1>1. PerBlock \in Nat \ {0} /\ s.inodeBlocks \in Nat /\ s.inodeBlocks * PerBlock \in Nat
  BY Layout, SetupLayout
<1>2. \A i \in Table(s) : TableBlock(i) \in 1 .. s.inodeBlocks
  <2> SUFFICES ASSUME NEW i \in Table(s) PROVE TableBlock(i) \in 1 .. s.inodeBlocks
    OBVIOUS
  <2>1. i \in Nat /\ i < PerBlock * s.inodeBlocks
    BY <1>1 DEF Table
  <2>2. i \div PerBlock \in Nat /\ i \div PerBlock < s.inodeBlocks
    BY <1>1, <2>1, DivBelow, ModDef
  <2> QED BY <1>1, <2>2 DEF TableBlock
<1>3. ASSUME NEW b \in 1 .. s.inodeBlocks
      PROVE  \E i \in Table(s) : TableBlock(i) = b /\ i % PerBlock = 0
  <2> DEFINE i == PerBlock * (b - 1) + 0
  <2>1. b - 1 \in Nat /\ 0 \in 0 .. PerBlock - 1
    BY <1>1
  <2>2. i \in Nat /\ i \div PerBlock = b - 1 /\ i % PerBlock = 0
    BY <1>1, <2>1, DivIs
  <2>3. PerBlock * (b - 1) <= PerBlock * (s.inodeBlocks - 1)
    BY <1>1, <2>1, ProductGrows
  <2>4. PerBlock * (s.inodeBlocks - 1) = s.inodeBlocks * PerBlock - PerBlock
    BY <1>1
  <2>5. i < s.inodeBlocks * PerBlock
    <3>1. PerBlock * (b - 1) \in Nat /\ i = PerBlock * (b - 1)
      BY <1>1, <2>1
    <3> QED BY <1>1, <2>3, <2>4, <3>1
  <2> HIDE DEF i
  <2>6. i \in Table(s)
    BY <1>1, <2>2, <2>5 DEF Table
  <2>7. TableBlock(i) = b
    BY <1>1, <2>2 DEF TableBlock
  <2> QED BY <2>2, <2>6, <2>7
<1> QED BY <1>2, <1>3

\* A file of MaxSize words has no more blocks than an inode has pointers to data.
LEMMA FileBlocksBound == FileBlocks \in 0 .. Direct + Words
<1>1. Direct + Words + 1 \in Nat /\ Words \in Nat \ {0} /\ MaxSize + Words - 1 \in Nat
  BY Layout
<1>2. Words * (Direct + Words + 1) = (Direct + Words) * Words + Words
  BY Layout
<1>3. MaxSize + Words - 1 < Words * (Direct + Words + 1)
  BY <1>2, Layout
<1>4. FileBlocks < Direct + Words + 1
  BY <1>1, <1>3, DivBelow DEF FileBlocks
<1>5. FileBlocks \in Nat
  BY <1>1, ModDef DEF FileBlocks
<1> QED BY <1>4, <1>5, Layout

LEMMA MinOf ==
  ASSUME NEW S \in SUBSET Nat, S # {}
  PROVE  Min(S) \in S /\ \A y \in S : Min(S) <= y
<1>1. \E x \in S : \A y \in S : x <= y
  BY LeastNumber
<1> QED BY <1>1 DEF Min

LEMMA MinMaxOfTwo ==
  ASSUME NEW a \in Nat, NEW b \in Nat
  PROVE  /\ Min({a, b}) = IF a <= b THEN a ELSE b
         /\ Max({a, b}) = IF a <= b THEN b ELSE a
<1>1. Min({a, b}) = IF a <= b THEN a ELSE b
  BY DEF Min
<1>2. Max({a, b}) = IF a <= b THEN b ELSE a
  BY DEF Max
<1> QED BY <1>1, <1>2

-----------------------------------------------------------------------------
(* Pointers.                                                               *)

\* Every slot is direct, or behind the indirect block, or the indirect block's own.
LEMMA SlotKinds ==
  /\ \A k \in Slots : \/ k \in 0 .. Direct - 1
                      \/ k = Direct + Words
                      \/ \E w \in 0 .. Words - 1 : k = Direct + w
  /\ \A k \in 0 .. Direct - 1 : k \in Slots /\ k # Direct + Words
  /\ Direct + Words \in Slots
  /\ \A w \in 0 .. Words - 1 : Direct + w \in Slots /\ Direct + w # Direct + Words
<1>1. \A k \in Slots : \/ k \in 0 .. Direct - 1
                       \/ k = Direct + Words
                       \/ k - Direct \in 0 .. Words - 1 /\ k = Direct + (k - Direct)
  BY Layout DEF Slots
<1>2. \A k \in 0 .. Direct - 1 : k \in Slots /\ k # Direct + Words
  BY Layout DEF Slots
<1>3. Direct + Words \in Slots
  BY Layout DEF Slots
<1>4. \A w \in 0 .. Words - 1 : Direct + w \in Slots /\ Direct + w # Direct + Words
  BY Layout DEF Slots
<1> QED BY <1>1, <1>2, <1>3, <1>4

\* The slots whose blocks hold a file's words.
DataSlots == 0 .. Direct + Words - 1

LEMMA DataSlotKinds ==
  /\ DataSlots \subseteq Slots /\ Direct + Words \notin DataSlots
  /\ \A k \in DataSlots : \/ k \in 0 .. Direct - 1
                          \/ \E w \in 0 .. Words - 1 : k = Direct + w
  /\ 0 .. Direct - 1 \subseteq DataSlots
  /\ \A w \in 0 .. Words - 1 : Direct + w \in DataSlots
<1>1. DataSlots \subseteq Slots /\ Direct + Words \notin DataSlots
  BY Layout DEF DataSlots, Slots
<1>2. 0 .. Direct - 1 \subseteq DataSlots /\ \A w \in 0 .. Words - 1 : Direct + w \in DataSlots
  BY Layout DEF DataSlots
<1> QED BY <1>1, <1>2, SlotKinds

LEMMA PointerForms ==
  ASSUME NEW n, NEW d
  PROVE  /\ \A k \in 0 .. Direct - 1 : PointerOf(n, d, k) = n.direct[k]
         /\ PointerOf(n, d, Direct + Words) = n.indirect
         /\ \A w \in 0 .. Words - 1 :
              PointerOf(n, d, Direct + w) = IF n.indirect = 0 THEN 0 ELSE d[n.indirect][w]
<1>1. \A k \in 0 .. Direct - 1 : k < Direct /\ k # Direct + Words
  BY Layout
<1>2. ~ (Direct + Words < Direct)
  BY Layout
<1>3. \A w \in 0 .. Words - 1 :
        /\ ~ (Direct + w < Direct) /\ Direct + w # Direct + Words
        /\ (Direct + w) - Direct = w
  BY Layout
<1>4. \A k \in 0 .. Direct - 1 : PointerOf(n, d, k) = n.direct[k]
  BY <1>1 DEF PointerOf
<1>5. PointerOf(n, d, Direct + Words) = n.indirect
  BY <1>2 DEF PointerOf
<1>6. \A w \in 0 .. Words - 1 :
        PointerOf(n, d, Direct + w) = IF n.indirect = 0 THEN 0 ELSE d[n.indirect][w]
  BY <1>3 DEF PointerOf
<1> QED BY <1>4, <1>5, <1>6

\* An inode without pointers.
LEMMA NoPointers ==
  ASSUME NEW n, NEW d, n.indirect = 0, \A k \in 0 .. Direct - 1 : n.direct[k] = 0
  PROVE  \A k \in Slots : PointerOf(n, d, k) = 0
<1> TAKE k \in Slots
<1>1. CASE k \in 0 .. Direct - 1
  BY <1>1, PointerForms
<1>2. CASE k = Direct + Words
  BY <1>2, PointerForms
<1>3. ASSUME NEW w \in 0 .. Words - 1, k = Direct + w PROVE PointerOf(n, d, k) = 0
  BY <1>3, PointerForms
<1> QED BY <1>1, <1>2, <1>3, SlotKinds

LEMMA NoInodeIs ==
  /\ NoInode.valid = FALSE /\ NoInode.size = 0 /\ NoInode.indirect = 0
  /\ \A k \in 0 .. Direct - 1 : NoInode.direct[k] = 0
  /\ \A d : \A k \in Slots : PointerOf(NoInode, d, k) = 0
  /\ \A s \in Setups : NoInode \in InodesOn(s)
<1>1. /\ NoInode.valid = FALSE /\ NoInode.size = 0 /\ NoInode.indirect = 0
      /\ \A k \in 0 .. Direct - 1 : NoInode.direct[k] = 0
  BY DEF NoInode
<1>2. \A d : \A k \in Slots : PointerOf(NoInode, d, k) = 0
  BY <1>1, NoPointers
<1>3. ASSUME NEW s \in Setups PROVE NoInode \in InodesOn(s)
  <2>1. 0 \in BlocksOn(s) /\ 0 \in 0 .. MaxSize
    BY SetupLayout, Layout
  <2> QED BY <2>1 DEF NoInode, InodesOn
<1> QED BY <1>1, <1>2, <1>3

LEMMA AtDirect ==
  ASSUME NEW I, NEW D, NEW j, NEW k \in 0 .. Direct - 1
  PROVE  At(I, D, j, k) = I[j].direct[k]
BY PointerForms DEF At

LEMMA AtIndirect ==
  ASSUME NEW I, NEW D, NEW j
  PROVE  At(I, D, j, Direct + Words) = I[j].indirect
BY PointerForms DEF At

LEMMA AtBehind ==
  ASSUME NEW I, NEW D, NEW j, NEW w \in 0 .. Words - 1
  PROVE  At(I, D, j, Direct + w) = IF I[j].indirect = 0 THEN 0 ELSE D[I[j].indirect][w]
BY PointerForms DEF At

\* What is known of a sound disk, point by point.
LEMMA SoundTyped ==
  ASSUME NEW s \in Setups, NEW I, NEW D, Sound(s, I, D)
  PROVE  /\ Typed(s, I, D) /\ DOMAIN I = Table(s) /\ DOMAIN D = {0} \cup DataOf(s)
         /\ \A i \in Table(s) : I[i] \in InodesOn(s)
         /\ \A b \in {0} \cup DataOf(s) : D[b] \in Contents
BY DEF Sound, Typed

LEMMA SoundEmpty ==
  ASSUME NEW s \in Setups, NEW I, NEW D, Sound(s, I, D)
  PROVE  \A i \in Table(s) : ~ I[i].valid => I[i] = NoInode
BY DEF Sound, EmptyUnlessValid, Typed

LEMMA SoundRange ==
  ASSUME NEW s \in Setups, NEW I, NEW D, Sound(s, I, D)
  PROVE  \A i \in Table(s), k \in Slots : At(I, D, i, k) \in {0} \cup DataOf(s)
BY DEF Sound, InRange, Typed

LEMMA SoundApart ==
  ASSUME NEW s \in Setups, NEW I, NEW D, Sound(s, I, D)
  PROVE  \A i, j \in Table(s), k, l \in Slots :
           At(I, D, i, k) # 0 /\ At(I, D, i, k) = At(I, D, j, l) => i = j /\ k = l
BY DEF Sound, Apart, Typed

LEMMA SoundClean ==
  ASSUME NEW s \in Setups, NEW I, NEW D, Sound(s, I, D)
  PROVE  LeavesNoData(s) => \A b \in DataOf(s) : b \notin Used(I, D) => D[b] = Zeros
BY DEF Sound, CleanOutside

LEMMA SoundReach ==
  ASSUME NEW s \in Setups, NEW I, NEW D, Sound(s, I, D)
  PROVE  HasRoom(s) => \A i \in Table(s), k \in Slots : At(I, D, i, k) # 0 => k \in Reach
BY DEF Sound, WithinReach, Typed

LEMMA UsedIs ==
  ASSUME NEW s \in Setups, NEW I, NEW D, Typed(s, I, D)
  PROVE  /\ \A b : b \in Used(I, D) <=>
                     b # 0 /\ \E i \in Table(s), k \in Slots : At(I, D, i, k) = b
         /\ \A i \in Table(s), k \in Slots :
              At(I, D, i, k) # 0 => At(I, D, i, k) \in Used(I, D)
<1>1. DOMAIN I = Table(s)
  BY DEF Typed
<1> QED BY <1>1 DEF Used

LEMMA UsedInData ==
  ASSUME NEW s \in Setups, NEW I, NEW D, Sound(s, I, D)
  PROVE  Used(I, D) \subseteq DataOf(s) /\ 0 \notin Used(I, D)
<1>1. Typed(s, I, D)
  BY DEF Sound
<1>2. \A i \in Table(s), k \in Slots : At(I, D, i, k) \in {0} \cup DataOf(s)
  BY SoundRange
<1>3. \A b : b \in Used(I, D) <=> b # 0 /\ \E i \in Table(s), k \in Slots : At(I, D, i, k) = b
  BY <1>1, UsedIs
<1> QED BY <1>2, <1>3

\* The parts of an inode of a sound disk.
LEMMA InodeIs ==
  ASSUME NEW s \in Setups, NEW n \in InodesOn(s)
  PROVE  /\ n.valid \in BOOLEAN /\ n.size \in 0 .. MaxSize /\ n.indirect \in BlocksOn(s)
         /\ n.direct \in [0 .. Direct - 1 -> BlocksOn(s)]
         /\ n = [valid |-> n.valid, size |-> n.size,
                 direct |-> n.direct, indirect |-> n.indirect]
BY DEF InodesOn

-----------------------------------------------------------------------------
(* What a change of the pointers leaves sound.                             *)

\* Pointers get lost, and all others stay what they are.
LEMMA Shrinks ==
  ASSUME NEW s \in Setups, NEW I, NEW D, NEW J, NEW E,
         Sound(s, I, D), Typed(s, J, E), EmptyUnlessValid(J),
         \A i \in Table(s), k \in Slots : At(J, E, i, k) \in {0, At(I, D, i, k)},
         LeavesNoData(s) => CleanOutside(s, J, E)
  PROVE  Sound(s, J, E)
<1>1. DOMAIN J = Table(s)
  BY DEF Typed
<1>2. InRange(s, J, E)
  <2>1. \A i \in Table(s), k \in Slots : At(I, D, i, k) \in {0} \cup DataOf(s)
    BY SoundRange
  <2>2. \A i \in Table(s), k \in Slots : At(J, E, i, k) \in {0} \cup DataOf(s)
    BY <2>1
  <2> QED BY <1>1, <2>2 DEF InRange
<1>3. Apart(J, E)
  <2>1. \A i, j \in Table(s), k, l \in Slots :
          At(I, D, i, k) # 0 /\ At(I, D, i, k) = At(I, D, j, l) => i = j /\ k = l
    BY SoundApart
  <2>2. ASSUME NEW i \in Table(s), NEW j \in Table(s), NEW k \in Slots, NEW l \in Slots,
               At(J, E, i, k) # 0, At(J, E, i, k) = At(J, E, j, l)
        PROVE  i = j /\ k = l
    <3>1. At(I, D, i, k) # 0 /\ At(I, D, i, k) = At(I, D, j, l)
      BY <2>2
    <3> QED BY <2>1, <3>1
  <2> QED BY <1>1, <2>2 DEF Apart
<1>4. HasRoom(s) => WithinReach(J, E)
  <2>1. SUFFICES ASSUME HasRoom(s) PROVE WithinReach(J, E)
    OBVIOUS
  <2>2. \A i \in Table(s), k \in Slots : At(I, D, i, k) # 0 => k \in Reach
    BY <2>1, SoundReach
  <2>3. \A i \in Table(s), k \in Slots : At(J, E, i, k) # 0 => k \in Reach
    BY <2>2
  <2> QED BY <1>1, <2>3 DEF WithinReach
<1> QED BY <1>2, <1>3, <1>4 DEF Sound

\* One slot gets a block that no file uses.
LEMMA Gains ==
  ASSUME NEW s \in Setups, NEW I, NEW D, NEW J, NEW E,
         NEW i \in Table(s), NEW k \in Slots, NEW a \in DataOf(s) \ Used(I, D),
         Sound(s, I, D), Typed(s, J, E), EmptyUnlessValid(J),
         At(I, D, i, k) = 0, At(J, E, i, k) = a,
         \A j \in Table(s), l \in Slots : j # i \/ l # k => At(J, E, j, l) = At(I, D, j, l),
         LeavesNoData(s) => \A b \in DataOf(s) \ Used(I, D) : b = a \/ E[b] = D[b],
         HasRoom(s) => k \in Reach
  PROVE  Sound(s, J, E) /\ Used(J, E) = Used(I, D) \cup {a}
<1>1. DOMAIN J = Table(s) /\ a # 0 /\ Typed(s, I, D)
  BY SetupLayout DEF Typed, Sound
<1>2. InRange(s, J, E)
  <2>1. \A j \in Table(s), l \in Slots : At(I, D, j, l) \in {0} \cup DataOf(s)
    BY SoundRange
  <2>2. \A j \in Table(s), l \in Slots : At(J, E, j, l) \in {0} \cup DataOf(s)
    BY <2>1
  <2> QED BY <1>1, <2>2 DEF InRange
<1>3. \A j \in Table(s), l \in Slots : At(I, D, j, l) # a
  BY <1>1, UsedIs
<1>4. Apart(J, E)
  <2>1. \A j, h \in Table(s), l, m \in Slots :
          At(I, D, j, l) # 0 /\ At(I, D, j, l) = At(I, D, h, m) => j = h /\ l = m
    BY SoundApart
  <2>2. ASSUME NEW j \in Table(s), NEW h \in Table(s), NEW l \in Slots, NEW m \in Slots,
               At(J, E, j, l) # 0, At(J, E, j, l) = At(J, E, h, m)
        PROVE  j = h /\ l = m
    <3>1. CASE j = i /\ l = k
      <4>1. At(J, E, h, m) = a
        BY <2>2, <3>1
      <4>2. ~ (h # i \/ m # k)
        <5> SUFFICES ASSUME h # i \/ m # k PROVE FALSE
          OBVIOUS
        <5>1. At(J, E, h, m) = At(I, D, h, m)
          OBVIOUS
        <5> QED BY <1>3, <4>1, <5>1
      <4> QED BY <3>1, <4>2
    <3>2. CASE h = i /\ m = k
      <4>1. At(J, E, j, l) = a
        BY <2>2, <3>2
      <4>2. ~ (j # i \/ l # k)
        <5> SUFFICES ASSUME j # i \/ l # k PROVE FALSE
          OBVIOUS
        <5>1. At(J, E, j, l) = At(I, D, j, l)
          OBVIOUS
        <5> QED BY <1>3, <4>1, <5>1
      <4> QED BY <3>2, <4>2
    <3>3. CASE (j # i \/ l # k) /\ (h # i \/ m # k)
      <4>1. At(J, E, j, l) = At(I, D, j, l) /\ At(J, E, h, m) = At(I, D, h, m)
        BY <3>3
      <4>2. At(I, D, j, l) # 0 /\ At(I, D, j, l) = At(I, D, h, m)
        BY <2>2, <4>1
      <4> QED BY <2>1, <4>2
    <3> QED BY <3>1, <3>2, <3>3
  <2> QED BY <1>1, <2>2 DEF Apart
<1>5. HasRoom(s) => WithinReach(J, E)
  <2>1. SUFFICES ASSUME HasRoom(s) PROVE WithinReach(J, E)
    OBVIOUS
  <2>2. \A j \in Table(s), l \in Slots : At(I, D, j, l) # 0 => l \in Reach
    BY <2>1, SoundReach
  <2>3. \A j \in Table(s), l \in Slots : At(J, E, j, l) # 0 => l \in Reach
    BY <2>1, <2>2
  <2> QED BY <1>1, <2>3 DEF WithinReach
<1>6. Used(J, E) = Used(I, D) \cup {a}
  <2>1. \A b : b \in Used(I, D) <=>
                 b # 0 /\ \E j \in Table(s), l \in Slots : At(I, D, j, l) = b
    BY <1>1, UsedIs
  <2>2. \A b : b \in Used(J, E) <=>
                 b # 0 /\ \E j \in Table(s), l \in Slots : At(J, E, j, l) = b
    BY UsedIs
  <2>3. ASSUME NEW b \in Used(I, D) PROVE b \in Used(J, E)
    <3>1. PICK j \in Table(s), l \in Slots : At(I, D, j, l) = b /\ b # 0
      BY <2>1
    <3>2. j # i \/ l # k
      BY <3>1
    <3> QED BY <2>2, <3>1, <3>2
  <2>4. a \in Used(J, E)
    BY <1>1, <2>2
  <2>5. ASSUME NEW b \in Used(J, E), b # a PROVE b \in Used(I, D)
    <3>1. PICK j \in Table(s), l \in Slots : At(J, E, j, l) = b /\ b # 0
      BY <2>2
    <3>2. j # i \/ l # k
      BY <2>5, <3>1
    <3> QED BY <2>1, <3>1, <3>2
  <2> QED BY <2>3, <2>4, <2>5
<1>7. LeavesNoData(s) => CleanOutside(s, J, E)
  <2>1. SUFFICES ASSUME LeavesNoData(s), NEW b \in DataOf(s), b \notin Used(J, E)
                 PROVE  E[b] = Zeros
    BY DEF CleanOutside
  <2>2. b # a /\ b \notin Used(I, D)
    BY <1>6, <2>1
  <2>3. D[b] = Zeros
    BY <2>1, <2>2, SoundClean
  <2> QED BY <2>1, <2>2, <2>3
<1> QED BY <1>2, <1>4, <1>5, <1>6, <1>7 DEF Sound

\* A disk with room is not full while there is a slot within reach without a block.
LEMMA NotFull ==
  ASSUME NEW s \in Setups, NEW I, NEW D, Sound(s, I, D), HasRoom(s),
         NEW i \in Table(s), NEW k \in Reach, At(I, D, i, k) = 0
  PROVE  DataOf(s) \ Used(I, D) # {}
<1> DEFINE P == Table(s) \X Reach
           Q == P \ {<<i, k>>}
           f == [b \in DataOf(s) |-> CHOOSE p \in Q : At(I, D, p[1], p[2]) = b]
<1>1. SUFFICES ASSUME DataOf(s) \subseteq Used(I, D) PROVE FALSE
  OBVIOUS
<1>2. Reach \subseteq Slots /\ IsFiniteSet(Reach) /\ Cardinality(Reach) \in Nat
  <2>1. Reach \subseteq Slots
    BY DEF Reach
  <2>2. IsFiniteSet(Slots)
    BY Layout, FS_Interval DEF Slots
  <2>3. IsFiniteSet(Reach)
    BY <2>1, <2>2, FS_Subset
  <2> QED BY <2>1, <2>3, FS_CardinalityType
<1>3. IsFiniteSet(Table(s)) /\ Cardinality(Table(s)) = s.inodeBlocks * PerBlock
  <2> DEFINE n == s.inodeBlocks * PerBlock
  <2>1. n \in Nat \ {0}
    BY SetupLayout
  <2> HIDE DEF n
  <2>2. /\ IsFiniteSet(0 .. n - 1)
       /\ Cardinality(0 .. n - 1) = IF 0 > n - 1 THEN 0 ELSE (n - 1) - 0 + 1
    BY <2>1, FS_Interval
  <2>3. IsFiniteSet(0 .. n - 1) /\ Cardinality(0 .. n - 1) = n
    BY <2>1, <2>2
  <2> QED BY <2>3 DEF Table, n
<1>4. /\ IsFiniteSet(P)
      /\ Cardinality(P) = (s.inodeBlocks * PerBlock) * Cardinality(Reach)
  BY <1>2, <1>3, FS_Product
<1>5. <<i, k>> \in P
  OBVIOUS
<1>6. IsFiniteSet(Q) /\ Cardinality(Q) = Cardinality(P) - 1
  <2> HIDE DEF P
  <2> QED BY <1>4, <1>5, FS_RemoveElement
<1>7. Cardinality(DataOf(s)) = s.blocks - 1 - s.inodeBlocks
  <2>1. /\ s.inodeBlocks + 1 \in Int /\ s.blocks - 1 \in Int
        /\ s.inodeBlocks + 1 <= s.blocks - 1 /\ s.inodeBlocks \in Nat /\ s.blocks \in Nat
    BY SetupLayout
  <2> DEFINE lo == s.inodeBlocks + 1
             hi == s.blocks - 1
  <2>2. lo \in Int /\ hi \in Int /\ ~ (lo > hi) /\ hi - lo + 1 = s.blocks - 1 - s.inodeBlocks
    BY <2>1
  <2> HIDE DEF lo, hi
  <2>3. Cardinality(lo .. hi) = hi - lo + 1
    BY <2>2, FS_Interval
  <2> QED BY <2>2, <2>3 DEF DataOf, lo, hi
<1>8. Cardinality(Q) < Cardinality(DataOf(s))
  <2> DEFINE n == s.inodeBlocks * PerBlock
  <2>1. n * Cardinality(Reach) <= s.blocks - 1 - s.inodeBlocks
    BY DEF HasRoom
  <2>2. n * Cardinality(Reach) \in Nat
    <3>1. n \in Nat
      BY SetupLayout
    <3> HIDE DEF n
    <3> QED BY <1>2, <3>1
  <2> HIDE DEF P, Q, n
  <2>3. s.blocks - 1 - s.inodeBlocks \in Int
    BY SetupLayout
  <2>4. Cardinality(P) = n * Cardinality(Reach)
    BY <1>4 DEF n
  <2> QED BY <1>6, <1>7, <2>1, <2>2, <2>3, <2>4
<1>9. \A b \in DataOf(s) : \E p \in Q : At(I, D, p[1], p[2]) = b
  <2> SUFFICES ASSUME NEW b \in DataOf(s) PROVE \E p \in Q : At(I, D, p[1], p[2]) = b
    OBVIOUS
  <2>1. Typed(s, I, D)
    BY DEF Sound
  <2>2. PICK j \in Table(s), l \in Slots : At(I, D, j, l) = b /\ b # 0
    BY <1>1, <2>1, UsedIs
  <2>3. l \in Reach
    BY <2>2, SoundReach
  <2>4. <<j, l>> \in P /\ <<j, l>> # <<i, k>>
    BY <2>2, <2>3
  <2> QED BY <2>2, <2>4
<1>10. f \in [DataOf(s) -> Q] /\ \A b \in DataOf(s) : At(I, D, f[b][1], f[b][2]) = b
  <2> HIDE DEF Q
  <2> QED BY <1>9
<1>11. f \in Injection(DataOf(s), Q)
  <2> HIDE DEF f, Q
  <2>1. \A b, c \in DataOf(s) : f[b] = f[c] => b = c
    BY <1>10
  <2> QED BY <1>10, <2>1 DEF Injection, IsInjective
<1>12. Cardinality(DataOf(s)) <= Cardinality(Q)
  <2> HIDE DEF f, Q
  <2> QED BY <1>6, <1>11, FS_Injection
<1>13. Cardinality(Q) \in Nat /\ Cardinality(DataOf(s)) \in Int
  <2>1. Cardinality(Q) \in Nat
    <3> HIDE DEF Q
    <3> QED BY <1>6, FS_CardinalityType
  <2> QED BY <1>7, <2>1, SetupLayout
<1> QED
  <2> HIDE DEF Q
  <2> QED BY <1>8, <1>12, <1>13

-----------------------------------------------------------------------------
(* The courses of the calls, block by block.                               *)

\* The course of a format.
LEMMA FormatSteps ==
  ASSUME setup \in Setups
  PROVE  /\ FormatAfter[0] = Begin
         /\ \A k \in 1 .. setup.blocks - 1 : FormatAfter[k] = FormatBlock(FormatAfter[k - 1], k)
<1> DEFINE N == setup.blocks - 1
           Def(at, m) == [k \in 0 .. m |-> IF k = 0 THEN Begin ELSE FormatBlock(at[k - 1], k)]
           S == {m \in 0 .. N : \E at : at = Def(at, m)}
<1>1. N \in Nat
  BY SetupLayout
<1>2. 0 \in S
  <2> DEFINE at == [k \in 0 .. 0 |-> Begin]
  <2>1. at = Def(at, 0)
    OBVIOUS
  <2>2. \E a : a = Def(a, 0)
    <3> HIDE DEF at, Def
    <3> QED BY <2>1
  <2> HIDE DEF at, Def, N
  <2> QED BY <1>1, <2>2
<1>3. \A m \in 0 .. N - 1 : m \in S => m + 1 \in S
  <2> SUFFICES ASSUME NEW m \in 0 .. N - 1, m \in S PROVE m + 1 \in S
    OBVIOUS
  <2>1. PICK at : at = Def(at, m)
    OBVIOUS
  <2>2. m \in Nat /\ m + 1 \in Nat /\ m + 1 \in 0 .. N
    <3> HIDE DEF N
    <3> QED BY <1>1
  <2> DEFINE bt == [k \in 0 .. m + 1 |-> IF k <= m THEN at[k] ELSE FormatBlock(at[m], m + 1)]
  <2>3. \A k \in 0 .. m : bt[k] = at[k]
    BY <2>2
  <2>4. bt[m + 1] = FormatBlock(at[m], m + 1)
    BY <2>2
  <2>5. at[0] = Begin /\ \A k \in 1 .. m : at[k] = FormatBlock(at[k - 1], k)
    BY <2>1, <2>2
  <2>6. bt = [k \in 0 .. m + 1 |-> bt[k]]
    OBVIOUS
  <2> HIDE DEF bt
  <2>7. \A k \in 0 .. m + 1 : bt[k] = IF k = 0 THEN Begin ELSE FormatBlock(bt[k - 1], k)
    <3>1. bt[0] = Begin
      BY <2>2, <2>3, <2>5
    <3>2. \A k \in 1 .. m : k \in 0 .. m /\ k - 1 \in 0 .. m
      BY <2>2
    <3>3. \A k \in 1 .. m : bt[k] = FormatBlock(bt[k - 1], k)
      BY <2>3, <2>5, <3>2
    <3>4. (m + 1) - 1 = m /\ m \in 0 .. m /\ m + 1 # 0
      BY <2>2
    <3>5. bt[m + 1] = FormatBlock(bt[(m + 1) - 1], m + 1)
      BY <2>3, <2>4, <3>4
    <3>6. \A k \in 0 .. m + 1 : k = 0 \/ (k \in 1 .. m /\ k # 0) \/ k = m + 1
      BY <2>2
    <3> QED BY <3>1, <3>3, <3>4, <3>5, <3>6
  <2>8. bt = Def(bt, m + 1)
    BY <2>6, <2>7
  <2>9. \E a : a = Def(a, m + 1)
    <3> HIDE DEF Def
    <3> QED BY <2>8
  <2> HIDE DEF Def, N
  <2> QED BY <2>2, <2>9
<1>4. N \in S
  <2>1. 0 .. N \subseteq S
    <3> HIDE DEF S, N
    <3> QED BY <1>1, <1>2, <1>3, IntervalInduction
  <2> HIDE DEF S, N
  <2> QED BY <1>1, <2>1
<1>5. FormatAfter = CHOOSE at : at = Def(at, N)
  BY DEF FormatAfter
<1>6. FormatAfter = Def(FormatAfter, N)
  <2>1. \E at : at = Def(at, N)
    BY <1>4
  <2> HIDE DEF Def
  <2> QED BY <1>5, <2>1
<1>7. \A k \in 1 .. N : k \in 0 .. N /\ k # 0
  <2> HIDE DEF N
  <2> QED BY <1>1
<1>8. 0 \in 0 .. N
  <2> HIDE DEF N
  <2> QED BY <1>1
<1> QED BY <1>6, <1>7, <1>8

\* The course of a mount.
MountBegin == [Issue(Begin) EXCEPT !.mounted = TRUE, !.free = BitmapAllSet]

LEMMA MountSteps ==
  ASSUME setup \in Setups
  PROVE  /\ MountAfter[0] = MountBegin
         /\ \A k \in 1 .. setup.inodeBlocks * PerBlock :
              MountAfter[k] = MountInode(MountAfter[k - 1], k - 1)
<1> DEFINE N == setup.inodeBlocks * PerBlock
           Def(at, m) == [k \in 0 .. m |-> IF k = 0 THEN MountBegin
                                              ELSE MountInode(at[k - 1], k - 1)]
           S == {m \in 0 .. N : \E at : at = Def(at, m)}
<1>1. N \in Nat
  BY SetupLayout
<1>2. 0 \in S
  <2> DEFINE at == [k \in 0 .. 0 |-> MountBegin]
  <2>1. at = Def(at, 0)
    OBVIOUS
  <2>2. \E a : a = Def(a, 0)
    <3> HIDE DEF at, Def
    <3> QED BY <2>1
  <2> HIDE DEF at, Def, N
  <2> QED BY <1>1, <2>2
<1>3. \A m \in 0 .. N - 1 : m \in S => m + 1 \in S
  <2> SUFFICES ASSUME NEW m \in 0 .. N - 1, m \in S PROVE m + 1 \in S
    OBVIOUS
  <2>1. PICK at : at = Def(at, m)
    OBVIOUS
  <2>2. m \in Nat /\ m + 1 \in Nat /\ m + 1 \in 0 .. N
    <3> HIDE DEF N
    <3> QED BY <1>1
  <2> DEFINE bt == [k \in 0 .. m + 1 |-> IF k <= m THEN at[k]
                                            ELSE MountInode(at[m], m + 1 - 1)]
  <2>3. \A k \in 0 .. m : bt[k] = at[k]
    BY <2>2
  <2>4. bt[m + 1] = MountInode(at[m], m + 1 - 1)
    BY <2>2
  <2>5. at[0] = MountBegin /\ \A k \in 1 .. m : at[k] = MountInode(at[k - 1], k - 1)
    BY <2>1, <2>2
  <2>6. bt = [k \in 0 .. m + 1 |-> bt[k]]
    OBVIOUS
  <2> HIDE DEF bt
  <2>7. \A k \in 0 .. m + 1 : bt[k] = IF k = 0 THEN MountBegin
                                         ELSE MountInode(bt[k - 1], k - 1)
    <3>1. bt[0] = MountBegin
      BY <2>2, <2>3, <2>5
    <3>2. \A k \in 1 .. m : k \in 0 .. m /\ k - 1 \in 0 .. m
      BY <2>2
    <3>3. \A k \in 1 .. m : bt[k] = MountInode(bt[k - 1], k - 1)
      BY <2>3, <2>5, <3>2
    <3>4. (m + 1) - 1 = m /\ m \in 0 .. m /\ m + 1 # 0
      BY <2>2
    <3>5. bt[m + 1] = MountInode(bt[(m + 1) - 1], m + 1 - 1)
      BY <2>3, <2>4, <3>4
    <3>6. \A k \in 0 .. m + 1 : k = 0 \/ (k \in 1 .. m /\ k # 0) \/ k = m + 1
      BY <2>2
    <3> QED BY <3>1, <3>3, <3>4, <3>5, <3>6
  <2>8. bt = Def(bt, m + 1)
    BY <2>6, <2>7
  <2>9. \E a : a = Def(a, m + 1)
    <3> HIDE DEF Def
    <3> QED BY <2>8
  <2> HIDE DEF Def, N
  <2> QED BY <2>2, <2>9
<1>4. N \in S
  <2>1. 0 .. N \subseteq S
    <3> HIDE DEF S, N
    <3> QED BY <1>1, <1>2, <1>3, IntervalInduction
  <2> HIDE DEF S, N
  <2> QED BY <1>1, <2>1
<1>5. MountAfter = CHOOSE at : at = Def(at, N)
  BY DEF MountAfter, MountBegin
<1>6. MountAfter = Def(MountAfter, N)
  <2>1. \E at : at = Def(at, N)
    BY <1>4
  <2> HIDE DEF Def
  <2> QED BY <1>5, <2>1
<1>7. \A k \in 1 .. N : k \in 0 .. N /\ k # 0
  <2> HIDE DEF N
  <2> QED BY <1>1
<1>8. 0 \in 0 .. N
  <2> HIDE DEF N
  <2> QED BY <1>1
<1> QED BY <1>6, <1>7, <1>8

\* The course of a removal.
LEMMA RemoveSteps ==
  ASSUME NEW i
  PROVE  /\ RemoveAfter(i)[0] = Issue(Begin)
         /\ \A k \in 1 .. Direct + Words + 1 :
              RemoveAfter(i)[k] = Release(RemoveAfter(i)[k - 1], Pointer(i, SlotRemoved(k)))
<1> DEFINE N == Direct + Words + 1
           Def(at, m) == [k \in 0 .. m |-> IF k = 0 THEN Issue(Begin)
                                              ELSE Release(at[k - 1], Pointer(i, SlotRemoved(k)))]
           S == {m \in 0 .. N : \E at : at = Def(at, m)}
<1>1. N \in Nat
  BY Layout
<1>2. 0 \in S
  <2> DEFINE at == [k \in 0 .. 0 |-> Issue(Begin)]
  <2>1. at = Def(at, 0)
    OBVIOUS
  <2>2. \E a : a = Def(a, 0)
    <3> HIDE DEF at, Def
    <3> QED BY <2>1
  <2> HIDE DEF at, Def, N
  <2> QED BY <1>1, <2>2
<1>3. \A m \in 0 .. N - 1 : m \in S => m + 1 \in S
  <2> SUFFICES ASSUME NEW m \in 0 .. N - 1, m \in S PROVE m + 1 \in S
    OBVIOUS
  <2>1. PICK at : at = Def(at, m)
    OBVIOUS
  <2>2. m \in Nat /\ m + 1 \in Nat /\ m + 1 \in 0 .. N
    <3> HIDE DEF N
    <3> QED BY <1>1
  <2> DEFINE bt == [k \in 0 .. m + 1 |-> IF k <= m THEN at[k]
                                            ELSE Release(at[m], Pointer(i, SlotRemoved(m + 1)))]
  <2>3. \A k \in 0 .. m : bt[k] = at[k]
    BY <2>2
  <2>4. bt[m + 1] = Release(at[m], Pointer(i, SlotRemoved(m + 1)))
    BY <2>2
  <2>5. /\ at[0] = Issue(Begin)
        /\ \A k \in 1 .. m : at[k] = Release(at[k - 1], Pointer(i, SlotRemoved(k)))
    BY <2>1, <2>2
  <2>6. bt = [k \in 0 .. m + 1 |-> bt[k]]
    OBVIOUS
  <2> HIDE DEF bt
  <2>7. \A k \in 0 .. m + 1 : bt[k] = IF k = 0 THEN Issue(Begin)
                                         ELSE Release(bt[k - 1], Pointer(i, SlotRemoved(k)))
    <3>1. bt[0] = Issue(Begin)
      BY <2>2, <2>3, <2>5
    <3>2. \A k \in 1 .. m : k \in 0 .. m /\ k - 1 \in 0 .. m
      BY <2>2
    <3>3. \A k \in 1 .. m : bt[k] = Release(bt[k - 1], Pointer(i, SlotRemoved(k)))
      BY <2>3, <2>5, <3>2
    <3>4. (m + 1) - 1 = m /\ m \in 0 .. m /\ m + 1 # 0
      BY <2>2
    <3>5. bt[m + 1] = Release(bt[(m + 1) - 1], Pointer(i, SlotRemoved(m + 1)))
      BY <2>3, <2>4, <3>4
    <3>6. \A k \in 0 .. m + 1 : k = 0 \/ (k \in 1 .. m /\ k # 0) \/ k = m + 1
      BY <2>2
    <3> QED BY <3>1, <3>3, <3>4, <3>5, <3>6
  <2>8. bt = Def(bt, m + 1)
    BY <2>6, <2>7
  <2>9. \E a : a = Def(a, m + 1)
    <3> HIDE DEF Def
    <3> QED BY <2>8
  <2> HIDE DEF Def, N
  <2> QED BY <2>2, <2>9
<1>4. N \in S
  <2>1. 0 .. N \subseteq S
    <3> HIDE DEF S, N
    <3> QED BY <1>1, <1>2, <1>3, IntervalInduction
  <2> HIDE DEF S, N
  <2> QED BY <1>1, <2>1
<1>5. RemoveAfter(i) = CHOOSE at : at = Def(at, N)
  BY DEF RemoveAfter
<1>6. RemoveAfter(i) = Def(RemoveAfter(i), N)
  <2>1. \E at : at = Def(at, N)
    BY <1>4
  <2> HIDE DEF Def
  <2> QED BY <1>5, <2>1
<1>7. \A k \in 1 .. N : k \in 0 .. N /\ k # 0
  <2> HIDE DEF N
  <2> QED BY <1>1
<1>8. 0 \in 0 .. N
  <2> HIDE DEF N
  <2> QED BY <1>1
<1> QED BY <1>6, <1>7, <1>8

\* The course of a write.
WriteNth(c, off, n, d, k) == WriteBlock(c, FirstBlock(off) + k - 1,
                                        Content(off, n, d, FirstBlock(off) + k - 1))

LEMMA WriteSteps ==
  ASSUME NEW i, NEW off, NEW n, NEW d, BlockCount(off, n) \in Nat
  PROVE  /\ WriteAfter(i, off, n, d)[0] = WriteBegin(i)
         /\ \A k \in 1 .. BlockCount(off, n) :
              WriteAfter(i, off, n, d)[k] = WriteNth(WriteAfter(i, off, n, d)[k - 1], off, n, d, k)
<1> DEFINE N == BlockCount(off, n)
           Def(at, m) == [k \in 0 .. m |-> IF k = 0 THEN WriteBegin(i)
                                              ELSE WriteNth(at[k - 1], off, n, d, k)]
           S == {m \in 0 .. N : \E at : at = Def(at, m)}
<1>1. N \in Nat
  OBVIOUS
<1>2. 0 \in S
  <2> DEFINE at == [k \in 0 .. 0 |-> WriteBegin(i)]
  <2>1. at = Def(at, 0)
    OBVIOUS
  <2>2. \E a : a = Def(a, 0)
    <3> HIDE DEF at, Def
    <3> QED BY <2>1
  <2> HIDE DEF at, Def, N
  <2> QED BY <1>1, <2>2
<1>3. \A m \in 0 .. N - 1 : m \in S => m + 1 \in S
  <2> SUFFICES ASSUME NEW m \in 0 .. N - 1, m \in S PROVE m + 1 \in S
    OBVIOUS
  <2>1. PICK at : at = Def(at, m)
    OBVIOUS
  <2>2. m \in Nat /\ m + 1 \in Nat /\ m + 1 \in 0 .. N
    <3> HIDE DEF N
    <3> QED BY <1>1
  <2> DEFINE bt == [k \in 0 .. m + 1 |-> IF k <= m THEN at[k]
                                            ELSE WriteNth(at[m], off, n, d, m + 1)]
  <2>3. \A k \in 0 .. m : bt[k] = at[k]
    BY <2>2
  <2>4. bt[m + 1] = WriteNth(at[m], off, n, d, m + 1)
    BY <2>2
  <2>5. at[0] = WriteBegin(i) /\ \A k \in 1 .. m : at[k] = WriteNth(at[k - 1], off, n, d, k)
    BY <2>1, <2>2
  <2>6. bt = [k \in 0 .. m + 1 |-> bt[k]]
    OBVIOUS
  <2> HIDE DEF bt
  <2>7. \A k \in 0 .. m + 1 : bt[k] = IF k = 0 THEN WriteBegin(i)
                                         ELSE WriteNth(bt[k - 1], off, n, d, k)
    <3>1. bt[0] = WriteBegin(i)
      BY <2>2, <2>3, <2>5
    <3>2. \A k \in 1 .. m : k \in 0 .. m /\ k - 1 \in 0 .. m
      BY <2>2
    <3>3. \A k \in 1 .. m : bt[k] = WriteNth(bt[k - 1], off, n, d, k)
      BY <2>3, <2>5, <3>2
    <3>4. (m + 1) - 1 = m /\ m \in 0 .. m /\ m + 1 # 0
      BY <2>2
    <3>5. bt[m + 1] = WriteNth(bt[(m + 1) - 1], off, n, d, m + 1)
      BY <2>3, <2>4, <3>4
    <3>6. \A k \in 0 .. m + 1 : k = 0 \/ (k \in 1 .. m /\ k # 0) \/ k = m + 1
      BY <2>2
    <3> QED BY <3>1, <3>3, <3>4, <3>5, <3>6
  <2>8. bt = Def(bt, m + 1)
    BY <2>6, <2>7
  <2>9. \E a : a = Def(a, m + 1)
    <3> HIDE DEF Def
    <3> QED BY <2>8
  <2> HIDE DEF Def, N
  <2> QED BY <2>2, <2>9
<1>4. N \in S
  <2>1. 0 .. N \subseteq S
    <3> HIDE DEF S, N
    <3> QED BY <1>1, <1>2, <1>3, IntervalInduction
  <2> HIDE DEF S, N
  <2> QED BY <1>1, <2>1
<1>5. WriteAfter(i, off, n, d) = CHOOSE at : at = Def(at, N)
  BY DEF WriteAfter, WriteNth
<1>6. WriteAfter(i, off, n, d) = Def(WriteAfter(i, off, n, d), N)
  <2>1. \E at : at = Def(at, N)
    BY <1>4
  <2> HIDE DEF Def
  <2> QED BY <1>5, <2>1
<1>7. \A k \in 1 .. N : k \in 0 .. N /\ k # 0
  <2> HIDE DEF N
  <2> QED BY <1>1
<1>8. 0 \in 0 .. N
  <2> HIDE DEF N
  <2> QED BY <1>1
<1> QED BY <1>6, <1>7, <1>8

-----------------------------------------------------------------------------
(* How a call ends.                                                        *)

IsSnapshot(x) ==
  x = [disk |-> x.disk, inodes |-> x.inodes, free |-> x.free, mounted |-> x.mounted]

\* A state between two calls: the disk is sound, and the bitmap agrees with it.
SoundState(s, x) ==
  /\ Sound(s, x.inodes, x.disk)
  /\ x.mounted \in BOOLEAN
  /\ x.free = IF x.mounted THEN DataOf(s) \ Used(x.inodes, x.disk) ELSE {}

\* Where a call may be cut off, it leaves a sound disk; where it may fail, the bitmap
\* agrees with it, too.
SoundCuts(s, call, cuts) ==
  \A x \in cuts : /\ IsSnapshot(x)
                  /\ call \in s.killed => Sound(s, x.inodes, x.disk)
                  /\ call \in s.failing => SoundState(s, x)

LEMMA RunKeeps ==
  ASSUME IInv, NEW call, NEW c, Run(call, c),
         SoundState(setup, c), SoundCuts(setup, call, c.cuts)
  PROVE  IInv'
<1>1. /\ setup \in Setups /\ setup' = setup /\ kills \in 0 .. MaxKills
      /\ Completes(c) \/ Fails(call, c) \/ Killed(call, c)
  BY DEF IInv, Run
<1>2. ASSUME NEW x, Leaves(x), SoundState(setup, x), kills' \in 0 .. MaxKills PROVE IInv'
  <2>1. /\ disk' = x.disk /\ inodes' = x.inodes /\ free' = x.free /\ mounted' = x.mounted
    BY <1>2 DEF Leaves
  <2>2. Sound(setup', inodes', disk')
    BY <1>1, <1>2, <2>1 DEF SoundState
  <2>3. mounted' \in BOOLEAN
        /\ free' = IF mounted' THEN DataOf(setup') \ Used(inodes', disk') ELSE {}
    BY <1>1, <1>2, <2>1 DEF SoundState
  <2> QED BY <1>1, <1>2, <2>2, <2>3 DEF IInv
<1>3. CASE Completes(c)
  BY <1>1, <1>2, <1>3 DEF Completes
<1>4. CASE Fails(call, c)
  <2>1. PICK x \in c.cuts : Leaves(x)
    BY <1>4 DEF Fails
  <2>2. SoundState(setup, x) /\ kills' = kills
    BY <1>4, <2>1 DEF Fails, SoundCuts
  <2> QED BY <1>1, <1>2, <2>1, <2>2
<1>5. CASE Killed(call, c)
  <2>1. PICK x \in c.cuts : Leaves([x EXCEPT !.free = {}, !.mounted = FALSE])
    BY <1>5 DEF Killed
  <2>2. IsSnapshot(x) /\ Sound(setup, x.inodes, x.disk)
    BY <1>5, <2>1 DEF Killed, SoundCuts
  <2> DEFINE y == [x EXCEPT !.free = {}, !.mounted = FALSE]
  <2>3. y.disk = x.disk /\ y.inodes = x.inodes /\ y.free = {} /\ y.mounted = FALSE
    BY <2>2 DEF IsSnapshot
  <2>4. SoundState(setup, y)
    <3> HIDE DEF y
    <3> QED BY <2>2, <2>3 DEF SoundState
  <2>5. kills' \in 0 .. MaxKills
    <3>1. kills < MaxKills /\ kills' = kills + 1
      BY <1>5 DEF Killed
    <3> QED BY <1>1, <3>1, Layout
  <2> HIDE DEF y
  <2>6. Leaves(y)
    BY <2>1 DEF y
  <2> QED BY <1>2, <2>4, <2>5, <2>6
<1> QED BY <1>1, <1>3, <1>4, <1>5

\* The parts of the invariant.
LEMMA Parts ==
  ASSUME IInv
  PROVE  /\ setup \in Setups /\ Sound(setup, inodes, disk)
         /\ Inode = Table(setup) /\ DataBlocks = DataOf(setup)
         /\ mounted \in BOOLEAN
         /\ free = IF mounted THEN DataOf(setup) \ Used(inodes, disk) ELSE {}
         /\ SoundState(setup, Begin)
<1>1. /\ setup \in Setups /\ Sound(setup, inodes, disk) /\ mounted \in BOOLEAN
      /\ free = IF mounted THEN DataOf(setup) \ Used(inodes, disk) ELSE {}
  BY DEF IInv
<1>2. DOMAIN inodes = Table(setup) /\ DOMAIN disk = {0} \cup DataOf(setup)
  BY <1>1, SoundTyped
<1>3. Inode = Table(setup) /\ DataBlocks = DataOf(setup)
  BY <1>1, <1>2, SetupLayout DEF Inode, DataBlocks
<1>4. SoundState(setup, Begin)
  BY <1>1 DEF SoundState, Begin
<1> QED BY <1>1, <1>3, <1>4

-----------------------------------------------------------------------------
(* fs_format.                                                              *)

\* The disk when the blocks up to b have been overwritten.
FormatInodes(b) == [i \in Inode |-> IF TableBlock(i) <= b THEN NoInode ELSE inodes[i]]
FormatDisk(b)   == [x \in DOMAIN disk |-> IF x \in 1 .. b THEN Zeros ELSE disk[x]]
FormatShot(b)   == [disk |-> FormatDisk(b), inodes |-> FormatInodes(b), free |-> free,
                    mounted |-> mounted]
FormatForm(b)   == [disk |-> FormatDisk(b), inodes |-> FormatInodes(b), free |-> free,
                    mounted |-> mounted, cuts |-> {FormatShot(e) : e \in 0 .. b - 1}]

LEMMA FormatForms ==
  ASSUME IInv
  PROVE  \A b \in 0 .. setup.blocks - 1 : FormatAfter[b] = FormatForm(b)
<1> DEFINE N == setup.blocks - 1
           S == {b \in 0 .. N : FormatAfter[b] = FormatForm(b)}
<1>1. setup \in Setups /\ N \in Nat /\ setup.inodeBlocks \in Nat
  BY Parts, SetupLayout
<1>2. /\ Inode = Table(setup) /\ DOMAIN inodes = Table(setup) /\ DataBlocks = DataOf(setup)
      /\ DOMAIN disk = {0} \cup DataOf(setup) /\ 0 \notin DataOf(setup)
      /\ \A i \in Inode : TableBlock(i) \in 1 .. setup.inodeBlocks
  BY <1>1, Parts, SoundTyped, TableBlocks, SetupLayout
<1>3. /\ FormatAfter[0] = Begin
      /\ \A b \in 1 .. N : FormatAfter[b] = FormatBlock(FormatAfter[b - 1], b)
  BY <1>1, FormatSteps
<1>4. 0 \in S
  <2>1. FormatInodes(0) = inodes
    <3>1. \A i \in Inode : ~ (TableBlock(i) <= 0)
      BY <1>1, <1>2
    <3>2. inodes = [i \in Inode |-> inodes[i]]
      BY <1>1, <1>2, Parts DEF Sound, Typed
    <3> QED BY <3>1, <3>2 DEF FormatInodes
  <2>2. FormatDisk(0) = disk
    <3>1. disk = [x \in DOMAIN disk |-> disk[x]]
      BY <1>1, <1>2, Parts DEF Sound, Typed
    <3>2. 1 .. 0 = {}
      OBVIOUS
    <3> QED BY <3>1, <3>2 DEF FormatDisk
  <2>3. {FormatShot(e) : e \in 0 .. 0 - 1} = {}
    OBVIOUS
  <2>4. FormatForm(0) = Begin
    BY <2>1, <2>2, <2>3 DEF FormatForm, Begin
  <2> QED BY <1>1, <1>3, <2>4
<1>5. \A b \in 0 .. N - 1 : b \in S => b + 1 \in S
  <2> SUFFICES ASSUME NEW b \in 0 .. N - 1, FormatAfter[b] = FormatForm(b)
               PROVE  FormatAfter[b + 1] = FormatForm(b + 1)
    BY <1>1
  <2> DEFINE c == FormatForm(b)
             cuts == {FormatShot(e) : e \in 0 .. b}
  <2>1. b \in Nat /\ b + 1 \in 1 .. N /\ (b + 1) - 1 = b
    BY <1>1
  <2>2. FormatAfter[b + 1] = FormatBlock(c, b + 1)
    BY <1>3, <2>1
  <2>3. /\ c = [disk |-> FormatDisk(b), inodes |-> FormatInodes(b), free |-> free,
                mounted |-> mounted, cuts |-> c.cuts]
        /\ c.cuts = {FormatShot(e) : e \in 0 .. b - 1}
    BY DEF FormatForm
  <2>4. c.cuts \cup {FormatShot(b)} = cuts
    <3>1. \A e : e \in 0 .. b <=> e \in 0 .. b - 1 \/ e = b
      BY <2>1
    <3> QED BY <2>3, <3>1
  <2>5. Snapshot(c) = FormatShot(b)
    BY <2>3 DEF Snapshot, FormatShot
  <2> HIDE DEF c, cuts
  <2>6. Issue(c) = [disk |-> FormatDisk(b), inodes |-> FormatInodes(b), free |-> free,
                    mounted |-> mounted, cuts |-> cuts]
    BY <2>3, <2>4, <2>5 DEF Issue
  <2>7. FormatForm(b + 1) = [disk |-> FormatDisk(b + 1), inodes |-> FormatInodes(b + 1),
                             free |-> free, mounted |-> mounted, cuts |-> cuts]
    BY <2>1 DEF FormatForm, cuts
  <2>8. CASE b + 1 \in DataBlocks
    <3>1. FormatInodes(b + 1) = FormatInodes(b)
      <4>1. setup.inodeBlocks <= b
        BY <1>1, <1>2, <2>1, <2>8, SetupLayout DEF DataOf
      <4>2. \A i \in Inode : TableBlock(i) <= b /\ TableBlock(i) <= b + 1
        BY <1>1, <1>2, <2>1, <4>1
      <4> QED BY <4>2 DEF FormatInodes
    <3>2. FormatDisk(b + 1) = [FormatDisk(b) EXCEPT ![b + 1] = Zeros]
      <4>1. b + 1 \in DOMAIN disk
        BY <2>8 DEF DataBlocks
      <4>2. \A x : x \in 1 .. b + 1 <=> x \in 1 .. b \/ x = b + 1
        BY <2>1
      <4> QED BY <4>1, <4>2 DEF FormatDisk
    <3>3. FormatBlock(c, b + 1) = Put(c, b + 1, Zeros)
      BY <2>8 DEF FormatBlock
    <3>4. Put(c, b + 1, Zeros) =
            [disk |-> [FormatDisk(b) EXCEPT ![b + 1] = Zeros], inodes |-> FormatInodes(b),
             free |-> free, mounted |-> mounted, cuts |-> cuts]
      BY <2>6 DEF Put
    <3> QED BY <2>2, <2>7, <3>1, <3>2, <3>3, <3>4
  <2>9. CASE b + 1 \notin DataBlocks
    <3>1. FormatDisk(b + 1) = FormatDisk(b)
      <4>1. b + 1 \notin DOMAIN disk
        BY <2>1, <2>9 DEF DataBlocks
      <4>2. \A x \in DOMAIN disk : x \in 1 .. b + 1 <=> x \in 1 .. b
        BY <2>1, <4>1
      <4> QED BY <4>2 DEF FormatDisk
    <3>2. FormatInodes(b + 1) =
            [i \in Inode |-> IF TableBlock(i) = b + 1 THEN NoInode ELSE FormatInodes(b)[i]]
      <4>1. \A i \in Inode :
              TableBlock(i) <= b + 1 <=> TableBlock(i) = b + 1 \/ TableBlock(i) <= b
        BY <1>1, <1>2, <2>1
      <4>2. \A i \in Inode :
              FormatInodes(b)[i] = IF TableBlock(i) <= b THEN NoInode ELSE inodes[i]
        BY DEF FormatInodes
      <4>3. \A i \in Inode : (IF TableBlock(i) <= b + 1 THEN NoInode ELSE inodes[i]) =
                             (IF TableBlock(i) = b + 1 THEN NoInode ELSE FormatInodes(b)[i])
        BY <4>1, <4>2
      <4> QED BY <4>3 DEF FormatInodes
    <3>3. FormatBlock(c, b + 1) = [Issue(c) EXCEPT !.inodes = FormatInodes(b + 1)]
      <4>1. c.inodes = FormatInodes(b)
        BY <2>3
      <4> QED BY <2>9, <3>2, <4>1 DEF FormatBlock
    <3>4. FormatBlock(c, b + 1) =
            [disk |-> FormatDisk(b), inodes |-> FormatInodes(b + 1), free |-> free,
             mounted |-> mounted, cuts |-> cuts]
      BY <2>6, <3>3
    <3> QED BY <2>2, <2>7, <3>1, <3>4
  <2> QED BY <2>8, <2>9
<1>6. 0 .. N \subseteq S
  <2> HIDE DEF S, N
  <2> QED BY <1>1, <1>4, <1>5, IntervalInduction
<1> QED BY <1>6

\* What a format has done by then is sound; if it is cut off, on a disk with room.
LEMMA FormatSound ==
  ASSUME IInv, NEW b \in 0 .. setup.blocks - 1,
         b = setup.blocks - 1 \/ ~ LeavesNoData(setup)
  PROVE  Sound(setup, FormatInodes(b), FormatDisk(b))
<1> DEFINE I == FormatInodes(b)
           D == FormatDisk(b)
<1>1. /\ setup \in Setups /\ Sound(setup, inodes, disk) /\ b \in Nat
      /\ setup.inodeBlocks \in Nat /\ setup.blocks \in Nat /\ setup.inodeBlocks + 1 < setup.blocks
  BY Parts, SetupLayout
<1>2. /\ Inode = Table(setup) /\ DOMAIN disk = {0} \cup DataOf(setup)
      /\ \A i \in Table(setup) : inodes[i] \in InodesOn(setup)
      /\ \A x \in {0} \cup DataOf(setup) : disk[x] \in Contents
      /\ \A i \in Table(setup) : TableBlock(i) \in 1 .. setup.inodeBlocks
  BY <1>1, Parts, SoundTyped, TableBlocks
<1>3. /\ \A i \in Table(setup) : I[i] = IF TableBlock(i) <= b THEN NoInode ELSE inodes[i]
      /\ \A x \in {0} \cup DataOf(setup) : D[x] = IF x \in 1 .. b THEN Zeros ELSE disk[x]
      /\ DOMAIN I = Table(setup) /\ DOMAIN D = {0} \cup DataOf(setup)
  BY <1>2 DEF FormatInodes, FormatDisk
<1>4. Typed(setup, I, D)
  <2>1. Zeros \in Contents
    BY DEF Zeros, Contents
  <2>2. \A i \in Table(setup) : I[i] \in InodesOn(setup)
    BY <1>1, <1>2, <1>3, NoInodeIs
  <2>3. \A x \in {0} \cup DataOf(setup) : D[x] \in Contents
    BY <1>2, <1>3, <2>1
  <2>4. I = [i \in Table(setup) |-> I[i]] /\ D = [x \in {0} \cup DataOf(setup) |-> D[x]]
    BY <1>2 DEF FormatInodes, FormatDisk
  <2> HIDE DEF I, D
  <2> QED BY <2>2, <2>3, <2>4 DEF Typed
<1> HIDE DEF I, D
<1>5. EmptyUnlessValid(I)
  <2>1. \A i \in Table(setup) : ~ inodes[i].valid => inodes[i] = NoInode
    BY <1>1, SoundEmpty
  <2> QED BY <1>3, <2>1 DEF EmptyUnlessValid
<1>6. ASSUME NEW i \in Table(setup), NEW k \in Slots
      PROVE  At(I, D, i, k) \in {0, At(inodes, disk, i, k)}
  <2>1. CASE TableBlock(i) <= b
    <3>1. I[i] = NoInode
      BY <1>3, <2>1
    <3> QED BY <3>1, NoInodeIs DEF At
  <2>2. CASE ~ (TableBlock(i) <= b)
    <3>1. I[i] = inodes[i] /\ b < setup.inodeBlocks
      BY <1>1, <1>2, <1>3, <2>2
    <3>2. D = disk
      <4>1. \A x \in {0} \cup DataOf(setup) : x \notin 1 .. b
        BY <1>1, <3>1 DEF DataOf
      <4>2. \A x \in {0} \cup DataOf(setup) : D[x] = disk[x]
        BY <1>3, <4>1
      <4>3. /\ D = [x \in {0} \cup DataOf(setup) |-> D[x]]
            /\ disk = [x \in {0} \cup DataOf(setup) |-> disk[x]]
        BY <1>1, <1>4, SoundTyped DEF Typed
      <4> QED BY <4>2, <4>3
    <3> QED BY <3>1, <3>2 DEF At
  <2> QED BY <2>1, <2>2
<1>7. LeavesNoData(setup) => CleanOutside(setup, I, D)
  <2>1. SUFFICES ASSUME LeavesNoData(setup), NEW x \in DataOf(setup) PROVE D[x] = Zeros
    BY DEF CleanOutside
  <2>2. x \in 1 .. b
    BY <1>1, <2>1 DEF DataOf
  <2> QED BY <1>3, <2>2
<1>8. Sound(setup, I, D)
  BY <1>1, <1>4, <1>5, <1>6, <1>7, Shrinks
<1> QED BY <1>8 DEF I, D

\* A setup allows what Careful says.
LEMMA Cautious ==
  ASSUME Careful, NEW s \in Setups
  PROVE  /\ s.failing \subseteq {"format", "create"}
         /\ LeavesNoData(s) \/ HasRoom(s)
         /\ "format" \in s.failing => ~ LeavesNoData(s)
         /\ "format" \in s.killed => ~ LeavesNoData(s)
         /\ "write" \in s.killed => ~ LeavesNoData(s)
BY DEF Careful, LeavesNoData

LEMMA FormatKeeps ==
  ASSUME Careful, IInv, fs_format
  PROVE  IInv'
<1> DEFINE N == setup.blocks - 1
           c == FormatForm(N)
<1>1. /\ setup \in Setups /\ N \in 0 .. setup.blocks - 1 /\ N \in Nat
      /\ mounted = FALSE /\ free = {}
      /\ Run("format", c)
  <2>1. setup \in Setups /\ N \in 0 .. setup.blocks - 1 /\ N \in Nat
    BY Parts, SetupLayout
  <2>2. FormatAfter[N] = c
    BY <2>1, FormatForms
  <2>3. ~ mounted /\ Run("format", FormatAfter[N])
    BY DEF fs_format
  <2>4. mounted = FALSE /\ free = {}
    BY <2>3, Parts
  <2> QED BY <2>1, <2>2, <2>3, <2>4
<1>2. ASSUME NEW b \in 0 .. N, b = N \/ ~ LeavesNoData(setup)
      PROVE  SoundState(setup, FormatShot(b)) /\ IsSnapshot(FormatShot(b))
  <2>1. Sound(setup, FormatInodes(b), FormatDisk(b))
    BY <1>2, FormatSound
  <2> QED BY <1>1, <2>1 DEF SoundState, FormatShot, IsSnapshot
<1>3. SoundState(setup, c)
  <2>1. SoundState(setup, FormatShot(N))
    BY <1>1, <1>2
  <2> QED BY <2>1 DEF SoundState, FormatShot, FormatForm
<1>4. SoundCuts(setup, "format", c.cuts)
  <2> SUFFICES ASSUME NEW x \in c.cuts
               PROVE  /\ IsSnapshot(x)
                      /\ "format" \in setup.killed => Sound(setup, x.inodes, x.disk)
                      /\ "format" \in setup.failing => SoundState(setup, x)
    BY DEF SoundCuts
  <2>1. PICK b \in 0 .. N - 1 : x = FormatShot(b)
    BY DEF FormatForm
  <2>2. b \in 0 .. N
    BY <1>1
  <2>3. ~ LeavesNoData(setup) => SoundState(setup, x)
    BY <1>2, <2>1, <2>2
  <2>4. IsSnapshot(x)
    BY <2>1 DEF IsSnapshot, FormatShot
  <2>5. ~ LeavesNoData(setup) => Sound(setup, x.inodes, x.disk)
    BY <2>3 DEF SoundState
  <2> QED BY <1>1, <2>3, <2>4, <2>5, Cautious
<1> QED
  <2> HIDE DEF c
  <2> QED BY <1>1, <1>3, <1>4, RunKeeps

-----------------------------------------------------------------------------
(* fs_mount, fs_unmount and fs_create.                                     *)

IsCourse(c) == c = [disk |-> c.disk, inodes |-> c.inodes, free |-> c.free,
                    mounted |-> c.mounted, cuts |-> c.cuts]

\* A disk operation of a call, which has changed nothing on the disk so far.
SameDisk(c) == /\ c.disk = disk /\ c.inodes = inodes
               /\ \A x \in c.cuts : IsSnapshot(x) /\ x.disk = disk /\ x.inodes = inodes

LEMMA IssueIs ==
  ASSUME NEW c, IsCourse(c)
  PROVE  /\ IsCourse(Issue(c))
         /\ Issue(c).disk = c.disk /\ Issue(c).inodes = c.inodes /\ Issue(c).free = c.free
         /\ Issue(c).mounted = c.mounted
         /\ Issue(c).cuts = c.cuts \cup {Snapshot(c)}
         /\ IsSnapshot(Snapshot(c))
         /\ Snapshot(c).disk = c.disk /\ Snapshot(c).inodes = c.inodes
         /\ Snapshot(c).free = c.free /\ Snapshot(c).mounted = c.mounted
<1>1. /\ IsSnapshot(Snapshot(c))
      /\ Snapshot(c).disk = c.disk /\ Snapshot(c).inodes = c.inodes
      /\ Snapshot(c).free = c.free /\ Snapshot(c).mounted = c.mounted
  BY DEF Snapshot, IsSnapshot
<1>2. Issue(c) = [disk |-> c.disk, inodes |-> c.inodes, free |-> c.free,
                  mounted |-> c.mounted, cuts |-> c.cuts \cup {Snapshot(c)}]
  BY DEF Issue, IsCourse
<1> QED BY <1>1, <1>2 DEF IsCourse

LEMMA BeginIs ==
  /\ IsCourse(Begin) /\ SameDisk(Begin)
  /\ Begin.disk = disk /\ Begin.inodes = inodes /\ Begin.free = free
  /\ Begin.mounted = mounted /\ Begin.cuts = {}
BY DEF Begin, IsCourse, SameDisk

\* A bitmap with the bits in M set instead.
Marked(c, M) == [c EXCEPT !.free = M]

LEMMA MarkedIs ==
  ASSUME NEW c, IsCourse(c), SameDisk(c), NEW M
  PROVE  /\ IsCourse(Marked(c, M)) /\ SameDisk(Marked(c, M)) /\ Marked(c, M).free = M
         /\ Marked(c, M).mounted = c.mounted
         /\ IsCourse(Issue(c)) /\ SameDisk(Issue(c)) /\ Issue(c).free = c.free
         /\ Issue(c).mounted = c.mounted
<1>1. Marked(c, M) = [disk |-> c.disk, inodes |-> c.inodes, free |-> M,
                      mounted |-> c.mounted, cuts |-> c.cuts]
  BY DEF Marked, IsCourse
<1>2. IsCourse(Marked(c, M)) /\ Marked(c, M).free = M /\ Marked(c, M).mounted = c.mounted
  BY <1>1 DEF IsCourse
<1>3. SameDisk(Marked(c, M))
  BY <1>1 DEF SameDisk
<1>4. SameDisk(Issue(c))
  BY IssueIs DEF SameDisk
<1> QED BY <1>2, <1>3, <1>4, IssueIs

\* The bits that are set when the first n inodes have been walked.
Unmarked(n) == {x \in 1 .. setup.blocks - 1 :
                  \A i \in 0 .. n - 1 : /\ i % PerBlock = 0 => x # TableBlock(i)
                                        /\ \A k \in Slots : x # At(inodes, disk, i, k)}

\* What an inode takes away from them.
Taken(i) == (IF i % PerBlock = 0 THEN {TableBlock(i)} ELSE {})
              \cup {At(inodes, disk, i, k) : k \in Slots}

LEMMA MountStep ==
  ASSUME IInv, NEW i \in Table(setup), NEW c, IsCourse(c), SameDisk(c), c.mounted = TRUE,
         c.free \subseteq 1 .. setup.blocks - 1
  PROVE  /\ IsCourse(MountInode(c, i)) /\ SameDisk(MountInode(c, i))
         /\ MountInode(c, i).mounted = TRUE
         /\ MountInode(c, i).free = c.free \ Taken(i)
<1> DEFINE n      == inodes[i]
           start  == IF i % PerBlock = 0 THEN Issue(Marked(c, c.free \ {TableBlock(i)})) ELSE c
           direct == Marked(start, start.free \ Range(n.direct))
           ind    == Issue(Marked(direct, direct.free \ {n.indirect}))
           all    == Marked(ind, ind.free \ PointersIn(n.indirect))
           T      == IF i % PerBlock = 0 THEN {TableBlock(i)} ELSE {}
           A      == {At(inodes, disk, i, k) : k \in Slots}
<1>1. /\ setup \in Setups /\ Sound(setup, inodes, disk)
      /\ n \in InodesOn(setup) /\ 0 \notin c.free
      /\ n.direct \in [0 .. Direct - 1 -> BlocksOn(setup)] /\ n.indirect \in BlocksOn(setup)
      /\ \A b \in DataOf(setup) : disk[b] \in Contents
  <2>1. setup \in Setups /\ Sound(setup, inodes, disk)
    BY Parts
  <2>2. n \in InodesOn(setup) /\ \A b \in DataOf(setup) : disk[b] \in Contents
    BY <2>1, SoundTyped
  <2>3. n.direct \in [0 .. Direct - 1 -> BlocksOn(setup)] /\ n.indirect \in BlocksOn(setup)
    BY <2>1, <2>2, InodeIs
  <2>4. 0 \notin c.free
    <3>1. 0 \notin 1 .. setup.blocks - 1
      OBVIOUS
    <3> QED BY <3>1
  <2> QED BY <2>1, <2>2, <2>3, <2>4
<1>2. /\ \A k \in 0 .. Direct - 1 : At(inodes, disk, i, k) = n.direct[k]
      /\ At(inodes, disk, i, Direct + Words) = n.indirect
      /\ \A w \in 0 .. Words - 1 : At(inodes, disk, i, Direct + w) =
                                     IF n.indirect = 0 THEN 0 ELSE disk[n.indirect][w]
  BY PointerForms DEF At
<1>3. MountInode(c, i) = IF ~ n.valid THEN start ELSE IF n.indirect = 0 THEN direct ELSE all
  BY DEF MountInode, Marked
<1>4. /\ IsCourse(start) /\ SameDisk(start) /\ start.mounted = TRUE
      /\ start.free = c.free \ T
  <2> DEFINE m == Marked(c, c.free \ {TableBlock(i)})
  <2>1. /\ IsCourse(m) /\ SameDisk(m) /\ m.mounted = TRUE /\ m.free = c.free \ {TableBlock(i)}
    BY MarkedIs
  <2> HIDE DEF m
  <2>2. /\ IsCourse(Issue(m)) /\ SameDisk(Issue(m)) /\ Issue(m).mounted = TRUE
        /\ Issue(m).free = c.free \ {TableBlock(i)}
    BY <2>1, MarkedIs
  <2>3. CASE i % PerBlock = 0
    BY <2>2, <2>3 DEF m
  <2>4. CASE i % PerBlock # 0
    BY <2>4
  <2> QED BY <2>3, <2>4
<1> HIDE DEF start
<1>5. /\ IsCourse(direct) /\ SameDisk(direct) /\ direct.mounted = TRUE
      /\ direct.free = start.free \ Range(n.direct)
  <2> DEFINE M == start.free \ Range(n.direct)
  <2>1. direct = Marked(start, M)
    OBVIOUS
  <2> HIDE DEF direct, M
  <2>2. IsCourse(start) /\ SameDisk(start) /\ start.mounted = TRUE
    BY <1>4
  <2>3. /\ IsCourse(direct) /\ SameDisk(direct) /\ direct.free = M
        /\ direct.mounted = start.mounted
    BY <2>1, <2>2, MarkedIs
  <2> QED BY <2>2, <2>3 DEF M
<1> HIDE DEF direct
<1>6. /\ IsCourse(ind) /\ SameDisk(ind) /\ ind.mounted = TRUE
      /\ ind.free = direct.free \ {n.indirect}
  <2> DEFINE m == Marked(direct, direct.free \ {n.indirect})
  <2>1. /\ IsCourse(m) /\ SameDisk(m) /\ m.mounted = TRUE
        /\ m.free = direct.free \ {n.indirect}
    BY <1>5, MarkedIs
  <2> HIDE DEF m
  <2>2. /\ IsCourse(Issue(m)) /\ SameDisk(Issue(m)) /\ Issue(m).mounted = TRUE
        /\ Issue(m).free = direct.free \ {n.indirect}
    BY <2>1, MarkedIs
  <2> QED BY <2>2 DEF m
<1> HIDE DEF ind
<1>7. /\ IsCourse(all) /\ SameDisk(all) /\ all.mounted = TRUE
      /\ all.free = ind.free \ PointersIn(n.indirect)
  BY <1>6, MarkedIs
<1> HIDE DEF all
<1>8. Range(n.direct) = {n.direct[k] : k \in 0 .. Direct - 1}
  BY <1>1 DEF Range
<1>9. 0 \notin start.free /\ 0 \notin direct.free
  BY <1>1, <1>4, <1>5
<1>10. Taken(i) = T \cup A
  BY DEF Taken
<1>11. CASE ~ n.valid
  <2>1. n = NoInode
    BY <1>1, <1>11, SoundEmpty
  <2>2. \A k \in Slots : At(inodes, disk, i, k) = 0
    BY <2>1, NoInodeIs DEF At
  <2>3. c.free \ T = c.free \ (T \cup A)
    BY <1>1, <2>2
  <2> QED BY <1>3, <1>4, <1>10, <1>11, <2>3
<1>12. CASE n.valid /\ n.indirect = 0
  <2>1. \A x \in c.free : x \in A <=> x \in Range(n.direct)
    <3> SUFFICES ASSUME NEW x \in c.free PROVE x \in A <=> x \in Range(n.direct)
      OBVIOUS
    <3>1. x # 0
      BY <1>1
    <3>2. ASSUME NEW k \in Slots, At(inodes, disk, i, k) = x PROVE x \in Range(n.direct)
      <4>1. CASE k \in 0 .. Direct - 1
        BY <1>2, <1>8, <3>2, <4>1
      <4>2. CASE k = Direct + Words
        BY <1>2, <1>12, <3>1, <3>2, <4>2
      <4>3. ASSUME NEW w \in 0 .. Words - 1, k = Direct + w PROVE FALSE
        BY <1>2, <1>12, <3>1, <3>2, <4>3
      <4> QED BY <4>1, <4>2, <4>3, SlotKinds
    <3>3. ASSUME x \in Range(n.direct) PROVE x \in A
      BY <1>2, <1>8, <3>3, SlotKinds
    <3> QED BY <3>2, <3>3
  <2>2. direct.free = c.free \ (T \cup A)
    BY <1>4, <1>5, <2>1
  <2> QED BY <1>3, <1>5, <1>10, <1>12, <2>2
<1>13. CASE n.valid /\ n.indirect # 0
  <2>1. n.indirect \in DataOf(setup)
    <3>1. At(inodes, disk, i, Direct + Words) \in {0} \cup DataOf(setup)
      BY <1>1, SlotKinds, SoundRange
    <3> QED BY <1>2, <1>13, <3>1
  <2>2. PointersIn(n.indirect) = {disk[n.indirect][w] : w \in 0 .. Words - 1}
    BY <1>1, <2>1 DEF PointersIn, Range, Contents
  <2>3. \A x : x \in A <=> \/ x \in Range(n.direct) \/ x = n.indirect
                           \/ x \in PointersIn(n.indirect)
    <3> SUFFICES ASSUME NEW x
                 PROVE  x \in A <=> \/ x \in Range(n.direct) \/ x = n.indirect
                                    \/ x \in PointersIn(n.indirect)
      OBVIOUS
    <3>1. ASSUME NEW k \in Slots, At(inodes, disk, i, k) = x
          PROVE  x \in Range(n.direct) \/ x = n.indirect \/ x \in PointersIn(n.indirect)
      <4>1. CASE k \in 0 .. Direct - 1
        BY <1>2, <1>8, <3>1, <4>1
      <4>2. CASE k = Direct + Words
        BY <1>2, <3>1, <4>2
      <4>3. ASSUME NEW w \in 0 .. Words - 1, k = Direct + w PROVE x \in PointersIn(n.indirect)
        BY <1>2, <1>13, <2>2, <3>1, <4>3
      <4> QED BY <4>1, <4>2, <4>3, SlotKinds
    <3>2. ASSUME x \in Range(n.direct) PROVE x \in A
      BY <1>2, <1>8, <3>2, SlotKinds
    <3>3. ASSUME x = n.indirect PROVE x \in A
      BY <1>2, <3>3, SlotKinds
    <3>4. ASSUME x \in PointersIn(n.indirect) PROVE x \in A
      BY <1>2, <1>13, <2>2, <3>4, SlotKinds
    <3> QED BY <3>1, <3>2, <3>3, <3>4
  <2>4. all.free = c.free \ (T \cup A)
    <3> HIDE DEF A
    <3> QED BY <1>4, <1>5, <1>6, <1>7, <2>3
  <2> QED BY <1>3, <1>7, <1>10, <1>13, <2>4
<1> QED
  <2>1. n.valid \in BOOLEAN
    BY <1>1, InodeIs
  <2> QED BY <1>11, <1>12, <1>13, <2>1

LEMMA MountForms ==
  ASSUME IInv
  PROVE  \A n \in 0 .. setup.inodeBlocks * PerBlock :
           /\ IsCourse(MountAfter[n]) /\ SameDisk(MountAfter[n])
           /\ MountAfter[n].mounted = TRUE /\ MountAfter[n].free = Unmarked(n)
<1> DEFINE N == setup.inodeBlocks * PerBlock
           Good(n) == /\ IsCourse(MountAfter[n]) /\ SameDisk(MountAfter[n])
                      /\ MountAfter[n].mounted = TRUE /\ MountAfter[n].free = Unmarked(n)
           S == {n \in 0 .. N : Good(n)}
<1>1. setup \in Setups /\ N \in Nat
  BY Parts, SetupLayout
<1>2. /\ MountAfter[0] = MountBegin
      /\ \A n \in 1 .. N : MountAfter[n] = MountInode(MountAfter[n - 1], n - 1)
  BY <1>1, MountSteps
<1>3. Table(setup) = 0 .. N - 1
  BY DEF Table
<1> HIDE DEF N
<1>4. 0 \in S
  <2>1. Unmarked(0) = BitmapAllSet
    BY DEF Unmarked, BitmapAllSet
  <2>2. IsCourse(Issue(Begin)) /\ SameDisk(Issue(Begin))
    BY BeginIs, MarkedIs
  <2> DEFINE b == Issue(Begin)
  <2>3. MountBegin = [disk |-> b.disk, inodes |-> b.inodes, free |-> BitmapAllSet,
                      mounted |-> TRUE, cuts |-> b.cuts]
    <3>1. MountBegin = [b EXCEPT !.mounted = TRUE, !.free = BitmapAllSet]
      BY DEF MountBegin
    <3>2. IsCourse(b)
      BY <2>2
    <3> HIDE DEF b
    <3> QED BY <3>1, <3>2 DEF IsCourse
  <2>4. IsCourse(MountBegin) /\ MountBegin.mounted = TRUE /\ MountBegin.free = BitmapAllSet
    BY <2>3 DEF IsCourse
  <2>5. SameDisk(MountBegin)
    BY <2>2, <2>3 DEF SameDisk
  <2> QED BY <1>1, <1>2, <2>1, <2>4, <2>5
<1>5. \A n \in 0 .. N - 1 : n \in S => n + 1 \in S
  <2> SUFFICES ASSUME NEW n \in 0 .. N - 1, Good(n) PROVE Good(n + 1) /\ n + 1 \in 0 .. N
    OBVIOUS
  <2> DEFINE c == MountAfter[n]
  <2>1. n + 1 \in 1 .. N /\ n + 1 \in 0 .. N /\ (n + 1) - 1 = n /\ n \in Table(setup)
    BY <1>1, <1>3
  <2>2. MountAfter[n + 1] = MountInode(c, n)
    BY <1>2, <2>1
  <2>3. IsCourse(c) /\ SameDisk(c) /\ c.mounted = TRUE /\ c.free = Unmarked(n)
    OBVIOUS
  <2>4. c.free \subseteq 1 .. setup.blocks - 1
    BY <2>3 DEF Unmarked
  <2> HIDE DEF c
  <2>5. /\ IsCourse(MountInode(c, n)) /\ SameDisk(MountInode(c, n))
        /\ MountInode(c, n).mounted = TRUE
        /\ MountInode(c, n).free = c.free \ Taken(n)
    BY <2>1, <2>3, <2>4, MountStep
  <2>6. Unmarked(n + 1) = Unmarked(n) \ Taken(n)
    <3>1. \A i : i \in 0 .. (n + 1) - 1 <=> i \in 0 .. n - 1 \/ i = n
      BY <1>1
    <3>2. \A x : x \notin Taken(n) <=> /\ n % PerBlock = 0 => x # TableBlock(n)
                                       /\ \A k \in Slots : x # At(inodes, disk, n, k)
      BY DEF Taken
    <3> QED BY <3>1, <3>2 DEF Unmarked
  <2> QED BY <2>1, <2>2, <2>3, <2>5, <2>6
<1>6. 0 .. N \subseteq S
  <2> HIDE DEF S
  <2> QED BY <1>1, <1>4, <1>5, IntervalInduction
<1> QED BY <1>6 DEF N

\* A mount marks what no file uses.
LEMMA MountMarks ==
  ASSUME IInv
  PROVE  Unmarked(setup.inodeBlocks * PerBlock) = DataOf(setup) \ Used(inodes, disk)
<1> DEFINE N == setup.inodeBlocks * PerBlock
<1>1. /\ setup \in Setups /\ Sound(setup, inodes, disk) /\ Typed(setup, inodes, disk)
      /\ Table(setup) = 0 .. N - 1
      /\ setup.inodeBlocks \in Nat /\ setup.blocks \in Nat /\ setup.inodeBlocks + 1 < setup.blocks
  BY Parts, SetupLayout DEF Table, Sound
<1>2. \A b : b \in Used(inodes, disk) <=>
               b # 0 /\ \E i \in Table(setup), k \in Slots : At(inodes, disk, i, k) = b
  <2>1. setup \in Setups /\ Typed(setup, inodes, disk)
    BY <1>1
  <2> QED BY <2>1, UsedIs
<1>3. /\ \A i \in Table(setup) : TableBlock(i) \in 1 .. setup.inodeBlocks
      /\ \A b \in 1 .. setup.inodeBlocks :
           \E i \in Table(setup) : TableBlock(i) = b /\ i % PerBlock = 0
  BY <1>1, TableBlocks
<1> HIDE DEF N
<1>4. ASSUME NEW x \in Unmarked(N) PROVE x \in DataOf(setup) \ Used(inodes, disk)
  <2>1. /\ x \in 1 .. setup.blocks - 1
        /\ \A i \in Table(setup) : /\ i % PerBlock = 0 => x # TableBlock(i)
                                   /\ \A k \in Slots : x # At(inodes, disk, i, k)
    BY <1>1 DEF Unmarked
  <2>2. x \notin 1 .. setup.inodeBlocks
    BY <1>3, <2>1
  <2>3. x \in DataOf(setup)
    BY <1>1, <2>1, <2>2 DEF DataOf
  <2> QED BY <1>2, <2>1, <2>3
<1>5. ASSUME NEW x \in DataOf(setup) \ Used(inodes, disk) PROVE x \in Unmarked(N)
  <2>1. x \in 1 .. setup.blocks - 1 /\ x \notin 1 .. setup.inodeBlocks /\ x # 0
    BY <1>1 DEF DataOf
  <2>2. \A i \in Table(setup) : x # TableBlock(i)
    BY <1>3, <2>1
  <2>3. \A i \in Table(setup), k \in Slots : x # At(inodes, disk, i, k)
    BY <1>2, <2>1
  <2> QED BY <1>1, <2>1, <2>2, <2>3 DEF Unmarked
<1> QED BY <1>4, <1>5 DEF N

LEMMA MountKeeps ==
  ASSUME Careful, IInv, fs_mount
  PROVE  IInv'
<1> DEFINE N == setup.inodeBlocks * PerBlock
           c == MountAfter[N]
<1>1. /\ setup \in Setups /\ Sound(setup, inodes, disk) /\ Run("mount", c)
      /\ N \in 0 .. N
  BY Parts, SetupLayout DEF fs_mount
<1>2. /\ IsCourse(c) /\ SameDisk(c) /\ c.mounted = TRUE
      /\ c.free = DataOf(setup) \ Used(inodes, disk)
  BY <1>1, MountForms, MountMarks
<1> HIDE DEF c
<1>3. SoundState(setup, c)
  BY <1>1, <1>2 DEF SoundState, SameDisk
<1>4. SoundCuts(setup, "mount", c.cuts)
  <2>1. "mount" \notin setup.failing
    BY <1>1, Cautious
  <2> QED BY <1>1, <1>2, <2>1 DEF SoundCuts, SameDisk
<1> QED BY <1>1, <1>3, <1>4, RunKeeps

LEMMA UnmountKeeps ==
  ASSUME IInv, fs_unmount
  PROVE  IInv'
BY DEF IInv, fs_unmount

\* An inode that is taken has no pointers yet.
LEMMA CreateKeeps ==
  ASSUME Careful, IInv, fs_create
  PROVE  IInv'
<1> DEFINE c == [Issue(Begin) EXCEPT !.inodes[Chosen].valid = TRUE]
           I == [inodes EXCEPT ![Chosen].valid = TRUE]
<1>1. /\ setup \in Setups /\ Sound(setup, inodes, disk) /\ Inode = Table(setup)
      /\ Run("create", c) /\ Inode \ Valid # {} /\ SoundState(setup, Begin)
  <2>1. Run("create", c) /\ Valid # Inode
    BY DEF fs_create
  <2>2. Inode \ Valid # {}
    BY <2>1 DEF Valid
  <2> QED BY <2>1, <2>2, Parts
<1>2. Chosen \in Table(setup) /\ ~ inodes[Chosen].valid
  <2>1. Inode \ Valid \in SUBSET Nat
    BY <1>1 DEF Table
  <2>2. Chosen \in Inode \ Valid
    BY <1>1, <2>1, MinOf DEF Chosen
  <2> QED BY <1>1, <2>2 DEF Valid
<1>3. inodes[Chosen] = NoInode
  BY <1>1, <1>2, SoundEmpty
<1>4. /\ DOMAIN inodes = Table(setup) /\ \A i \in Table(setup) : inodes[i] \in InodesOn(setup)
      /\ Typed(setup, inodes, disk)
  BY <1>1, SoundTyped
<1> DEFINE m == [NoInode EXCEPT !.valid = TRUE]
<1>5. m \in InodesOn(setup) /\ m.valid = TRUE /\ \A k \in Slots : PointerOf(m, disk, k) = 0
  <2> DEFINE e == [k \in 0 .. Direct - 1 |-> 0]
  <2>1. NoInode = [valid |-> FALSE, size |-> 0, direct |-> e, indirect |-> 0]
    BY DEF NoInode
  <2> HIDE DEF e, c, I
  <2>2. m = [valid |-> TRUE, size |-> NoInode.size, direct |-> NoInode.direct,
             indirect |-> NoInode.indirect]
    <3>1. PICK n, u : /\ n = NoInode
                      /\ n = [valid |-> u, size |-> 0, direct |-> e, indirect |-> 0]
      BY <2>1, Zenon
    <3>2. \A v : [n EXCEPT !.valid = v] = [valid |-> v, size |-> n.size,
                                          direct |-> n.direct, indirect |-> n.indirect]
      BY <3>1, SMT
    <3> QED BY <3>1, <3>2, Zenon
  <2>3. NoInode \in InodesOn(setup)
    BY <1>1, NoInodeIs
  <2>4. /\ NoInode.size \in 0 .. MaxSize /\ NoInode.indirect \in BlocksOn(setup)
        /\ NoInode.direct \in [0 .. Direct - 1 -> BlocksOn(setup)]
    BY <1>1, <2>3, InodeIs
  <2>5. m \in InodesOn(setup)
    BY <2>2, <2>4 DEF InodesOn
  <2>6. m.indirect = 0 /\ \A k \in 0 .. Direct - 1 : m.direct[k] = 0
    BY <2>2, NoInodeIs
  <2> HIDE DEF m
  <2>7. \A k \in Slots : PointerOf(m, disk, k) = 0
    BY <2>6, NoPointers
  <2> QED BY <2>2, <2>5, <2>7 DEF m
<1>6. I = [inodes EXCEPT ![Chosen] = m]
  BY <1>3
<1> HIDE DEF I, m
<1>7. /\ I \in [Table(setup) -> InodesOn(setup)] /\ I[Chosen] = m
      /\ \A i \in Table(setup) : i # Chosen => I[i] = inodes[i]
  BY <1>2, <1>4, <1>5, <1>6 DEF Typed
<1>8. \A i \in Table(setup), k \in Slots : At(I, disk, i, k) = At(inodes, disk, i, k)
  <2> SUFFICES ASSUME NEW i \in Table(setup), NEW k \in Slots
               PROVE  At(I, disk, i, k) = At(inodes, disk, i, k)
    OBVIOUS
  <2>1. CASE i = Chosen
    BY <1>3, <1>5, <1>7, <2>1, NoInodeIs DEF At
  <2>2. CASE i # Chosen
    BY <1>7, <2>2 DEF At
  <2> QED BY <2>1, <2>2
<1>9. Typed(setup, I, disk)
  BY <1>4, <1>7 DEF Typed
<1>10. Used(I, disk) = Used(inodes, disk)
  <2>1. \A b : b \in Used(I, disk) <=> b \in Used(inodes, disk)
    BY <1>1, <1>4, <1>8, <1>9, UsedIs
  <2> QED BY <2>1
<1>11. Sound(setup, I, disk)
  <2>1. EmptyUnlessValid(I)
    <3>1. \A i \in Table(setup) : ~ inodes[i].valid => inodes[i] = NoInode
      BY <1>1, SoundEmpty
    <3> QED BY <1>5, <1>7, <3>1 DEF EmptyUnlessValid
  <2>2. LeavesNoData(setup) => CleanOutside(setup, I, disk)
    BY <1>1, <1>10, SoundClean DEF CleanOutside
  <2> QED BY <1>1, <1>8, <1>9, <2>1, <2>2, Shrinks
<1>12. /\ IsCourse(Issue(Begin)) /\ Issue(Begin).disk = disk /\ Issue(Begin).inodes = inodes
       /\ Issue(Begin).free = free /\ Issue(Begin).mounted = mounted
       /\ Issue(Begin).cuts = {Snapshot(Begin)} /\ IsSnapshot(Snapshot(Begin))
       /\ Snapshot(Begin).disk = disk /\ Snapshot(Begin).inodes = inodes
       /\ Snapshot(Begin).free = free /\ Snapshot(Begin).mounted = mounted
  BY BeginIs, IssueIs
<1>13. c = [disk |-> disk, inodes |-> I, free |-> free, mounted |-> mounted,
            cuts |-> {Snapshot(Begin)}]
  <2> DEFINE b == Issue(Begin)
  <2>1. c = [b EXCEPT !.inodes[Chosen].valid = TRUE]
    OBVIOUS
  <2>2. /\ IsCourse(b) /\ b.disk = disk /\ b.inodes = inodes
        /\ b.free = free /\ b.mounted = mounted
        /\ b.cuts = {Snapshot(Begin)}
    BY <1>12
  <2> HIDE DEF b, c
  <2>3. b = [disk |-> disk, inodes |-> inodes, free |-> free, mounted |-> mounted,
             cuts |-> {Snapshot(Begin)}]
    BY <2>2 DEF IsCourse
  <2> QED BY <2>1, <2>3 DEF I
<1>14. /\ SoundState(setup, Snapshot(Begin))
       /\ Sound(setup, Snapshot(Begin).inodes, Snapshot(Begin).disk)
  BY <1>1, <1>12, BeginIs DEF SoundState
<1>15. SoundState(setup, c)
  <2>1. c.disk = disk /\ c.inodes = I /\ c.free = free /\ c.mounted = mounted
    BY <1>13
  <2> QED BY <1>1, <1>10, <1>11, <2>1, Parts DEF SoundState
<1>16. SoundCuts(setup, "create", c.cuts)
  BY <1>12, <1>13, <1>14 DEF SoundCuts
<1> HIDE DEF c
<1> QED BY <1>1, <1>15, <1>16, RunKeeps

-----------------------------------------------------------------------------
(* fs_remove.                                                              *)

\* A function with one other value.
With(f, x, v) == [f EXCEPT ![x] = v]

LEMMA PutIs ==
  ASSUME NEW c, IsCourse(c), NEW b, NEW v
  PROVE  /\ IsCourse(Put(c, b, v))
         /\ Put(c, b, v).disk = With(c.disk, b, v)
         /\ Put(c, b, v).inodes = c.inodes /\ Put(c, b, v).free = c.free
         /\ Put(c, b, v).mounted = c.mounted
         /\ Put(c, b, v).cuts = c.cuts \cup {Snapshot(c)}
<1> DEFINE e == Issue(c)
<1>1. /\ IsCourse(e) /\ e.disk = c.disk /\ e.inodes = c.inodes /\ e.free = c.free
      /\ e.mounted = c.mounted /\ e.cuts = c.cuts \cup {Snapshot(c)}
  BY IssueIs
<1>2. Put(c, b, v) = [e EXCEPT !.disk[b] = v]
  BY DEF Put
<1> HIDE DEF e
<1>3. Put(c, b, v) = [disk |-> [e.disk EXCEPT ![b] = v], inodes |-> e.inodes, free |-> e.free,
                      mounted |-> e.mounted, cuts |-> e.cuts]
  BY <1>1, <1>2 DEF IsCourse
<1> QED BY <1>1, <1>3 DEF IsCourse, With

LEMMA SaveIs ==
  ASSUME NEW c, IsCourse(c), NEW i, NEW n
  PROVE  /\ Save(c, i, n).disk = c.disk
         /\ Save(c, i, n).inodes = With(c.inodes, i, n) /\ Save(c, i, n).free = c.free
         /\ Save(c, i, n).mounted = c.mounted
         /\ Save(c, i, n).cuts = c.cuts \cup {Snapshot(c)}
<1> DEFINE e == Issue(c)
<1>1. /\ IsCourse(e) /\ e.disk = c.disk /\ e.inodes = c.inodes /\ e.free = c.free
      /\ e.mounted = c.mounted /\ e.cuts = c.cuts \cup {Snapshot(c)}
  BY IssueIs
<1>2. Save(c, i, n) = [e EXCEPT !.inodes[i] = n]
  BY DEF Save
<1> HIDE DEF e
<1>3. Save(c, i, n) = [disk |-> e.disk, inodes |-> [e.inodes EXCEPT ![i] = n], free |-> e.free,
                       mounted |-> e.mounted, cuts |-> e.cuts]
  BY <1>1, <1>2 DEF IsCourse
<1> QED BY <1>1, <1>3 DEF With

\* The order in which the slots are released.
LEMMA RemovalOrder ==
  /\ \A e \in 1 .. Direct + Words + 1 : SlotRemoved(e) \in Slots
  /\ \A k \in Slots : \E e \in 1 .. Direct + Words + 1 : SlotRemoved(e) = k
  /\ \A e \in 1 .. Direct + Words + 1 : SlotRemoved(e) = Direct + Words => e = Words + 1
  /\ \A w \in 0 .. Words - 1 : w + 1 \in 1 .. Words /\ SlotRemoved(w + 1) = Direct + w
<1>1. Direct \in Nat \ {0} /\ Words \in Nat \ {0}
  BY Layout
<1>2. \A e \in 1 .. Direct + Words + 1 : SlotRemoved(e) \in Slots
  BY <1>1 DEF SlotRemoved, Slots
<1>3. ASSUME NEW k \in Slots PROVE \E e \in 1 .. Direct + Words + 1 : SlotRemoved(e) = k
  <2>1. CASE k < Direct
    <3>1. k + Words + 2 \in 1 .. Direct + Words + 1 /\ SlotRemoved(k + Words + 2) = k
      BY <1>1, <2>1 DEF SlotRemoved, Slots
    <3> QED BY <3>1
  <2>2. CASE ~ (k < Direct)
    <3>1. k - Direct + 1 \in 1 .. Direct + Words + 1 /\ SlotRemoved(k - Direct + 1) = k
      BY <1>1, <2>2 DEF SlotRemoved, Slots
    <3> QED BY <3>1
  <2> QED BY <2>1, <2>2
<1>4. \A e \in 1 .. Direct + Words + 1 : SlotRemoved(e) = Direct + Words => e = Words + 1
  BY <1>1 DEF SlotRemoved
<1>5. \A w \in 0 .. Words - 1 : w + 1 \in 1 .. Words /\ SlotRemoved(w + 1) = Direct + w
  BY <1>1 DEF SlotRemoved
<1> QED BY <1>2, <1>3, <1>4, <1>5

\* The blocks released by then, and the disk.
Gone(i, m)  == {Pointer(i, SlotRemoved(e)) : e \in 1 .. m} \ {0}
Blanked(R)  == [x \in DOMAIN disk |-> IF x \in R THEN Zeros ELSE disk[x]]

RemovalForm(i, m, c) ==
  /\ IsCourse(c) /\ c.disk = Blanked(Gone(i, m)) /\ c.inodes = inodes
  /\ c.mounted = mounted /\ c.free = free \cup Gone(i, m)
  /\ \A x \in c.cuts : /\ IsSnapshot(x) /\ x.inodes = inodes
                       /\ \E e \in 0 .. Direct + Words + 1 : x.disk = Blanked(Gone(i, e))

LEMMA RemovalForms ==
  ASSUME IInv, NEW i \in Table(setup)
  PROVE  \A m \in 0 .. Direct + Words + 1 : RemovalForm(i, m, RemoveAfter(i)[m])
<1> DEFINE N == Direct + Words + 1
           S == {m \in 0 .. N : RemovalForm(i, m, RemoveAfter(i)[m])}
<1>1. /\ setup \in Setups /\ N \in Nat /\ DOMAIN disk = {0} \cup DataOf(setup)
      /\ disk = [x \in DOMAIN disk |-> disk[x]]
      /\ \A k \in Slots : Pointer(i, k) \in {0} \cup DataOf(setup)
  <2>1. setup \in Setups /\ N \in Nat /\ Sound(setup, inodes, disk)
    BY Parts, Layout
  <2>2. DOMAIN disk = {0} \cup DataOf(setup) /\ disk = [x \in DOMAIN disk |-> disk[x]]
    BY <2>1 DEF Sound, Typed
  <2>3. \A k \in Slots : At(inodes, disk, i, k) \in {0} \cup DataOf(setup)
    BY <2>1, SoundRange
  <2> QED BY <2>1, <2>2, <2>3 DEF Pointer, At
<1>2. /\ RemoveAfter(i)[0] = Issue(Begin)
      /\ \A m \in 1 .. N :
           RemoveAfter(i)[m] = Release(RemoveAfter(i)[m - 1], Pointer(i, SlotRemoved(m)))
  BY RemoveSteps
<1>3. \A e \in 1 .. N : SlotRemoved(e) \in Slots
  BY RemovalOrder
<1>4. Gone(i, 0) = {}
  BY DEF Gone
<1> HIDE DEF N
<1>5. 0 \in S
  <2>1. Blanked(Gone(i, 0)) = disk
    BY <1>1, <1>4 DEF Blanked
  <2> DEFINE c == Issue(Begin)
  <2>2. /\ IsCourse(c) /\ c.disk = disk /\ c.inodes = inodes /\ c.mounted = mounted
        /\ c.free = free /\ c.cuts = {Snapshot(Begin)}
        /\ IsSnapshot(Snapshot(Begin))
        /\ Snapshot(Begin).disk = disk /\ Snapshot(Begin).inodes = inodes
    BY BeginIs, IssueIs
  <2> HIDE DEF c
  <2>3. \A x \in c.cuts : /\ IsSnapshot(x) /\ x.inodes = inodes
                          /\ \E e \in 0 .. Direct + Words + 1 : x.disk = Blanked(Gone(i, e))
    <3>1. 0 \in 0 .. Direct + Words + 1
      BY Layout
    <3> QED BY <2>1, <2>2, <3>1
  <2>4. RemovalForm(i, 0, c)
    BY <1>4, <2>1, <2>2, <2>3 DEF RemovalForm
  <2> QED BY <1>1, <1>2, <2>4 DEF c
<1>6. \A m \in 0 .. N - 1 : m \in S => m + 1 \in S
  <2> SUFFICES ASSUME NEW m \in 0 .. N - 1, RemovalForm(i, m, RemoveAfter(i)[m])
               PROVE  RemovalForm(i, m + 1, RemoveAfter(i)[m + 1]) /\ m + 1 \in 0 .. N
    OBVIOUS
  <2> DEFINE c == RemoveAfter(i)[m]
             b == Pointer(i, SlotRemoved(m + 1))
  <2>1. m \in Nat /\ m + 1 \in 1 .. N /\ m + 1 \in 0 .. N /\ (m + 1) - 1 = m /\ m \in 0 .. N
    BY <1>1
  <2>2. RemoveAfter(i)[m + 1] = Release(c, b)
    BY <1>2, <2>1
  <2>3. b \in {0} \cup DataOf(setup)
    BY <1>1, <1>3, <2>1
  <2>4. Gone(i, m + 1) = (Gone(i, m) \cup {b}) \ {0}
    <3>1. \A e : e \in 1 .. m + 1 <=> e \in 1 .. m \/ e = m + 1
      BY <2>1
    <3> QED BY <3>1 DEF Gone
  <2>5. 0 \notin Gone(i, m)
    BY DEF Gone
  <2> HIDE DEF c, b
  <2>6. RemovalForm(i, m, c)
    BY DEF c
  <2>7. CASE b = 0
    <3>1. Gone(i, m + 1) = Gone(i, m)
      BY <2>4, <2>5, <2>7
    <3>2. Release(c, b) = c
      BY <2>7 DEF Release
    <3> QED BY <2>1, <2>2, <2>6, <3>1, <3>2 DEF RemovalForm
  <2>8. CASE b # 0
    <3> DEFINE p == Put(c, b, Zeros)
               q == [p EXCEPT !.free = @ \cup {b}]
    <3>1. /\ IsCourse(p) /\ p.disk = With(c.disk, b, Zeros) /\ p.inodes = c.inodes
          /\ p.free = c.free /\ p.mounted = c.mounted /\ p.cuts = c.cuts \cup {Snapshot(c)}
      <4>1. IsCourse(c)
        BY <2>6 DEF RemovalForm
      <4> QED BY <4>1, PutIs
    <3>2. Release(c, b) = q
      BY <2>8 DEF Release
    <3> HIDE DEF p
    <3>3. q = [disk |-> p.disk, inodes |-> p.inodes, free |-> p.free \cup {b},
               mounted |-> p.mounted, cuts |-> p.cuts]
      <4>1. IsCourse(p)
        BY <3>1
      <4> QED BY <4>1 DEF IsCourse
    <3> HIDE DEF q
    <3>4. Gone(i, m + 1) = Gone(i, m) \cup {b}
      BY <2>4, <2>5, <2>8
    <3>5. p.disk = Blanked(Gone(i, m + 1))
      <4>1. c.disk = Blanked(Gone(i, m)) /\ b \in DOMAIN disk
        BY <1>1, <2>3, <2>6 DEF RemovalForm
      <4> QED BY <3>1, <3>4, <4>1 DEF Blanked, With
    <3>6. /\ IsSnapshot(Snapshot(c)) /\ Snapshot(c).inodes = inodes
          /\ Snapshot(c).disk = Blanked(Gone(i, m))
      BY <2>6, IssueIs DEF RemovalForm
    <3>7. \A x \in q.cuts : /\ IsSnapshot(x) /\ x.inodes = inodes
                            /\ \E e \in 0 .. Direct + Words + 1 : x.disk = Blanked(Gone(i, e))
      <4>1. m \in 0 .. Direct + Words + 1
        BY <2>1 DEF N
      <4>2. \A x \in c.cuts : /\ IsSnapshot(x) /\ x.inodes = inodes
                              /\ \E e \in 0 .. Direct + Words + 1 : x.disk = Blanked(Gone(i, e))
        BY <2>6 DEF RemovalForm
      <4>3. \A x \in q.cuts : x \in c.cuts \/ x = Snapshot(c)
        BY <3>1, <3>3
      <4> QED BY <3>6, <4>1, <4>2, <4>3
    <3>8. /\ IsCourse(q) /\ q.disk = p.disk /\ q.inodes = inodes /\ q.mounted = mounted
          /\ q.free = free \cup Gone(i, m + 1)
      BY <2>6, <3>1, <3>3, <3>4 DEF RemovalForm, IsCourse
    <3>9. RemovalForm(i, m + 1, q)
      BY <3>5, <3>7, <3>8 DEF RemovalForm
    <3> QED BY <2>1, <2>2, <3>2, <3>9
  <2> QED BY <2>7, <2>8
<1>7. 0 .. N \subseteq S
  <2> HIDE DEF S
  <2> QED BY <1>1, <1>5, <1>6, IntervalInduction
<1> QED BY <1>7 DEF N

\* What is released, in terms of the inode's pointers.
LEMMA GoneIs ==
  ASSUME IInv, NEW i \in Table(setup), NEW m \in 0 .. Direct + Words + 1
  PROVE  /\ Gone(i, m) \subseteq Used(inodes, disk)
         /\ \A x \in Gone(i, m) : x # 0 /\ \E k \in Slots : At(inodes, disk, i, k) = x
         /\ m = Direct + Words + 1 =>
              \A k \in Slots :
                At(inodes, disk, i, k) # 0 => At(inodes, disk, i, k) \in Gone(i, m)
         /\ inodes[i].indirect \in Gone(i, m) =>
              \A w \in 0 .. Words - 1 :
                At(inodes, disk, i, Direct + w) # 0
                  => At(inodes, disk, i, Direct + w) \in Gone(i, m)
<1> DEFINE P(k) == At(inodes, disk, i, k)
<1>1. /\ setup \in Setups /\ Sound(setup, inodes, disk) /\ Typed(setup, inodes, disk)
      /\ Direct \in Nat \ {0} /\ Words \in Nat \ {0} /\ m \in Nat
  BY Parts, Layout DEF Sound
<1>2. \A x : x \in Gone(i, m) <=> x # 0 /\ \E e \in 1 .. m : P(SlotRemoved(e)) = x
  BY DEF Gone, Pointer, At
<1>3. \A e \in 1 .. m : e \in 1 .. Direct + Words + 1
  BY <1>1
<1>4. \A e \in 1 .. m : SlotRemoved(e) \in Slots
  BY <1>3, RemovalOrder
<1>5. \A x \in Gone(i, m) : x # 0 /\ \E k \in Slots : P(k) = x
  BY <1>2, <1>4
<1>6. Gone(i, m) \subseteq Used(inodes, disk)
  <2>1. \A k \in Slots : P(k) # 0 => P(k) \in Used(inodes, disk)
    BY <1>1, UsedIs
  <2> QED BY <1>5, <2>1
<1>7. ASSUME m = Direct + Words + 1, NEW k \in Slots, P(k) # 0 PROVE P(k) \in Gone(i, m)
  <2>1. PICK e \in 1 .. Direct + Words + 1 : SlotRemoved(e) = k
    BY RemovalOrder
  <2> QED BY <1>2, <1>7, <2>1
<1>8. ASSUME inodes[i].indirect \in Gone(i, m), NEW w \in 0 .. Words - 1, P(Direct + w) # 0
      PROVE  P(Direct + w) \in Gone(i, m)
  <2>1. P(Direct + Words) = inodes[i].indirect
    BY PointerForms DEF At
  <2>2. PICK e \in 1 .. m : P(SlotRemoved(e)) = P(Direct + Words) /\ P(Direct + Words) # 0
    BY <1>2, <1>8, <2>1
  <2>3. SlotRemoved(e) = Direct + Words
    <3>1. SlotRemoved(e) \in Slots /\ Direct + Words \in Slots
      BY <1>4, SlotKinds
    <3>2. \A k, l \in Slots : P(k) # 0 /\ P(k) = P(l) => k = l
      BY <1>1, SoundApart
    <3> QED BY <2>2, <3>1, <3>2
  <2>4. e = Words + 1
    BY <1>3, <2>3, RemovalOrder
  <2>5. w + 1 \in 1 .. m /\ SlotRemoved(w + 1) = Direct + w
    <3>1. w + 1 \in 1 .. Words /\ SlotRemoved(w + 1) = Direct + w
      BY RemovalOrder
    <3> QED BY <1>1, <2>4, <3>1
  <2> QED BY <1>2, <1>8, <2>5
<1> QED BY <1>5, <1>6, <1>7, <1>8

\* Blanked blocks take away pointers of inode i only, or none.
LEMMA BlankedPointers ==
  ASSUME IInv, NEW i \in Table(setup), NEW m \in 0 .. Direct + Words + 1
  PROVE  /\ Typed(setup, inodes, Blanked(Gone(i, m)))
         /\ \A j \in Table(setup), k \in Slots :
              \/ At(inodes, Blanked(Gone(i, m)), j, k) = At(inodes, disk, j, k)
              \/ /\ At(inodes, Blanked(Gone(i, m)), j, k) = 0
                 /\ j = i /\ At(inodes, disk, j, k) \in Gone(i, m)
              \/ /\ At(inodes, Blanked(Gone(i, m)), j, k) = 0
                 /\ At(inodes, disk, j, k) = 0
<1> DEFINE R == Gone(i, m)
           D == Blanked(R)
<1>1. /\ setup \in Setups /\ Sound(setup, inodes, disk) /\ Typed(setup, inodes, disk)
      /\ DOMAIN disk = {0} \cup DataOf(setup)
      /\ \A x \in {0} \cup DataOf(setup) : disk[x] \in Contents
  <2>1. setup \in Setups /\ Sound(setup, inodes, disk)
    BY Parts
  <2> QED BY <2>1, SoundTyped
<1>2. \A x \in {0} \cup DataOf(setup) : D[x] = IF x \in R THEN Zeros ELSE disk[x]
  BY <1>1 DEF Blanked
<1>3. Typed(setup, inodes, D)
  <2>1. Zeros \in Contents
    BY DEF Zeros, Contents
  <2>2. D = [x \in {0} \cup DataOf(setup) |-> D[x]]
    BY <1>1 DEF Blanked
  <2> HIDE DEF D
  <2>3. \A x \in {0} \cup DataOf(setup) : D[x] \in Contents
    BY <1>1, <1>2, <2>1
  <2> QED BY <1>1, <2>2, <2>3 DEF Typed
<1> HIDE DEF D
<1>4. ASSUME NEW j \in Table(setup), NEW k \in Slots
      PROVE  \/ At(inodes, D, j, k) = At(inodes, disk, j, k)
             \/ /\ At(inodes, D, j, k) = 0 /\ j = i /\ At(inodes, disk, j, k) \in R
             \/ /\ At(inodes, D, j, k) = 0 /\ At(inodes, disk, j, k) = 0
  <2> DEFINE b == inodes[j].indirect
  <2>1. CASE k \in 0 .. Direct - 1
    <3>1. /\ At(inodes, D, j, k) = inodes[j].direct[k]
          /\ At(inodes, disk, j, k) = inodes[j].direct[k]
      BY <2>1, PointerForms DEF At
    <3> QED BY <3>1
  <2>2. CASE k = Direct + Words
    BY <2>2, PointerForms DEF At
  <2>3. ASSUME NEW w \in 0 .. Words - 1, k = Direct + w
        PROVE  \/ At(inodes, D, j, k) = At(inodes, disk, j, k)
               \/ /\ At(inodes, D, j, k) = 0 /\ j = i /\ At(inodes, disk, j, k) \in R
               \/ /\ At(inodes, D, j, k) = 0 /\ At(inodes, disk, j, k) = 0
    <3>1. /\ At(inodes, D, j, k) = IF b = 0 THEN 0 ELSE D[b][w]
          /\ At(inodes, disk, j, k) = IF b = 0 THEN 0 ELSE disk[b][w]
          /\ At(inodes, disk, j, Direct + Words) = b
      BY <2>3, PointerForms DEF At
    <3>2. b \in {0} \cup DataOf(setup)
      <4>1. At(inodes, disk, j, Direct + Words) \in {0} \cup DataOf(setup)
        BY <1>1, SoundRange, SlotKinds
      <4> QED BY <3>1, <4>1
    <3>3. CASE b = 0
      BY <3>1, <3>3
    <3>4. CASE b # 0 /\ b \notin R
      BY <1>2, <3>1, <3>2, <3>4
    <3>5. CASE b # 0 /\ b \in R
      <4>1. At(inodes, D, j, k) = 0
        <5>1. D[b] = Zeros
          BY <1>2, <3>2, <3>5
        <5> QED BY <3>1, <3>5, <5>1 DEF Zeros
      <4>2. j = i
        <5>1. PICK l \in Slots : At(inodes, disk, i, l) = b
          BY <3>5, GoneIs
        <5>2. At(inodes, disk, j, Direct + Words) = b /\ Direct + Words \in Slots
          BY <3>1, SlotKinds
        <5> QED BY <1>1, <3>5, <5>1, <5>2, SoundApart
      <4>3. At(inodes, disk, j, k) # 0 => At(inodes, disk, j, k) \in R
        BY <2>3, <3>5, <4>2, GoneIs
      <4> QED BY <4>1, <4>2, <4>3
    <3> QED BY <3>3, <3>4, <3>5
  <2> QED BY <2>1, <2>2, <2>3, SlotKinds
<1> QED BY <1>3, <1>4 DEF D

\* A removal that is cut off leaves a sound disk.
LEMMA BlankedSound ==
  ASSUME IInv, NEW i \in Table(setup), NEW m \in 0 .. Direct + Words + 1
  PROVE  Sound(setup, inodes, Blanked(Gone(i, m)))
<1> DEFINE R == Gone(i, m)
           D == Blanked(R)
<1>1. /\ setup \in Setups /\ Sound(setup, inodes, disk) /\ EmptyUnlessValid(inodes)
      /\ Typed(setup, inodes, disk) /\ Typed(setup, inodes, D)
      /\ DOMAIN disk = {0} \cup DataOf(setup)
  BY Parts, BlankedPointers DEF Sound, Typed
<1>2. \A j \in Table(setup), k \in Slots :
        \/ At(inodes, D, j, k) = At(inodes, disk, j, k)
        \/ At(inodes, D, j, k) = 0 /\ At(inodes, disk, j, k) \in {0} \cup R
  BY BlankedPointers
<1>3. \A x \in DataOf(setup) : D[x] = IF x \in R THEN Zeros ELSE disk[x]
  BY <1>1 DEF Blanked
<1> HIDE DEF D
<1>4. ASSUME LeavesNoData(setup), NEW x \in DataOf(setup), x \notin Used(inodes, D)
      PROVE  D[x] = Zeros
  <2>1. CASE x \in R
    BY <1>3, <2>1
  <2>2. CASE x \notin R
    <3>1. x \notin Used(inodes, disk)
      <4> SUFFICES ASSUME x \in Used(inodes, disk) PROVE FALSE
        OBVIOUS
      <4>1. PICK j \in Table(setup), k \in Slots : At(inodes, disk, j, k) = x /\ x # 0
        BY <1>1, UsedIs
      <4>2. At(inodes, D, j, k) = x
        BY <1>2, <2>2, <4>1
      <4> QED BY <1>1, <1>4, <4>1, <4>2, UsedIs
    <3> QED BY <1>1, <1>3, <1>4, <2>2, <3>1, SoundClean
  <2> QED BY <2>1, <2>2
<1>5. LeavesNoData(setup) => CleanOutside(setup, inodes, D)
  BY <1>4 DEF CleanOutside
<1>6. \A j \in Table(setup), k \in Slots : At(inodes, D, j, k) \in {0, At(inodes, disk, j, k)}
  BY <1>2
<1>7. Sound(setup, inodes, D)
  BY <1>1, <1>5, <1>6, Shrinks
<1> QED BY <1>7 DEF D

\* A removal that ends.
LEMMA RemovedSound ==
  ASSUME IInv, NEW i \in Table(setup), NEW I, NEW D,
         D = Blanked(Gone(i, Direct + Words + 1)), I = With(inodes, i, NoInode)
  PROVE  /\ Sound(setup, I, D)
         /\ Used(I, D) = Used(inodes, disk) \ Gone(i, Direct + Words + 1)
<1> DEFINE R == Gone(i, Direct + Words + 1)
<1>1. /\ setup \in Setups /\ Sound(setup, inodes, disk) /\ Typed(setup, inodes, disk)
      /\ Sound(setup, inodes, D) /\ Typed(setup, inodes, D)
      /\ Direct + Words + 1 \in 0 .. Direct + Words + 1
  <2>1. Direct + Words + 1 \in 0 .. Direct + Words + 1
    BY Layout
  <2>2. Sound(setup, inodes, D)
    BY <2>1, BlankedSound
  <2> QED BY <2>1, <2>2, Parts DEF Sound
<1>2. I \in [Table(setup) -> InodesOn(setup)] /\ I[i] = NoInode
      /\ \A j \in Table(setup) : j # i => I[j] = inodes[j]
  BY <1>1, NoInodeIs DEF Typed, With
<1>3. Typed(setup, I, D)
  BY <1>1, <1>2 DEF Typed
<1>4. EmptyUnlessValid(I)
  BY <1>1, <1>2, SoundEmpty DEF EmptyUnlessValid
<1>5. \A k \in Slots : At(I, D, i, k) = 0
  BY <1>2, NoInodeIs DEF At
<1>6. \A j \in Table(setup), k \in Slots : j # i => At(I, D, j, k) = At(inodes, D, j, k)
  BY <1>2 DEF At
<1>7. ASSUME NEW j \in Table(setup), NEW k \in Slots, j # i
      PROVE  At(I, D, j, k) = At(inodes, disk, j, k)
  <2>1. At(inodes, D, j, k) = At(inodes, disk, j, k)
    BY <1>1, <1>7, BlankedPointers
  <2> QED BY <1>6, <1>7, <2>1
<1>8. \A x : x \in Used(I, D) <=> x \in Used(inodes, disk) /\ x \notin R
  <2> SUFFICES ASSUME NEW x
               PROVE  x \in Used(I, D) <=> x \in Used(inodes, disk) /\ x \notin R
    OBVIOUS
  <2>1. \A j \in Table(setup), k, l \in Slots :
          At(inodes, disk, i, k) # 0 /\ At(inodes, disk, i, k) = At(inodes, disk, j, l)
            => i = j
    BY <1>1, SoundApart
  <2>2. /\ \A y \in R : y # 0 /\ \E k \in Slots : At(inodes, disk, i, k) = y
        /\ \A k \in Slots : At(inodes, disk, i, k) # 0 => At(inodes, disk, i, k) \in R
    BY <1>1, GoneIs
  <2>3. ASSUME x \in Used(I, D) PROVE x \in Used(inodes, disk) /\ x \notin R
    <3>1. PICK j \in Table(setup), k \in Slots : At(I, D, j, k) = x /\ x # 0
      BY <1>1, <1>3, <2>3, UsedIs
    <3>2. j # i /\ At(inodes, disk, j, k) = x
      BY <1>5, <1>7, <3>1
    <3>3. x \in Used(inodes, disk)
      BY <1>1, <3>1, <3>2, UsedIs
    <3>4. x \notin R
      BY <2>1, <2>2, <3>1, <3>2
    <3> QED BY <3>3, <3>4
  <2>4. ASSUME x \in Used(inodes, disk), x \notin R PROVE x \in Used(I, D)
    <3>1. PICK j \in Table(setup), k \in Slots : At(inodes, disk, j, k) = x /\ x # 0
      BY <1>1, <2>4, UsedIs
    <3>2. j # i
      BY <2>2, <2>4, <3>1
    <3>3. At(I, D, j, k) = x
      BY <1>7, <3>1, <3>2
    <3> QED BY <1>1, <1>3, <3>1, <3>3, UsedIs
  <2> QED BY <2>3, <2>4
<1>9. ASSUME LeavesNoData(setup), NEW x \in DataOf(setup), x \notin Used(I, D)
      PROVE  D[x] = Zeros
  <2>1. DOMAIN disk = {0} \cup DataOf(setup)
    BY <1>1 DEF Typed
  <2>2. D[x] = IF x \in R THEN Zeros ELSE disk[x]
    BY <2>1 DEF Blanked
  <2>3. x \notin R => disk[x] = Zeros
    BY <1>1, <1>8, <1>9, SoundClean
  <2> QED BY <2>2, <2>3
<1>10. \A j \in Table(setup), k \in Slots : At(I, D, j, k) \in {0, At(inodes, disk, j, k)}
  BY <1>5, <1>7
<1>11. LeavesNoData(setup) => CleanOutside(setup, I, D)
  BY <1>9 DEF CleanOutside
<1>12. Sound(setup, I, D)
  BY <1>1, <1>3, <1>4, <1>10, <1>11, Shrinks
<1> QED BY <1>8, <1>12

LEMMA RemoveKeeps ==
  ASSUME Careful, IInv, NEW i \in Table(setup), fs_remove(i)
  PROVE  IInv'
<1> DEFINE N == Direct + Words + 1
           c == RemoveAfter(i)[N]
           e == Save(c, i, NoInode)
<1>1. /\ setup \in Setups /\ Sound(setup, inodes, disk) /\ mounted = TRUE /\ N \in 0 .. N
      /\ free = DataOf(setup) \ Used(inodes, disk) /\ Run("remove", e)
  <2>1. mounted /\ Run("remove", e)
    BY DEF fs_remove
  <2>2. N \in 0 .. N
    BY Layout
  <2> QED BY <2>1, <2>2, Parts
<1>2. RemovalForm(i, N, c)
  BY <1>1, RemovalForms
<1> HIDE DEF c
<1>3. /\ IsCourse(c) /\ c.disk = Blanked(Gone(i, N)) /\ c.inodes = inodes
      /\ c.mounted = TRUE /\ c.free = free \cup Gone(i, N)
      /\ \A x \in c.cuts : /\ IsSnapshot(x) /\ x.inodes = inodes
                           /\ \E m \in 0 .. N : x.disk = Blanked(Gone(i, m))
  BY <1>1, <1>2 DEF RemovalForm
<1>4. /\ e.disk = c.disk /\ e.inodes = With(c.inodes, i, NoInode) /\ e.free = c.free
      /\ e.mounted = c.mounted /\ e.cuts = c.cuts \cup {Snapshot(c)}
      /\ IsSnapshot(Snapshot(c)) /\ Snapshot(c).disk = c.disk /\ Snapshot(c).inodes = c.inodes
  BY <1>3, SaveIs, IssueIs
<1> HIDE DEF e
<1>5. /\ Sound(setup, e.inodes, e.disk)
      /\ Used(e.inodes, e.disk) = Used(inodes, disk) \ Gone(i, N)
  BY <1>3, <1>4, RemovedSound
<1>6. SoundState(setup, e)
  <2>1. Gone(i, N) \subseteq Used(inodes, disk) /\ Used(inodes, disk) \subseteq DataOf(setup)
    BY <1>1, GoneIs, UsedInData
  <2>2. e.free = DataOf(setup) \ Used(e.inodes, e.disk)
    BY <1>1, <1>3, <1>4, <1>5, <2>1
  <2> QED BY <1>3, <1>4, <1>5, <2>2 DEF SoundState
<1>7. SoundCuts(setup, "remove", e.cuts)
  <2>1. "remove" \notin setup.failing
    BY <1>1, Cautious
  <2>2. \A x \in e.cuts : /\ IsSnapshot(x) /\ x.inodes = inodes
                          /\ \E m \in 0 .. N : x.disk = Blanked(Gone(i, m))
    BY <1>1, <1>3, <1>4
  <2>3. \A x \in e.cuts : IsSnapshot(x) /\ Sound(setup, x.inodes, x.disk)
    BY <2>2, BlankedSound
  <2> QED BY <2>1, <2>3 DEF SoundCuts
<1> QED BY <1>1, <1>6, <1>7, RunKeeps

-----------------------------------------------------------------------------
(* fs_write: what it does to the disk.                                     *)

\* A block that no inode has for its indirect block holds no pointers.
LEMMA OverwritePointers ==
  ASSUME NEW s \in Setups, NEW I, NEW D, Typed(s, I, D),
         NEW b \in DataOf(s), NEW v \in Contents,
         \A j \in Table(s) : I[j].indirect # b
  PROVE  /\ Typed(s, I, With(D, b, v))
         /\ \A j \in Table(s), k \in Slots : At(I, With(D, b, v), j, k) = At(I, D, j, k)
         /\ Used(I, With(D, b, v)) = Used(I, D)
<1> DEFINE E == With(D, b, v)
<1>1. /\ D \in [{0} \cup DataOf(s) -> Contents] /\ I \in [Table(s) -> InodesOn(s)]
  BY DEF Typed
<1>2. E \in [{0} \cup DataOf(s) -> Contents] /\ \A x : x # b => E[x] = D[x]
  BY <1>1 DEF With
<1>3. Typed(s, I, E)
  BY <1>1, <1>2 DEF Typed
<1> HIDE DEF E
<1>4. ASSUME NEW j \in Table(s), NEW k \in Slots PROVE At(I, E, j, k) = At(I, D, j, k)
  <2>1. CASE k \in 0 .. Direct - 1
    <3>1. At(I, E, j, k) = I[j].direct[k]
      BY <2>1, AtDirect
    <3>2. At(I, D, j, k) = I[j].direct[k]
      BY <2>1, AtDirect
    <3> QED BY <3>1, <3>2
  <2>2. CASE k = Direct + Words
    <3>1. At(I, E, j, k) = I[j].indirect
      BY <2>2, AtIndirect
    <3>2. At(I, D, j, k) = I[j].indirect
      BY <2>2, AtIndirect
    <3> QED BY <3>1, <3>2
  <2>3. ASSUME NEW w \in 0 .. Words - 1, k = Direct + w
        PROVE  At(I, E, j, k) = At(I, D, j, k)
    <3>1. E[I[j].indirect] = D[I[j].indirect]
      BY <1>2
    <3>2. At(I, E, j, k) = IF I[j].indirect = 0 THEN 0 ELSE E[I[j].indirect][w]
      BY <2>3, AtBehind
    <3>3. At(I, D, j, k) = IF I[j].indirect = 0 THEN 0 ELSE D[I[j].indirect][w]
      BY <2>3, AtBehind
    <3> QED BY <3>1, <3>2, <3>3
  <2> QED BY <2>1, <2>2, <2>3, SlotKinds
<1>5. Used(I, E) = Used(I, D)
  <2>1. DOMAIN I = Table(s)
    BY <1>1
  <2>2. \A x : x \in Used(I, E) <=> x \in Used(I, D)
    <3>1. \A x : x \in Used(I, E) <=>
                   x # 0 /\ \E i \in Table(s), k \in Slots : At(I, E, i, k) = x
      BY <1>3, UsedIs
    <3>2. \A x : x \in Used(I, D) <=>
                   x # 0 /\ \E i \in Table(s), k \in Slots : At(I, D, i, k) = x
      BY UsedIs
    <3> QED BY <1>4, <3>1, <3>2
  <2> QED BY <2>2
<1> QED BY <1>3, <1>4, <1>5 DEF E

\* A block of a file is overwritten.
LEMMA OverwriteSound ==
  ASSUME NEW s \in Setups, NEW I, NEW D, Sound(s, I, D),
         NEW i \in Table(s), NEW k \in Slots, k # Direct + Words,
         NEW v \in Contents, NEW b, b # 0, At(I, D, i, k) = b
  PROVE  Sound(s, I, With(D, b, v)) /\ Used(I, With(D, b, v)) = Used(I, D)
<1> DEFINE E == With(D, b, v)
<1>1. Typed(s, I, D) /\ EmptyUnlessValid(I) /\ b \in DataOf(s) /\ b \in Used(I, D)
  <2>1. Typed(s, I, D) /\ EmptyUnlessValid(I)
    BY DEF Sound
  <2>2. b \in {0} \cup DataOf(s)
    BY SoundRange
  <2>3. b \in Used(I, D)
    BY <2>1, UsedIs
  <2> QED BY <2>1, <2>2, <2>3
<1>2. \A j \in Table(s) : I[j].indirect # b
  <2> SUFFICES ASSUME NEW j \in Table(s), I[j].indirect = b PROVE FALSE
    OBVIOUS
  <2>1. At(I, D, j, Direct + Words) = b /\ Direct + Words \in Slots
    BY AtIndirect, SlotKinds
  <2>2. \A h \in Table(s), l, m \in Slots :
          At(I, D, i, l) # 0 /\ At(I, D, i, l) = At(I, D, h, m) => i = h /\ l = m
    BY SoundApart
  <2> QED BY <2>1, <2>2
<1>3. /\ Typed(s, I, E) /\ Used(I, E) = Used(I, D)
      /\ \A j \in Table(s), l \in Slots : At(I, E, j, l) = At(I, D, j, l)
  BY <1>1, <1>2, OverwritePointers
<1>4. \A x : x # b => E[x] = D[x]
  BY DEF With
<1> HIDE DEF E
<1>5. LeavesNoData(s) => CleanOutside(s, I, E)
  <2>1. SUFFICES ASSUME LeavesNoData(s), NEW x \in DataOf(s), x \notin Used(I, D)
                 PROVE  E[x] = Zeros
    BY <1>3 DEF CleanOutside
  <2>2. x # b /\ D[x] = Zeros
    BY <1>1, <2>1, SoundClean
  <2> QED BY <1>4, <2>2
<1>6. \A j \in Table(s), l \in Slots : At(I, E, j, l) \in {0, At(I, D, j, l)}
  BY <1>3
<1>7. Sound(s, I, E)
  BY <1>1, <1>3, <1>5, <1>6, Shrinks
<1> QED BY <1>3, <1>7 DEF E

\* No inode has a block for its indirect block that no file uses.
LEMMA UnusedNotIndirect ==
  ASSUME NEW s \in Setups, NEW I, NEW D, Typed(s, I, D), NEW a \in DataOf(s) \ Used(I, D)
  PROVE  /\ \A j \in Table(s) : I[j].indirect # a
         /\ \A j \in Table(s), k \in Slots : At(I, D, j, k) # a
         /\ a # 0
<1>1. a # 0
  BY SetupLayout
<1>2. \A j \in Table(s), k \in Slots : At(I, D, j, k) # a
  BY <1>1, UsedIs
<1>3. \A j \in Table(s) : At(I, D, j, Direct + Words) = I[j].indirect
  BY AtIndirect
<1> QED BY <1>1, <1>2, <1>3, SlotKinds

-----------------------------------------------------------------------------
\* The inode n of a table is replaced.
Replaced(s, I, J, i) == /\ J \in [Table(s) -> InodesOn(s)] /\ EmptyUnlessValid(J)
                        /\ \A j \in Table(s) : j # i => J[j] = I[j]

\* Slot k of inode i gets the block a, and every other slot keeps what it has.
Gained(s, I, D, J, E, i, k, a) ==
  /\ At(I, D, i, k) = 0 /\ At(J, E, i, k) = a
  /\ \A j \in Table(s), l \in Slots : j # i \/ l # k => At(J, E, j, l) = At(I, D, j, l)

\* An inode gets a direct block.
LEMMA GainsDirect ==
  ASSUME NEW s \in Setups, NEW I, NEW D, Sound(s, I, D), NEW J,
         NEW i \in Table(s), Replaced(s, I, J, i),
         NEW k \in 0 .. Direct - 1, I[i].direct[k] = 0, HasRoom(s) => k \in Reach,
         NEW a \in DataOf(s) \ Used(I, D), NEW v \in Contents,
         J[i].indirect = I[i].indirect, J[i].direct = With(I[i].direct, k, a)
  PROVE  /\ Sound(s, J, With(D, a, v))
         /\ Used(J, With(D, a, v)) = Used(I, D) \cup {a}
         /\ Gained(s, I, D, J, With(D, a, v), i, k, a)
<1> DEFINE E == With(D, a, v)
<1>1. Typed(s, I, D) /\ I \in [Table(s) -> InodesOn(s)] /\ I[i] \in InodesOn(s)
  BY DEF Sound, Typed
<1>2. /\ Typed(s, I, E) /\ \A j \in Table(s), l \in Slots : At(I, E, j, l) = At(I, D, j, l)
  <2>1. \A j \in Table(s) : I[j].indirect # a
    BY <1>1, UnusedNotIndirect
  <2> QED BY <1>1, <2>1, OverwritePointers
<1>3. \A x : x # a => E[x] = D[x]
  BY DEF With
<1> HIDE DEF E
<1>4. /\ J \in [Table(s) -> InodesOn(s)] /\ EmptyUnlessValid(J)
      /\ \A j \in Table(s) : j # i => J[j] = I[j]
  BY DEF Replaced
<1>5. Typed(s, J, E)
  BY <1>2, <1>4 DEF Typed
<1>6. /\ J[i].direct[k] = a
      /\ \A l \in 0 .. Direct - 1 : l # k => J[i].direct[l] = I[i].direct[l]
  <2>1. I[i].direct \in [0 .. Direct - 1 -> BlocksOn(s)]
    BY <1>1, InodeIs
  <2> QED BY <2>1 DEF With
<1>7. k \in Slots /\ At(I, D, i, k) = 0 /\ At(J, E, i, k) = a
  <2>1. k \in Slots
    BY SlotKinds
  <2>2. At(I, D, i, k) = I[i].direct[k]
    BY AtDirect
  <2>3. At(J, E, i, k) = J[i].direct[k]
    BY AtDirect
  <2> QED BY <1>6, <2>1, <2>2, <2>3
<1>8. ASSUME NEW l \in Slots, l # k PROVE At(J, E, i, l) = At(I, E, i, l)
  <2>1. CASE l \in 0 .. Direct - 1
    <3>1. At(J, E, i, l) = J[i].direct[l]
      BY <2>1, AtDirect
    <3>2. At(I, E, i, l) = I[i].direct[l]
      BY <2>1, AtDirect
    <3> QED BY <1>6, <1>8, <2>1, <3>1, <3>2
  <2>2. CASE l = Direct + Words
    <3>1. At(J, E, i, l) = J[i].indirect
      BY <2>2, AtIndirect
    <3>2. At(I, E, i, l) = I[i].indirect
      BY <2>2, AtIndirect
    <3> QED BY <3>1, <3>2
  <2>3. ASSUME NEW w \in 0 .. Words - 1, l = Direct + w
        PROVE  At(J, E, i, l) = At(I, E, i, l)
    <3>1. At(J, E, i, Direct + w) = IF J[i].indirect = 0 THEN 0 ELSE E[J[i].indirect][w]
      BY AtBehind
    <3>2. At(I, E, i, Direct + w) = IF I[i].indirect = 0 THEN 0 ELSE E[I[i].indirect][w]
      BY AtBehind
    <3> QED BY <2>3, <3>1, <3>2
  <2> QED BY <2>1, <2>2, <2>3, SlotKinds
<1>9. \A j \in Table(s), l \in Slots : j # i \/ l # k => At(J, E, j, l) = At(I, D, j, l)
  <2>1. \A j \in Table(s), l \in Slots : j # i => At(J, E, j, l) = At(I, E, j, l)
    BY <1>4 DEF At
  <2> QED BY <1>2, <1>8, <2>1
<1>10. \A b \in DataOf(s) \ Used(I, D) : b = a \/ E[b] = D[b]
  BY <1>3
<1>11. Sound(s, J, E) /\ Used(J, E) = Used(I, D) \cup {a}
  BY <1>4, <1>5, <1>7, <1>9, <1>10, Gains
<1>12. Gained(s, I, D, J, E, i, k, a)
  BY <1>7, <1>9 DEF Gained
<1> QED BY <1>11, <1>12 DEF E

\* An inode gets an empty indirect block.
LEMMA GainsIndirect ==
  ASSUME NEW s \in Setups, NEW I, NEW D, Sound(s, I, D), NEW J,
         NEW i \in Table(s), Replaced(s, I, J, i),
         I[i].indirect = 0, HasRoom(s) => Direct + Words \in Reach,
         NEW a \in DataOf(s) \ Used(I, D),
         J[i].indirect = a, J[i].direct = I[i].direct
  PROVE  /\ Sound(s, J, With(D, a, Zeros))
         /\ Used(J, With(D, a, Zeros)) = Used(I, D) \cup {a}
         /\ Gained(s, I, D, J, With(D, a, Zeros), i, Direct + Words, a)
<1> DEFINE E == With(D, a, Zeros)
<1>1. Typed(s, I, D) /\ I \in [Table(s) -> InodesOn(s)]
      /\ D \in [{0} \cup DataOf(s) -> Contents] /\ Zeros \in Contents
  BY DEF Sound, Typed, Zeros, Contents
<1>2. /\ Typed(s, I, E) /\ \A j \in Table(s), l \in Slots : At(I, E, j, l) = At(I, D, j, l)
  <2>1. \A j \in Table(s) : I[j].indirect # a
    BY <1>1, UnusedNotIndirect
  <2> QED BY <1>1, <2>1, OverwritePointers
<1>3. E[a] = Zeros /\ \A x : x # a => E[x] = D[x]
  BY <1>1 DEF With
<1> HIDE DEF E
<1>4. /\ J \in [Table(s) -> InodesOn(s)] /\ EmptyUnlessValid(J)
      /\ \A j \in Table(s) : j # i => J[j] = I[j]
  BY DEF Replaced
<1>5. Typed(s, J, E)
  BY <1>2, <1>4 DEF Typed
<1>6. /\ Direct + Words \in Slots
      /\ At(I, D, i, Direct + Words) = 0 /\ At(J, E, i, Direct + Words) = a
  <2>1. At(I, D, i, Direct + Words) = I[i].indirect
    BY AtIndirect
  <2>2. At(J, E, i, Direct + Words) = J[i].indirect
    BY AtIndirect
  <2> QED BY <2>1, <2>2, SlotKinds
<1>7. ASSUME NEW l \in Slots, l # Direct + Words PROVE At(J, E, i, l) = At(I, E, i, l)
  <2>1. CASE l \in 0 .. Direct - 1
    <3>1. At(J, E, i, l) = J[i].direct[l]
      BY <2>1, AtDirect
    <3>2. At(I, E, i, l) = I[i].direct[l]
      BY <2>1, AtDirect
    <3> QED BY <3>1, <3>2
  <2>2. ASSUME NEW w \in 0 .. Words - 1, l = Direct + w
        PROVE  At(J, E, i, l) = At(I, E, i, l)
    <3>1. At(J, E, i, l) = IF J[i].indirect = 0 THEN 0 ELSE E[J[i].indirect][w]
      BY <2>2, AtBehind
    <3>2. At(I, E, i, l) = IF I[i].indirect = 0 THEN 0 ELSE E[I[i].indirect][w]
      BY <2>2, AtBehind
    <3>3. E[J[i].indirect][w] = 0
      BY <1>3 DEF Zeros
    <3> QED BY <3>1, <3>2, <3>3
  <2> QED BY <1>7, <2>1, <2>2, SlotKinds
<1>8. \A j \in Table(s), l \in Slots :
        j # i \/ l # Direct + Words => At(J, E, j, l) = At(I, D, j, l)
  <2>1. \A j \in Table(s), l \in Slots : j # i => At(J, E, j, l) = At(I, E, j, l)
    BY <1>4 DEF At
  <2> QED BY <1>2, <1>7, <2>1
<1>9. \A b \in DataOf(s) \ Used(I, D) : b = a \/ E[b] = D[b]
  BY <1>3
<1>10. Sound(s, J, E) /\ Used(J, E) = Used(I, D) \cup {a}
  BY <1>4, <1>5, <1>6, <1>8, <1>9, Gains
<1>11. Gained(s, I, D, J, E, i, Direct + Words, a)
  BY <1>6, <1>8 DEF Gained
<1> QED BY <1>10, <1>11 DEF E

\* An inode gets a block behind its indirect block, in which it is noted.
LEMMA GainsBehind ==
  ASSUME NEW s \in Setups, NEW I, NEW D, Sound(s, I, D),
         NEW i \in Table(s), NEW x, x # 0, I[i].indirect = x,
         NEW w \in 0 .. Words - 1, D[x][w] = 0, HasRoom(s) => Direct + w \in Reach,
         NEW a \in DataOf(s) \ Used(I, D)
  PROVE  /\ Sound(s, I, With(D, x, With(D[x], w, a)))
         /\ Used(I, With(D, x, With(D[x], w, a))) = Used(I, D) \cup {a}
         /\ At(I, With(D, x, With(D[x], w, a)), i, Direct + w) = a
         /\ Gained(s, I, D, I, With(D, x, With(D[x], w, a)), i, Direct + w, a)
<1> DEFINE E == With(D, x, With(D[x], w, a))
<1>1. /\ Typed(s, I, D) /\ I \in [Table(s) -> InodesOn(s)] /\ EmptyUnlessValid(I)
      /\ D \in [{0} \cup DataOf(s) -> Contents] /\ a \in Nat /\ a # 0
  BY SetupLayout, UnusedNotIndirect DEF Sound, Typed
<1>2. x \in DataOf(s) /\ x \in Used(I, D) /\ At(I, D, i, Direct + Words) = x
  <2>1. At(I, D, i, Direct + Words) = x /\ Direct + Words \in Slots
    BY AtIndirect, SlotKinds
  <2>2. x \in {0} \cup DataOf(s)
    BY <2>1, SoundRange
  <2>3. x \in Used(I, D)
    BY <1>1, <2>1, UsedIs
  <2> QED BY <2>1, <2>2, <2>3
<1>3. \A j \in Table(s) : j # i => I[j].indirect # x
  <2>1. \A j \in Table(s) : At(I, D, j, Direct + Words) = I[j].indirect
    BY AtIndirect
  <2>2. \A j, h \in Table(s), l, m \in Slots :
          At(I, D, j, l) # 0 /\ At(I, D, j, l) = At(I, D, h, m) => j = h /\ l = m
    BY SoundApart
  <2> QED BY <1>2, <2>1, <2>2, SlotKinds
<1>4. /\ With(D[x], w, a) \in Contents /\ With(D[x], w, a)[w] = a
      /\ \A u \in 0 .. Words - 1 : u # w => With(D[x], w, a)[u] = D[x][u]
  <2>1. D[x] \in [0 .. Words - 1 -> Nat]
    BY <1>1, <1>2 DEF Contents
  <2> QED BY <1>1, <2>1 DEF With, Contents
<1>5. /\ E \in [{0} \cup DataOf(s) -> Contents] /\ E[x] = With(D[x], w, a)
      /\ \A y : y # x => E[y] = D[y]
  <2> DEFINE v == With(D[x], w, a)
  <2>1. v \in Contents
    BY <1>4
  <2> HIDE DEF v
  <2>2. /\ With(D, x, v) \in [{0} \cup DataOf(s) -> Contents] /\ With(D, x, v)[x] = v
        /\ \A y : y # x => With(D, x, v)[y] = D[y]
    BY <1>1, <1>2, <2>1 DEF With
  <2> QED BY <2>2 DEF v
<1> HIDE DEF E
<1>6. Typed(s, I, E)
  BY <1>1, <1>5 DEF Typed
<1>7. Direct + w \in Slots /\ At(I, D, i, Direct + w) = 0 /\ At(I, E, i, Direct + w) = a
  <2>1. At(I, D, i, Direct + w) = IF I[i].indirect = 0 THEN 0 ELSE D[I[i].indirect][w]
    BY AtBehind
  <2>2. At(I, E, i, Direct + w) = IF I[i].indirect = 0 THEN 0 ELSE E[I[i].indirect][w]
    BY AtBehind
  <2> QED BY <1>4, <1>5, <2>1, <2>2, SlotKinds
<1>8. ASSUME NEW j \in Table(s), NEW l \in Slots, j # i \/ l # Direct + w
      PROVE  At(I, E, j, l) = At(I, D, j, l)
  <2>1. CASE l \in 0 .. Direct - 1
    <3>1. At(I, E, j, l) = I[j].direct[l]
      BY <2>1, AtDirect
    <3>2. At(I, D, j, l) = I[j].direct[l]
      BY <2>1, AtDirect
    <3> QED BY <3>1, <3>2
  <2>2. CASE l = Direct + Words
    <3>1. At(I, E, j, l) = I[j].indirect
      BY <2>2, AtIndirect
    <3>2. At(I, D, j, l) = I[j].indirect
      BY <2>2, AtIndirect
    <3> QED BY <3>1, <3>2
  <2>3. ASSUME NEW u \in 0 .. Words - 1, l = Direct + u
        PROVE  At(I, E, j, l) = At(I, D, j, l)
    <3>1. At(I, E, j, l) = IF I[j].indirect = 0 THEN 0 ELSE E[I[j].indirect][u]
      BY <2>3, AtBehind
    <3>2. At(I, D, j, l) = IF I[j].indirect = 0 THEN 0 ELSE D[I[j].indirect][u]
      BY <2>3, AtBehind
    <3>3. CASE I[j].indirect # x
      BY <1>5, <3>1, <3>2, <3>3
    <3>4. CASE I[j].indirect = x
      <4>1. j = i /\ u # w
        BY <1>3, <1>8, <2>3, <3>4
      <4> QED BY <1>4, <1>5, <3>1, <3>2, <3>4, <4>1
    <3> QED BY <3>3, <3>4
  <2> QED BY <2>1, <2>2, <2>3, SlotKinds
<1>9. \A b \in DataOf(s) \ Used(I, D) : b = a \/ E[b] = D[b]
  BY <1>2, <1>5
<1>10. Sound(s, I, E) /\ Used(I, E) = Used(I, D) \cup {a}
  BY <1>1, <1>6, <1>7, <1>8, <1>9, Gains
<1>11. Gained(s, I, D, I, E, i, Direct + w, a)
  BY <1>7, <1>8 DEF Gained
<1> QED BY <1>7, <1>10, <1>11 DEF E

-----------------------------------------------------------------------------
(* fs_write: how the course goes on.                                       *)

\* The state of a write with the disk D, the bitmap F, the copy n of the inode and the
\* states U it may be cut off in, when m blocks are written.
WriteIs(c, D, F, U, n, m, f) ==
  c = [disk |-> D, inodes |-> inodes, free |-> F, mounted |-> mounted, cuts |-> U,
       inode |-> n, done |-> m, full |-> f]

Cut(D, F) == [disk |-> D, inodes |-> inodes, free |-> F, mounted |-> mounted]

Counted(c) == [c EXCEPT !.done = @ + 1]
Filled(c)  == [c EXCEPT !.full = TRUE]

LEMMA WriteParts ==
  ASSUME NEW c, NEW D, NEW F, NEW U, NEW n, NEW m, NEW f, WriteIs(c, D, F, U, n, m, f)
  PROVE  /\ c.disk = D /\ c.free = F /\ c.inode = n /\ c.full = f
         /\ c.cuts = U /\ c.inodes = inodes /\ c.mounted = mounted /\ c.done = m
BY DEF WriteIs

LEMMA WriteIssues ==
  ASSUME NEW c, NEW D, NEW F, NEW U, NEW n, NEW m, NEW f, WriteIs(c, D, F, U, n, m, f)
  PROVE  WriteIs(Issue(c), D, F, U \cup {Cut(D, F)}, n, m, f)
<1>1. Snapshot(c) = Cut(D, F)
  BY DEF WriteIs, Snapshot, Cut
<1> QED BY <1>1 DEF WriteIs, Issue

LEMMA WritePuts ==
  ASSUME NEW c, NEW D, NEW F, NEW U, NEW n, NEW m, NEW f, WriteIs(c, D, F, U, n, m, f),
         NEW b, NEW v
  PROVE  WriteIs(Put(c, b, v), With(D, b, v), F, U \cup {Cut(D, F)}, n, m, f)
<1> DEFINE e == Issue(c)
<1>1. WriteIs(e, D, F, U \cup {Cut(D, F)}, n, m, f)
  BY WriteIssues
<1>2. Put(c, b, v) = [e EXCEPT !.disk[b] = v]
  BY DEF Put
<1> HIDE DEF e
<1> QED BY <1>1, <1>2 DEF WriteIs, With

LEMMA WriteCounts ==
  ASSUME NEW c, NEW D, NEW F, NEW U, NEW n, NEW m, NEW f, WriteIs(c, D, F, U, n, m, f)
  PROVE  WriteIs(Counted(c), D, F, U, n, m + 1, f)
BY DEF WriteIs, Counted

LEMMA WriteFills ==
  ASSUME NEW c, NEW D, NEW F, NEW U, NEW n, NEW m, NEW f, WriteIs(c, D, F, U, n, m, f)
  PROVE  WriteIs(Filled(c), D, F, U, n, m, TRUE)
<1>1. \A v : [c EXCEPT !.full = v] = [disk |-> D, inodes |-> inodes, free |-> F,
                                     mounted |-> mounted, cuts |-> U, inode |-> n,
                                     done |-> m, full |-> v]
  BY SMT DEF WriteIs
<1> QED BY <1>1, Zenon DEF WriteIs, Filled

LEMMA WriteTakes ==
  ASSUME NEW c, NEW D, NEW F, NEW U, NEW n, NEW m, NEW f, WriteIs(c, D, F, U, n, m, f)
  PROVE  WriteIs(Take(c), D, F \ {Min(F)}, U, n, m, f) /\ Allocated(c) = Min(F)
<1>1. Allocated(c) = Min(F)
  BY DEF WriteIs, Allocated
<1> QED BY <1>1 DEF WriteIs, Take

LEMMA WritePoints ==
  ASSUME NEW c, NEW D, NEW F, NEW U, NEW n, NEW m, NEW f, WriteIs(c, D, F, U, n, m, f),
         NEW k, NEW a
  PROVE  /\ WriteIs([c EXCEPT !.inode.direct[k] = a], D, F, U,
                    [n EXCEPT !.direct = With(n.direct, k, a)], m, f)
         /\ WriteIs([c EXCEPT !.inode.indirect = a], D, F, U, [n EXCEPT !.indirect = a], m, f)
<1>1. WriteIs([c EXCEPT !.inode.indirect = a], D, F, U, [n EXCEPT !.indirect = a], m, f)
  BY DEF WriteIs
<1>2. [n EXCEPT !.direct = With(n.direct, k, a)] = [n EXCEPT !.direct[k] = a]
  BY DEF With
<1>3. WriteIs([c EXCEPT !.inode.direct[k] = a], D, F, U, [n EXCEPT !.direct[k] = a], m, f)
  BY DEF WriteIs
<1> QED BY <1>1, <1>2, <1>3

-----------------------------------------------------------------------------
(* fs_write: what is read, meanwhile and in the end.                       *)

\* With the copy n of the inode, the blocks L are read of file i, those of every other
\* file are read as before, and no pointer has changed that was not 0.
Reads(i, L, D, n) ==
  /\ D[0] = disk[0]
  /\ \A j \in Table(setup) : j # i =>
       \A k \in DataSlots : Read(With(inodes, i, n), D, j, k) = Read(inodes, disk, j, k)
  /\ \A k \in DataSlots : Read(With(inodes, i, n), D, i, k) = L[k]
  /\ \A k \in Slots : At(inodes, disk, i, k) \in {0, At(With(inodes, i, n), D, i, k)}

\* A kill leaves the inode of before, which leads to L or to nothing.
CutReads(i, L, x) ==
  /\ x.inodes = inodes /\ x.disk[0] = disk[0]
  /\ \A j \in Table(setup) : j # i =>
       \A k \in DataSlots : Read(inodes, x.disk, j, k) = Read(inodes, disk, j, k)
  /\ \A k \in DataSlots : At(inodes, disk, i, k) = 0 \/ Read(inodes, x.disk, i, k) = L[k]

\* L and M are the same where the inode of before leads.
SameBefore(i, L, M) == \A k \in DataSlots : At(inodes, disk, i, k) = 0 \/ L[k] = M[k]

\* What a write may be cut off in, with the file's blocks P[e] once e are written.
WriteCuts(i, P, U) == /\ SoundCuts(setup, "write", U)
                      /\ \A x \in U : \E e \in DOMAIN P : CutReads(i, P[e], x)

\* The blocks M are L, but for block k.
Changed(L, M, k, v) == /\ k \in DataSlots => M[k] = v
                       /\ \A l \in DataSlots : l # k => M[l] = L[l]

\* The next block to write is k.
Extended(P, m, k, v) == m + 1 \in DOMAIN P /\ Changed(P[m], P[m + 1], k, v)

\* A block that changes may have held something else in between.
LEMMA ChangedTwice ==
  ASSUME NEW L, NEW M, NEW k \in DataSlots, NEW u, NEW v, Changed(L, M, k, v)
  PROVE  \E K : Changed(L, K, k, u) /\ Changed(K, M, k, v)
<1> DEFINE K == [l \in DataSlots |-> IF l = k THEN u ELSE L[l]]
<1>1. Changed(L, K, k, u) /\ Changed(K, M, k, v)
  BY DEF Changed
<1> HIDE DEF K
<1> QED BY <1>1

\* Another content of the disk, for the blocks that hold data.
Unread(J, D, E) == /\ E[0] = D[0]
                   /\ \A j \in Table(setup), l \in DataSlots : E[At(J, D, j, l)] = D[At(J, D, j, l)]

LEMMA UnusedUnread ==
  ASSUME setup \in Setups, NEW J, NEW D, Typed(setup, J, D),
         NEW a \in DataOf(setup) \ Used(J, D), NEW v
  PROVE  Unread(J, D, With(D, a, v))
<1>1. \A x : x # a => With(D, a, v)[x] = D[x]
  BY DEF With
<1>2. a # 0 /\ \A j \in Table(setup), l \in Slots : At(J, D, j, l) # a
  BY UnusedNotIndirect
<1> QED BY <1>1, <1>2, DataSlotKinds DEF Unread

LEMMA IndirectUnread ==
  ASSUME setup \in Setups, NEW J, NEW D, Sound(setup, J, D),
         NEW i \in Table(setup), J[i].indirect # 0, NEW v
  PROVE  Unread(J, D, With(D, J[i].indirect, v))
<1> DEFINE x == J[i].indirect
<1>1. \A y : y # x => With(D, x, v)[y] = D[y]
  BY DEF With
<1>2. At(J, D, i, Direct + Words) = x /\ Direct + Words \in Slots
  BY AtIndirect, SlotKinds
<1>3. ASSUME NEW j \in Table(setup), NEW l \in DataSlots PROVE At(J, D, j, l) # x
  <2>1. \A g, h \in Table(setup), p, q \in Slots :
          At(J, D, g, p) # 0 /\ At(J, D, g, p) = At(J, D, h, q) => g = h /\ p = q
    BY SoundApart
  <2>2. l \in Slots /\ l # Direct + Words
    BY DataSlotKinds
  <2> QED BY <1>2, <2>1, <2>2
<1> HIDE DEF x
<1>4. x # 0
  BY DEF x
<1>5. Unread(J, D, With(D, x, v))
  BY <1>1, <1>3, <1>4 DEF Unread
<1> QED BY <1>5 DEF x

\* A slot gets a block.
LEMMA ReadsGained ==
  ASSUME NEW i \in Table(setup), NEW L, NEW M, NEW D, NEW E, NEW n, NEW o, NEW k \in Slots, NEW a,
         Reads(i, L, D, n), Unread(With(inodes, i, n), D, E),
         Gained(setup, With(inodes, i, n), D, With(inodes, i, o), E, i, k, a),
         Changed(L, M, k, E[a])
  PROVE  Reads(i, M, E, o)
<1> DEFINE J == With(inodes, i, n)
           K == With(inodes, i, o)
<1> HIDE DEF J, K
<1>1. /\ k \in DataSlots => M[k] = E[a]
      /\ \A l \in DataSlots : l # k => M[l] = L[l]
  BY DEF Changed
<1>2. E[0] = disk[0]
  BY DEF Reads, Unread
<1>3. /\ At(J, D, i, k) = 0 /\ At(K, E, i, k) = a
      /\ \A j \in Table(setup), l \in Slots : j # i \/ l # k => At(K, E, j, l) = At(J, D, j, l)
  BY DEF Gained, J, K
<1>4. \A j \in Table(setup), l \in DataSlots : E[At(J, D, j, l)] = D[At(J, D, j, l)]
  BY DEF Unread, J
<1>5. /\ \A j \in Table(setup) : j # i =>
           \A l \in DataSlots : Read(J, D, j, l) = Read(inodes, disk, j, l)
      /\ \A l \in DataSlots : Read(J, D, i, l) = L[l]
      /\ \A l \in Slots : At(inodes, disk, i, l) \in {0, At(J, D, i, l)}
  BY DEF Reads, J
<1>6. ASSUME NEW j \in Table(setup), NEW l \in DataSlots, j # i \/ l # k
      PROVE  Read(K, E, j, l) = Read(J, D, j, l)
  <2>1. At(K, E, j, l) = At(J, D, j, l)
    BY <1>3, <1>6, DataSlotKinds
  <2> QED BY <1>4, <2>1 DEF Read
<1>7. \A j \in Table(setup) : j # i =>
        \A l \in DataSlots : Read(K, E, j, l) = Read(inodes, disk, j, l)
  BY <1>5, <1>6
<1>8. ASSUME NEW l \in DataSlots PROVE Read(K, E, i, l) = M[l]
  <2>1. CASE l = k
    BY <1>1, <1>3, <2>1 DEF Read
  <2>2. CASE l # k
    BY <1>1, <1>5, <1>6, <2>2
  <2> QED BY <2>1, <2>2
<1>9. \A l \in Slots : At(inodes, disk, i, l) \in {0, At(K, E, i, l)}
  BY <1>3, <1>5
<1> QED BY <1>2, <1>7, <1>8, <1>9 DEF Reads, K

\* A block of the file is overwritten.
LEMMA ReadsOverwritten ==
  ASSUME setup \in Setups, NEW i \in Table(setup), NEW L, NEW M, NEW D, NEW n,
         Sound(setup, With(inodes, i, n), D), Reads(i, L, D, n),
         NEW k \in DataSlots, NEW b, b # 0, At(With(inodes, i, n), D, i, k) = b,
         NEW v \in Contents, Changed(L, M, k, v)
  PROVE  Reads(i, M, With(D, b, v), n)
<1> DEFINE J == With(inodes, i, n)
           E == With(D, b, v)
<1>1. Typed(setup, J, D) /\ k \in Slots /\ k # Direct + Words
  BY DataSlotKinds DEF Sound
<1>2. b \in DataOf(setup)
  <2>1. At(J, D, i, k) \in {0} \cup DataOf(setup)
    BY <1>1, SoundRange
  <2> QED BY <2>1
<1>3. E[b] = v /\ \A x : x # b => E[x] = D[x]
  <2>1. D \in [{0} \cup DataOf(setup) -> Contents]
    BY <1>1 DEF Typed
  <2> QED BY <1>2, <2>1 DEF With
<1> HIDE DEF J
<1>4. M[k] = v /\ \A l \in DataSlots : l # k => M[l] = L[l]
  BY DEF Changed
<1>5. \A j, h \in Table(setup), l, m \in Slots :
        At(J, D, j, l) # 0 /\ At(J, D, j, l) = At(J, D, h, m) => j = h /\ l = m
  BY SoundApart DEF J
<1>6. At(J, D, i, k) = b
  BY DEF J
<1>7. \A j \in Table(setup) : J[j].indirect # b
  <2>1. \A j \in Table(setup) : At(J, D, j, Direct + Words) = J[j].indirect
    BY AtIndirect
  <2> QED BY <1>1, <1>5, <1>6, <2>1, SlotKinds
<1>8. \A j \in Table(setup), l \in Slots : At(J, E, j, l) = At(J, D, j, l)
  BY <1>1, <1>2, <1>7, OverwritePointers
<1> HIDE DEF E
<1>9. /\ D[0] = disk[0]
      /\ \A j \in Table(setup) : j # i =>
           \A l \in DataSlots : Read(J, D, j, l) = Read(inodes, disk, j, l)
      /\ \A l \in DataSlots : Read(J, D, i, l) = L[l]
      /\ \A l \in Slots : At(inodes, disk, i, l) \in {0, At(J, D, i, l)}
  BY DEF Reads, J
<1>10. ASSUME NEW j \in Table(setup), NEW l \in DataSlots, j # i \/ l # k
      PROVE  Read(J, E, j, l) = Read(J, D, j, l)
  <2>1. l \in Slots
    BY DataSlotKinds
  <2>2. At(J, D, j, l) # b
    BY <1>1, <1>5, <1>6, <1>10, <2>1
  <2>3. At(J, E, j, l) = At(J, D, j, l)
    BY <1>8, <2>1
  <2> QED BY <1>3, <2>2, <2>3 DEF Read
<1>11. \A j \in Table(setup) : j # i =>
         \A l \in DataSlots : Read(J, E, j, l) = Read(inodes, disk, j, l)
  BY <1>9, <1>10
<1>12. ASSUME NEW l \in DataSlots PROVE Read(J, E, i, l) = M[l]
  <2>1. CASE l = k
    <3>1. At(J, E, i, k) = b
      BY <1>1, <1>6, <1>8
    <3> QED BY <1>3, <1>4, <2>1, <3>1 DEF Read
  <2>2. CASE l # k
    BY <1>4, <1>9, <1>10, <2>2
  <2> QED BY <2>1, <2>2
<1>13. \A l \in Slots : At(inodes, disk, i, l) \in {0, At(J, E, i, l)}
  BY <1>8, <1>9
<1>14. E[0] = disk[0]
  BY <1>3, <1>9
<1> QED BY <1>11, <1>12, <1>13, <1>14 DEF Reads, J, E

-----------------------------------------------------------------------------
(* fs_write: block after block.                                            *)

\* An inode in the middle of a write has the pointers it had before, and more.
Precedes(o, n) == /\ \A k \in 0 .. Direct - 1 : o.direct[k] \in {0, n.direct[k]}
                  /\ o.indirect \in {0, n.indirect}

\* With the inode as it will be saved, the disk is sound at any time, and the file is
\* read as it should be when m blocks are written.
WriteSound(i, P, D, F, U, n, m) ==
  /\ n \in InodesOn(setup) /\ n.valid = TRUE /\ Precedes(inodes[i], n)
  /\ n.size = inodes[i].size
  /\ Sound(setup, With(inodes, i, n), D)
  /\ F = DataOf(setup) \ Used(With(inodes, i, n), D)
  /\ WriteCuts(i, P, U)
  /\ m \in DOMAIN P /\ m \in Nat /\ Reads(i, P[m], D, n)

\* m blocks are written of t; fewer if the disk was full.
Got(m, t, f) == f = TRUE \/ (f = FALSE /\ m = t)

Progress(i, P, t, c) == \E D, F, U, n, m, f : /\ WriteIs(c, D, F, U, n, m, f)
                                              /\ WriteSound(i, P, D, F, U, n, m)
                                              /\ Got(m, t, f)

LEMMA ProgressMade ==
  ASSUME NEW i, NEW P, NEW c, NEW D, NEW F, NEW U, NEW n, NEW m, NEW f, f = FALSE,
         WriteIs(c, D, F, U, n, m, f), WriteSound(i, P, D, F, U, n, m)
  PROVE  Progress(i, P, m, c)
<1>1. Got(m, m, f)
  BY Zenon DEF Got
<1> QED BY <1>1, Zenon DEF Progress

LEMMA ProgressFull ==
  ASSUME NEW i, NEW P, NEW c, NEW D, NEW F, NEW U, NEW n, NEW m, NEW f, f = TRUE, NEW t,
         WriteIs(c, D, F, U, n, m, f), WriteSound(i, P, D, F, U, n, m)
  PROVE  Progress(i, P, t, c)
<1>1. Got(m, t, f)
  BY Zenon DEF Got
<1> QED BY <1>1, Zenon DEF Progress

\* A copy of an inode with another pointer, or another size.
LEMMA WithDirect ==
  ASSUME NEW s \in Setups, NEW n \in InodesOn(s), NEW a \in BlocksOn(s),
         NEW k \in 0 .. Direct - 1, NEW o, o = [n EXCEPT !.direct = With(n.direct, k, a)]
  PROVE  /\ o \in InodesOn(s) /\ o.valid = n.valid /\ o.size = n.size
         /\ o.indirect = n.indirect /\ o.direct = With(n.direct, k, a)
<1>1. With(n.direct, k, a) \in [0 .. Direct - 1 -> BlocksOn(s)]
  BY InodeIs DEF With
<1> QED BY <1>1 DEF InodesOn

LEMMA WithIndirectBlock ==
  ASSUME NEW s \in Setups, NEW n \in InodesOn(s), NEW a \in BlocksOn(s),
         NEW o, o = [n EXCEPT !.indirect = a]
  PROVE  /\ o \in InodesOn(s) /\ o.valid = n.valid /\ o.size = n.size
         /\ o.indirect = a /\ o.direct = n.direct
BY DEF InodesOn

LEMMA WithSize ==
  ASSUME NEW s \in Setups, NEW n \in InodesOn(s), NEW z \in 0 .. MaxSize,
         NEW o, o = [n EXCEPT !.size = z]
  PROVE  /\ o \in InodesOn(s) /\ o.valid = n.valid /\ o.size = z
         /\ o.indirect = n.indirect /\ o.direct = n.direct
BY DEF InodesOn

LEMMA ReplacedIs ==
  ASSUME IInv, NEW i \in Table(setup), NEW n \in InodesOn(setup), n.valid = TRUE,
         NEW o \in InodesOn(setup), o.valid = TRUE
  PROVE  /\ Replaced(setup, With(inodes, i, o), With(inodes, i, n), i)
         /\ With(inodes, i, n)[i] = n
         /\ \A j \in Table(setup) : j # i => With(inodes, i, n)[j] = inodes[j]
<1>1. /\ setup \in Setups /\ Sound(setup, inodes, disk)
      /\ inodes \in [Table(setup) -> InodesOn(setup)]
  BY Parts DEF Sound, Typed
<1>2. /\ With(inodes, i, n) \in [Table(setup) -> InodesOn(setup)]
      /\ With(inodes, i, n)[i] = n
      /\ \A j \in Table(setup) : j # i => With(inodes, i, n)[j] = inodes[j]
  BY <1>1 DEF With
<1>3. \A j \in Table(setup) : j # i => With(inodes, i, o)[j] = inodes[j]
  BY <1>1 DEF With
<1>4. EmptyUnlessValid(With(inodes, i, n))
  BY <1>1, <1>2, SoundEmpty DEF EmptyUnlessValid
<1> QED BY <1>2, <1>3, <1>4 DEF Replaced

\* The inode of before the write can be left on the disk, too.
LEMMA CutSound ==
  ASSUME Careful, IInv, NEW i \in Table(setup), NEW n \in InodesOn(setup), n.valid = TRUE,
         Precedes(inodes[i], n), NEW D, Sound(setup, With(inodes, i, n), D),
         NEW U, SoundCuts(setup, "write", U), NEW F
  PROVE  SoundCuts(setup, "write", U \cup {Cut(D, F)})
<1> DEFINE J == With(inodes, i, n)
<1>1. setup \in Setups /\ Sound(setup, inodes, disk) /\ Typed(setup, inodes, disk)
      /\ EmptyUnlessValid(inodes)
  BY Parts DEF Sound
<1>2. "write" \notin setup.failing /\ ("write" \in setup.killed => ~ LeavesNoData(setup))
  BY <1>1, Cautious
<1>3. /\ J[i] = n /\ \A j \in Table(setup) : j # i => J[j] = inodes[j]
  BY ReplacedIs
<1>4. Typed(setup, J, D) /\ Typed(setup, inodes, D)
  BY <1>1 DEF Sound, Typed
<1> HIDE DEF J
<1>5. ASSUME NEW k \in Slots PROVE At(inodes, D, i, k) \in {0, At(J, D, i, k)}
  <2>1. CASE k \in 0 .. Direct - 1
    <3>1. At(inodes, D, i, k) = inodes[i].direct[k]
      BY <2>1, AtDirect
    <3>2. At(J, D, i, k) = n.direct[k]
      BY <1>3, <2>1, AtDirect
    <3> QED BY <2>1, <3>1, <3>2 DEF Precedes
  <2>2. CASE k = Direct + Words
    <3>1. At(inodes, D, i, k) = inodes[i].indirect
      BY <2>2, AtIndirect
    <3>2. At(J, D, i, k) = n.indirect
      BY <1>3, <2>2, AtIndirect
    <3> QED BY <3>1, <3>2 DEF Precedes
  <2>3. ASSUME NEW w \in 0 .. Words - 1, k = Direct + w
        PROVE  At(inodes, D, i, k) \in {0, At(J, D, i, k)}
    <3>1. At(inodes, D, i, k) = IF inodes[i].indirect = 0 THEN 0 ELSE D[inodes[i].indirect][w]
      BY <2>3, AtBehind
    <3>2. At(J, D, i, k) = IF n.indirect = 0 THEN 0 ELSE D[n.indirect][w]
      BY <1>3, <2>3, AtBehind
    <3>3. inodes[i].indirect = 0 \/ inodes[i].indirect = n.indirect
      BY DEF Precedes
    <3> QED BY <3>1, <3>2, <3>3
  <2> QED BY <2>1, <2>2, <2>3, SlotKinds
<1>6. \A j \in Table(setup), k \in Slots : At(inodes, D, j, k) \in {0, At(J, D, j, k)}
  <2>1. \A j \in Table(setup), k \in Slots : j # i => At(inodes, D, j, k) = At(J, D, j, k)
    BY <1>3 DEF At
  <2> QED BY <1>5, <2>1
<1>7. "write" \in setup.killed => Sound(setup, inodes, D)
  <2>1. SUFFICES ASSUME ~ LeavesNoData(setup) PROVE Sound(setup, inodes, D)
    BY <1>2
  <2>2. Sound(setup, J, D)
    BY DEF J
  <2> QED BY <1>1, <1>4, <1>6, <2>1, <2>2, Shrinks
<1>8. IsSnapshot(Cut(D, F)) /\ Cut(D, F).inodes = inodes /\ Cut(D, F).disk = D
  BY DEF Cut, IsSnapshot
<1> QED BY <1>2, <1>7, <1>8 DEF SoundCuts

\* Besides, it leads to the blocks it led to before, and what is in them now.
LEMMA CutKeeps ==
  ASSUME Careful, IInv, NEW i \in Table(setup), NEW n \in InodesOn(setup), n.valid = TRUE,
         Precedes(inodes[i], n), NEW D, Sound(setup, With(inodes, i, n), D),
         NEW P, NEW U, WriteCuts(i, P, U), NEW F,
         NEW L, Reads(i, L, D, n), NEW e \in DOMAIN P, SameBefore(i, L, P[e])
  PROVE  WriteCuts(i, P, U \cup {Cut(D, F)})
<1> DEFINE J == With(inodes, i, n)
<1>1. SoundCuts(setup, "write", U \cup {Cut(D, F)})
  BY CutSound DEF WriteCuts
<1>2. /\ J[i] = n /\ \A j \in Table(setup) : j # i => J[j] = inodes[j]
  BY ReplacedIs
<1>3. /\ D[0] = disk[0]
      /\ \A j \in Table(setup) : j # i =>
           \A k \in DataSlots : Read(J, D, j, k) = Read(inodes, disk, j, k)
      /\ \A k \in DataSlots : Read(J, D, i, k) = L[k]
  BY DEF Reads
<1> HIDE DEF J
<1>4. \A j \in Table(setup) : j # i =>
        \A k \in DataSlots : Read(inodes, D, j, k) = Read(inodes, disk, j, k)
  <2>1. \A j \in Table(setup) : j # i =>
          \A k \in DataSlots : Read(inodes, D, j, k) = Read(J, D, j, k)
    BY <1>2 DEF Read, At
  <2> QED BY <1>3, <2>1
<1>5. ASSUME NEW k \in DataSlots, At(inodes, disk, i, k) # 0
      PROVE  Read(inodes, D, i, k) = P[e][k]
  <2>1. At(inodes, D, i, k) = At(J, D, i, k)
    <3>1. CASE k \in 0 .. Direct - 1
      <4>1. At(inodes, D, i, k) = inodes[i].direct[k] /\ At(J, D, i, k) = n.direct[k]
            /\ At(inodes, disk, i, k) = inodes[i].direct[k]
        BY <1>2, <3>1, AtDirect
      <4> QED BY <1>5, <3>1, <4>1 DEF Precedes
    <3>2. ASSUME NEW w \in 0 .. Words - 1, k = Direct + w
          PROVE  At(inodes, D, i, k) = At(J, D, i, k)
      <4>1. At(inodes, disk, i, k)
              = IF inodes[i].indirect = 0 THEN 0 ELSE disk[inodes[i].indirect][w]
        BY <3>2, AtBehind
      <4>2. At(inodes, D, i, k) = IF inodes[i].indirect = 0 THEN 0 ELSE D[inodes[i].indirect][w]
        BY <3>2, AtBehind
      <4>3. At(J, D, i, k) = IF n.indirect = 0 THEN 0 ELSE D[n.indirect][w]
        BY <1>2, <3>2, AtBehind
      <4>4. inodes[i].indirect # 0 /\ inodes[i].indirect = n.indirect
        BY <1>5, <4>1 DEF Precedes
      <4> QED BY <4>2, <4>3, <4>4
    <3> QED BY <3>1, <3>2, DataSlotKinds
  <2>2. L[k] = P[e][k] /\ Read(J, D, i, k) = L[k]
    BY <1>3, <1>5 DEF SameBefore
  <2> QED BY <2>1, <2>2 DEF Read
<1>6. Cut(D, F).inodes = inodes /\ Cut(D, F).disk = D
  BY DEF Cut
<1>7. CutReads(i, P[e], Cut(D, F))
  BY <1>3, <1>4, <1>5, <1>6 DEF CutReads
<1> QED BY <1>1, <1>7 DEF WriteCuts

\* As long as the file is read as when e blocks were written.
LEMMA CutReached ==
  ASSUME Careful, IInv, NEW i \in Table(setup), NEW n \in InodesOn(setup), n.valid = TRUE,
         Precedes(inodes[i], n), NEW D, Sound(setup, With(inodes, i, n), D),
         NEW P, NEW U, WriteCuts(i, P, U), NEW F, NEW e \in DOMAIN P, Reads(i, P[e], D, n)
  PROVE  WriteCuts(i, P, U \cup {Cut(D, F)})
<1>1. SameBefore(i, P[e], P[e])
  BY DEF SameBefore
<1> QED BY <1>1, CutKeeps

-----------------------------------------------------------------------------
LEMMA WriteDirectKeeps ==
  ASSUME Careful, IInv, NEW i \in Table(setup),
         NEW c, NEW P, NEW D, NEW F, NEW U, NEW n, NEW m, NEW f,
         WriteIs(c, D, F, U, n, m, f), WriteSound(i, P, D, F, U, n, m), f = FALSE,
         NEW k \in 0 .. Direct - 1, HasRoom(setup) => k \in Reach,
         NEW v \in Contents, Extended(P, m, k, v)
  PROVE  Progress(i, P, m + 1, WriteDirect(c, k, v))
<1> DEFINE J == With(inodes, i, n)
           b == n.direct[k]
           V == U \cup {Cut(D, F)}
<1>1. /\ setup \in Setups /\ n \in InodesOn(setup) /\ n.valid = TRUE /\ Precedes(inodes[i], n)
      /\ Sound(setup, J, D) /\ F = DataOf(setup) \ Used(J, D)
      /\ n.size = inodes[i].size /\ WriteCuts(i, P, U)
      /\ m \in DOMAIN P /\ m \in Nat /\ Reads(i, P[m], D, n)
  BY Parts DEF WriteSound
<1>2. /\ c.inode.direct[k] = b /\ c.free = F
  BY WriteParts
<1>3. m + 1 \in DOMAIN P /\ Changed(P[m], P[m + 1], k, v) /\ k \in DataSlots
  BY DataSlotKinds DEF Extended
<1>4. J[i] = n
  BY <1>1, ReplacedIs
<1>5. k \in Slots /\ k # Direct + Words /\ At(J, D, i, k) = b
  BY <1>4, SlotKinds, AtDirect
<1> HIDE DEF J, b
<1>6. CASE b # 0
  <2> DEFINE p == Put(c, b, v)
  <2>1. WriteDirect(c, k, v) = Counted(p)
    BY <1>2, <1>6 DEF WriteDirect, Counted
  <2>2. WriteIs(p, With(D, b, v), F, V, n, m, f)
    BY WritePuts
  <2> HIDE DEF p
  <2>3. WriteIs(Counted(p), With(D, b, v), F, V, n, m + 1, f)
    BY <2>2, WriteCounts
  <2>4. Sound(setup, J, With(D, b, v)) /\ Used(J, With(D, b, v)) = Used(J, D)
    BY <1>1, <1>5, <1>6, OverwriteSound
  <2>5. WriteCuts(i, P, V)
    BY <1>1, CutReached DEF J
  <2>6. Reads(i, P[m + 1], With(D, b, v), n)
    BY <1>1, <1>3, <1>5, <1>6, ReadsOverwritten DEF J
  <2>7. WriteSound(i, P, With(D, b, v), F, V, n, m + 1)
    BY <1>1, <1>3, <2>4, <2>5, <2>6 DEF WriteSound, J
  <2> QED BY <2>1, <2>3, <2>7, ProgressMade
<1>7. CASE b = 0 /\ F = {}
  <2>1. WriteDirect(c, k, v) = Filled(c)
    BY <1>2, <1>7 DEF WriteDirect, Filled
  <2>2. WriteIs(Filled(c), D, F, U, n, m, TRUE)
    BY WriteFills
  <2> QED BY <2>1, <2>2, ProgressFull
<1>8. CASE b = 0 /\ F # {}
  <2> DEFINE a == Min(F)
             n1 == [n EXCEPT !.direct = With(n.direct, k, a)]
             J1 == With(inodes, i, n1)
             t == Take(c)
             q == [t EXCEPT !.inode.direct[k] = a]
             p == Put(q, a, v)
             W == U \cup {Cut(D, F \ {a})}
  <2>1. a \in F /\ a \in DataOf(setup) \ Used(J, D) /\ a \in BlocksOn(setup)
    <3>1. F \in SUBSET Nat
      BY <1>1, SetupLayout
    <3>2. a \in F
      BY <1>8, <3>1, MinOf
    <3> QED BY <1>1, <3>2, SetupLayout
  <2>2. WriteIs(t, D, F \ {a}, U, n, m, f) /\ Allocated(c) = a
    BY WriteTakes
  <2>3. WriteDirect(c, k, v) = Counted(p)
    <3>1. c.inode.direct[k] = 0 /\ c.free # {}
      BY <1>2, <1>8
    <3> QED BY <2>2, <3>1 DEF WriteDirect, Counted
  <2>4. /\ n1 \in InodesOn(setup) /\ n1.valid = TRUE /\ n1.size = n.size
        /\ n1.indirect = n.indirect /\ n1.direct = With(n.direct, k, a)
    <3> HIDE DEF a, n1
    <3>1. n1 = [n EXCEPT !.direct = With(n.direct, k, a)]
      BY DEF n1
    <3> QED BY <1>1, <2>1, <3>1, WithDirect
  <2> HIDE DEF t
  <2>5. WriteIs(q, D, F \ {a}, U, n1, m, f)
    <3> HIDE DEF a, n1
    <3> QED BY <2>2, WritePoints DEF n1
  <2> HIDE DEF q
  <2>6. WriteIs(p, With(D, a, v), F \ {a}, W, n1, m, f)
    BY <2>5, WritePuts
  <2> HIDE DEF a, n1, p
  <2>7. WriteIs(Counted(p), With(D, a, v), F \ {a}, W, n1, m + 1, f)
    BY <2>6, WriteCounts
  <2>8. With(D, a, v)[a] = v
    BY <1>1, <2>1 DEF Sound, Typed, With
  <2>9. Precedes(inodes[i], n1)
    <3>1. n.direct \in [0 .. Direct - 1 -> BlocksOn(setup)]
      BY <1>1, InodeIs
    <3>2. \A l \in 0 .. Direct - 1 : l # k => n1.direct[l] = n.direct[l]
      BY <2>4, <3>1 DEF With
    <3>3. inodes[i].direct[k] = 0
      BY <1>1, <1>8 DEF Precedes, b
    <3> QED BY <1>1, <2>4, <3>2, <3>3 DEF Precedes
  <2>10. /\ Sound(setup, J1, With(D, a, v)) /\ Used(J1, With(D, a, v)) = Used(J, D) \cup {a}
        /\ Gained(setup, J, D, J1, With(D, a, v), i, k, a)
    <3>1. Replaced(setup, J, J1, i) /\ J1[i] = n1
      BY <1>1, <2>4, ReplacedIs DEF J
    <3>2. J[i].direct[k] = 0
      BY <1>4, <1>8 DEF b
    <3> HIDE DEF J1
    <3>3. J1[i].indirect = J[i].indirect /\ J1[i].direct = With(J[i].direct, k, a)
      BY <1>4, <2>4, <3>1
    <3> QED BY <1>1, <2>1, <3>1, <3>2, <3>3, GainsDirect
  <2>11. F \ {a} = DataOf(setup) \ Used(J1, With(D, a, v))
    BY <1>1, <2>10
  <2>12. WriteCuts(i, P, W)
    BY <1>1, CutReached DEF J
  <2>13. Reads(i, P[m + 1], With(D, a, v), n1)
    <3>1. Unread(J, D, With(D, a, v))
      BY <1>1, <2>1, UnusedUnread DEF Sound
    <3> QED BY <1>1, <1>3, <1>5, <2>8, <2>10, <3>1, ReadsGained DEF J
  <2>14. WriteSound(i, P, With(D, a, v), F \ {a}, W, n1, m + 1)
    BY <1>1, <1>3, <2>4, <2>9, <2>10, <2>11, <2>12, <2>13 DEF WriteSound
  <2> QED BY <2>3, <2>7, <2>14, ProgressMade
<1> QED BY <1>6, <1>7, <1>8

-----------------------------------------------------------------------------
HasIndirect(n) == n.indirect # 0

\* A block behind the indirect block that the inode has.
LEMMA WriteBehindKeeps ==
  ASSUME Careful, IInv, NEW i \in Table(setup),
         NEW c, NEW P, NEW D, NEW F, NEW U, NEW n, NEW m, NEW f,
         WriteIs(c, D, F, U, n, m, f), WriteSound(i, P, D, F, U, n, m), f = FALSE,
         NEW w \in 0 .. Words - 1, HasRoom(setup) => Direct + w \in Reach,
         NEW v \in Contents, Extended(P, m, Direct + w, v), HasIndirect(n)
  PROVE  Progress(i, P, m + 1, WriteIndirect(c, w, v))
<1> DEFINE J == With(inodes, i, n)
           x == n.indirect
           b == D[x][w]
           V == U \cup {Cut(D, F)}
           e == Issue(c)
<1>1. n.indirect # 0
  BY DEF HasIndirect
<1>2. /\ setup \in Setups /\ n \in InodesOn(setup) /\ n.valid = TRUE /\ Precedes(inodes[i], n)
      /\ Sound(setup, J, D) /\ F = DataOf(setup) \ Used(J, D)
      /\ n.size = inodes[i].size /\ WriteCuts(i, P, U)
      /\ m \in DOMAIN P /\ m \in Nat /\ Reads(i, P[m], D, n)
  BY Parts DEF WriteSound
<1>3. J[i] = n
  BY <1>2, ReplacedIs
<1>4. Direct + w \in Slots /\ Direct + w # Direct + Words /\ At(J, D, i, Direct + w) = b
  BY <1>1, <1>3, SlotKinds, AtBehind
<1>5. WriteIs(e, D, F, V, n, m, f)
  BY WriteIssues
<1>6. WithIndirect(c) = e /\ Pointers(c) = D[x]
  BY <1>1, WriteParts DEF WithIndirect, Pointers
<1>7. e.full = f /\ e.free = F /\ e.inode = n
  BY <1>5, WriteParts
<1>8. WriteCuts(i, P, V)
  BY <1>2, CutReached
<1>9. /\ m + 1 \in DOMAIN P /\ Changed(P[m], P[m + 1], Direct + w, v)
       /\ Direct + w \in DataSlots
  BY DataSlotKinds DEF Extended
<1> HIDE DEF J, b, e, x, V
<1>10. CASE b # 0
  <2> DEFINE p == Put(e, b, v)
             W == V \cup {Cut(D, F)}
  <2>1. WriteIndirect(c, w, v) = Counted(p)
    BY <1>6, <1>7, <1>10 DEF WriteIndirect, Counted, b
  <2>2. WriteIs(p, With(D, b, v), F, W, n, m, f)
    BY <1>5, WritePuts
  <2> HIDE DEF p
  <2>3. WriteIs(Counted(p), With(D, b, v), F, W, n, m + 1, f)
    BY <2>2, WriteCounts
  <2>4. Sound(setup, J, With(D, b, v)) /\ Used(J, With(D, b, v)) = Used(J, D)
    BY <1>2, <1>4, <1>10, OverwriteSound
  <2>5. WriteCuts(i, P, W)
    BY <1>2, <1>8, CutReached DEF J
  <2>6. Reads(i, P[m + 1], With(D, b, v), n)
    BY <1>2, <1>4, <1>9, <1>10, ReadsOverwritten DEF J
  <2>7. WriteSound(i, P, With(D, b, v), F, W, n, m + 1)
    BY <1>2, <1>9, <2>4, <2>5, <2>6 DEF WriteSound, J
  <2> QED BY <2>1, <2>3, <2>7, ProgressMade
<1>11. CASE b = 0 /\ F = {}
  <2>1. WriteIndirect(c, w, v) = Filled(e)
    BY <1>6, <1>7, <1>11 DEF WriteIndirect, Filled, b
  <2>2. WriteIs(Filled(e), D, F, V, n, m, TRUE)
    BY <1>5, WriteFills
  <2>3. WriteSound(i, P, D, F, V, n, m)
    BY <1>2, <1>8 DEF WriteSound, J
  <2> QED BY <2>1, <2>2, <2>3, ProgressFull
<1>12. CASE b = 0 /\ F # {}
  <2> DEFINE a == Min(F)
             G == F \ {a}
             t == Take(e)
             D1 == With(D, x, With(D[x], w, a))
             q == Put(t, x, With(D[x], w, a))
             p == Put(q, a, v)
             W == V \cup {Cut(D, G)}
             X == W \cup {Cut(D1, G)}
  <2>1. a \in F /\ a \in DataOf(setup) \ Used(J, D) /\ a # 0
    <3>1. F \in SUBSET Nat
      BY <1>2, SetupLayout
    <3>2. a \in F
      BY <1>12, <3>1, MinOf
    <3> QED BY <1>2, <3>2, SetupLayout
  <2>2. WriteIs(t, D, G, V, n, m, f) /\ Allocated(e) = a
    BY <1>5, WriteTakes
  <2>3. WriteIndirect(c, w, v) = Counted(p)
    <3>1. With(D[x], w, a) = [D[x] EXCEPT ![w] = a] /\ Pointers(c)[w] = 0
      BY <1>6, <1>12 DEF With, b
    <3> HIDE DEF a
    <3> QED BY <1>6, <1>7, <1>12, <2>2, <3>1 DEF WriteIndirect, Counted, x
  <2> HIDE DEF t, G, a
  <2>4. WriteIs(q, D1, G, W, n, m, f)
    BY <2>2, WritePuts
  <2> HIDE DEF q, D1
  <2>5. WriteIs(p, With(D1, a, v), G, X, n, m, f)
    BY <2>4, WritePuts
  <2> HIDE DEF p
  <2>6. WriteIs(Counted(p), With(D1, a, v), G, X, n, m + 1, f)
    BY <2>5, WriteCounts
  <2>7. /\ Sound(setup, J, D1) /\ Used(J, D1) = Used(J, D) \cup {a}
        /\ At(J, D1, i, Direct + w) = a
        /\ Gained(setup, J, D, J, D1, i, Direct + w, a)
    <3>1. x # 0 /\ J[i].indirect = x /\ D[x][w] = 0
      BY <1>1, <1>3, <1>12 DEF b, x
    <3> QED BY <1>2, <2>1, <3>1, GainsBehind DEF D1
  <2>8. Sound(setup, J, With(D1, a, v)) /\ Used(J, With(D1, a, v)) = Used(J, D1)
    BY <1>2, <1>4, <2>1, <2>7, OverwriteSound
  <2>9. G = DataOf(setup) \ Used(J, With(D1, a, v))
    BY <1>2, <2>7, <2>8 DEF G
  <2>10. WriteCuts(i, P, W)
    BY <1>2, <1>8, CutReached DEF J
  <2> HIDE DEF W
  <2>11. PICK M : Changed(P[m], M, Direct + w, D1[a]) /\ Changed(M, P[m + 1], Direct + w, v)
    BY <1>9, ChangedTwice
  <2>12. Reads(i, M, D1, n)
    <3>1. Unread(J, D, D1)
      BY <1>1, <1>2, <1>3, IndirectUnread DEF D1, x
    <3> QED BY <1>2, <1>4, <2>7, <2>11, <3>1, ReadsGained DEF J
  <2>13. Reads(i, P[m + 1], With(D1, a, v), n)
    BY <1>2, <1>9, <2>1, <2>7, <2>11, <2>12, ReadsOverwritten DEF J
  <2>14. SameBefore(i, M, P[m])
    <3>1. At(inodes, disk, i, Direct + w) = 0
      BY <1>2, <1>4, <1>12 DEF Reads, J
    <3> QED BY <2>11, <3>1 DEF Changed, SameBefore
  <2>15. WriteCuts(i, P, X)
    BY <1>2, <2>7, <2>10, <2>12, <2>14, CutKeeps DEF J
  <2>16. WriteSound(i, P, With(D1, a, v), G, X, n, m + 1)
    BY <1>2, <1>9, <2>8, <2>9, <2>13, <2>15 DEF WriteSound, J
  <2> QED BY <2>3, <2>6, <2>16, ProgressMade
<1> QED BY <1>10, <1>11, <1>12

-----------------------------------------------------------------------------
\* A block of a file that has no indirect block yet: it takes two.
LEMMA WriteFirstBehindKeeps ==
  ASSUME Careful, IInv, NEW i \in Table(setup),
         NEW c, NEW P, NEW D, NEW F, NEW U, NEW n, NEW m, NEW f,
         WriteIs(c, D, F, U, n, m, f), WriteSound(i, P, D, F, U, n, m), f = FALSE,
         NEW w \in 0 .. Words - 1, HasRoom(setup) => Direct + w \in Reach,
         HasRoom(setup) => Direct + Words \in Reach,
         NEW v \in Contents, Extended(P, m, Direct + w, v), n.indirect = 0
  PROVE  Progress(i, P, m + 1, WriteIndirect(c, w, v))
<1> DEFINE J == With(inodes, i, n)
<1>1. /\ setup \in Setups /\ n \in InodesOn(setup) /\ n.valid = TRUE /\ Precedes(inodes[i], n)
      /\ Sound(setup, J, D) /\ F = DataOf(setup) \ Used(J, D)
      /\ n.size = inodes[i].size /\ WriteCuts(i, P, U)
      /\ m \in DOMAIN P /\ m \in Nat /\ Reads(i, P[m], D, n)
  BY Parts DEF WriteSound
<1>2. J[i] = n
  BY <1>1, ReplacedIs
<1>3. c.free = F /\ c.inode = n /\ c.full = f /\ c.disk = D
  BY WriteParts
<1>4. Pointers(c) = Zeros /\ Zeros[w] = 0
  BY <1>3 DEF Pointers, Zeros
<1>5. /\ m + 1 \in DOMAIN P /\ Changed(P[m], P[m + 1], Direct + w, v)
      /\ Direct + w \in DataSlots
  BY DataSlotKinds DEF Extended
<1> HIDE DEF J
<1>6. CASE F = {}
  <2>1. WithIndirect(c) = Filled(c)
    BY <1>3, <1>6 DEF WithIndirect, Filled
  <2>2. WriteIs(Filled(c), D, F, U, n, m, TRUE)
    BY WriteFills
  <2>3. Filled(c).full = TRUE
    BY <2>2, WriteParts
  <2>4. WriteIndirect(c, w, v) = Filled(c)
    BY <2>1, <2>3 DEF WriteIndirect
  <2> QED BY <2>2, <2>4, ProgressFull
<1>7. CASE F # {}
  <2> DEFINE x == Min(F)
             F1 == F \ {x}
             n1 == [n EXCEPT !.indirect = x]
             J1 == With(inodes, i, n1)
             D0 == With(D, x, Zeros)
             s == Take(c)
             e == [s EXCEPT !.inode.indirect = x]
  <2>1. x \in F /\ x \in DataOf(setup) \ Used(J, D) /\ x \in BlocksOn(setup) /\ x # 0
    <3>1. F \in SUBSET Nat
      BY <1>1, SetupLayout
    <3>2. x \in F
      BY <1>7, <3>1, MinOf
    <3> QED BY <1>1, <3>2, SetupLayout
  <2>2. WriteIs(s, D, F1, U, n, m, f) /\ Allocated(c) = x
    BY WriteTakes
  <2>3. WithIndirect(c) = e
    BY <1>3, <1>7, <2>2 DEF WithIndirect
  <2> HIDE DEF s, x, F1
  <2>4. WriteIs(e, D, F1, U, n1, m, f)
    BY <2>2, WritePoints
  <2>5. e.full = f /\ e.free = F1 /\ e.inode = n1
    BY <2>4, WriteParts
  <2> HIDE DEF e
  <2>6. /\ n1 \in InodesOn(setup) /\ n1.valid = TRUE /\ n1.indirect = x
        /\ n1.direct = n.direct /\ n1.size = n.size
    <3>1. n1 = [n EXCEPT !.indirect = x]
      OBVIOUS
    <3> HIDE DEF n1
    <3> QED BY <1>1, <2>1, <3>1, WithIndirectBlock
  <2> HIDE DEF n1
  <2>7. Precedes(inodes[i], n1)
    BY <1>1, <2>6 DEF Precedes
  <2>8. /\ Sound(setup, J1, D0) /\ Used(J1, D0) = Used(J, D) \cup {x} /\ J1[i] = n1
        /\ Gained(setup, J, D, J1, D0, i, Direct + Words, x)
    <3>1. Replaced(setup, J, J1, i) /\ J1[i] = n1
      BY <1>1, <2>6, ReplacedIs DEF J
    <3> HIDE DEF J1
    <3>2. J[i].indirect = 0 /\ J1[i].indirect = x /\ J1[i].direct = J[i].direct
      BY <1>2, <2>6, <3>1
    <3> QED BY <1>1, <2>1, <3>1, <3>2, GainsIndirect
  <2>9. /\ F1 = DataOf(setup) \ Used(J1, D0)
        /\ D \in [{0} \cup DataOf(setup) -> Contents]
    BY <1>1, <2>8 DEF F1, Sound, Typed
  <2>10. D0[x] = Zeros
    BY <2>1, <2>9 DEF With
  <2>11. Reads(i, P[m], D0, n1)
    <3>1. Unread(J, D, D0)
      BY <1>1, <2>1, UnusedUnread DEF Sound
    <3>2. Changed(P[m], P[m], Direct + Words, D0[x])
      BY DataSlotKinds DEF Changed
    <3> HIDE DEF D0
    <3> QED BY <1>1, <2>8, <3>1, <3>2, SlotKinds, ReadsGained DEF J
  <2> HIDE DEF J1
  <2>12. CASE F1 = {}
    <3>1. WriteIndirect(c, w, v) = Filled(e)
      BY <1>4, <2>3, <2>5, <2>12 DEF WriteIndirect, Filled
    <3>2. WriteIs(Filled(e), D, F1, U, n1, m, TRUE)
      BY <2>4, WriteFills
    <3>3. LeavesNoData(setup)
      <4>1. SUFFICES ASSUME HasRoom(setup) PROVE FALSE
        BY <1>1, Cautious
      <4>2. At(J1, D0, i, Direct + w) = 0
        BY <1>4, <2>6, <2>8, <2>10, AtBehind
      <4>3. DataOf(setup) \ Used(J1, D0) # {}
        BY <1>1, <2>8, <4>1, <4>2, NotFull
      <4> QED BY <2>9, <2>12, <4>3
    <3>4. D0 = D
      <4>1. D[x] = Zeros
        BY <1>1, <2>1, <3>3, SoundClean
      <4> QED BY <2>9, <4>1 DEF With
    <3>5. WriteSound(i, P, D, F1, U, n1, m)
      BY <1>1, <2>6, <2>7, <2>8, <2>9, <2>11, <3>4 DEF WriteSound, J1
    <3> QED BY <3>1, <3>2, <3>5, ProgressFull
  <2>13. CASE F1 # {}
    <3> DEFINE a == Min(F1)
               G == F1 \ {a}
               t == Take(e)
               D1 == With(D, x, With(Zeros, w, a))
               q == Put(t, x, With(Zeros, w, a))
               p == Put(q, a, v)
               W == U \cup {Cut(D, G)}
               X == W \cup {Cut(D1, G)}
    <3>1. a \in F1 /\ a \in DataOf(setup) \ Used(J1, D0) /\ a # 0
      <4>1. F1 \in SUBSET Nat
        BY <1>1, <2>9, SetupLayout
      <4>2. a \in F1
        BY <2>13, <4>1, MinOf
      <4> QED BY <1>1, <2>9, <4>2, SetupLayout
    <3>2. WriteIs(t, D, G, U, n1, m, f) /\ Allocated(e) = a
      BY <2>4, WriteTakes
    <3>3. WriteIndirect(c, w, v) = Counted(p)
      <4>1. With(Zeros, w, a) = [Zeros EXCEPT ![w] = a] /\ Pointers(c)[w] = 0
        BY <1>4 DEF With
      <4> HIDE DEF a
      <4> QED BY <1>4, <2>3, <2>5, <2>6, <2>13, <3>2, <4>1 DEF WriteIndirect, Counted
    <3> HIDE DEF t, G, a
    <3>4. WriteIs(q, D1, G, W, n1, m, f)
      BY <3>2, WritePuts
    <3> HIDE DEF q, D1
    <3>5. WriteIs(p, With(D1, a, v), G, X, n1, m, f)
      BY <3>4, WritePuts
    <3> HIDE DEF p
    <3>6. WriteIs(Counted(p), With(D1, a, v), G, X, n1, m + 1, f)
      BY <3>5, WriteCounts
    <3>7. D1 = With(D0, x, With(D0[x], w, a))
      BY <2>9, <2>10 DEF D1, With
    <3> HIDE DEF D0
    <3>8. /\ Sound(setup, J1, D1) /\ Used(J1, D1) = Used(J1, D0) \cup {a}
          /\ At(J1, D1, i, Direct + w) = a
          /\ Gained(setup, J1, D0, J1, D1, i, Direct + w, a)
      <4>1. x # 0 /\ J1[i].indirect = x /\ D0[x][w] = 0
        BY <1>4, <2>1, <2>6, <2>8, <2>10
      <4> QED BY <1>1, <2>8, <3>1, <3>7, <4>1, GainsBehind
    <3>9. Sound(setup, J1, With(D1, a, v)) /\ Used(J1, With(D1, a, v)) = Used(J1, D1)
      <4>1. Direct + w \in Slots /\ Direct + w # Direct + Words
        BY SlotKinds
      <4> QED BY <1>1, <3>1, <3>8, <4>1, OverwriteSound
    <3>10. G = DataOf(setup) \ Used(J1, With(D1, a, v))
      BY <2>9, <3>8, <3>9 DEF G
    <3>11. WriteCuts(i, P, W)
      BY <1>1, CutReached DEF J
    <3> HIDE DEF W
    <3>12. PICK M : Changed(P[m], M, Direct + w, D1[a]) /\ Changed(M, P[m + 1], Direct + w, v)
      BY <1>5, ChangedTwice
    <3>13. Direct + w \in Slots
      BY SlotKinds
    <3>14. Reads(i, M, D1, n1)
      <4>1. J1[i].indirect = x /\ x # 0
        BY <2>1, <2>6, <2>8
      <4>2. Unread(J1, D0, D1)
        BY <1>1, <2>8, <3>7, <4>1, IndirectUnread
      <4> QED BY <2>11, <3>8, <3>12, <3>13, <4>2, ReadsGained DEF J1
    <3>15. Reads(i, P[m + 1], With(D1, a, v), n1)
      BY <1>1, <1>5, <3>1, <3>8, <3>12, <3>14, ReadsOverwritten DEF J1
    <3>16. SameBefore(i, M, P[m])
      <4>1. At(J1, D0, i, Direct + w) = 0
        BY <3>8 DEF Gained
      <4>2. At(inodes, disk, i, Direct + w) = 0
        BY <2>11, <3>13, <4>1 DEF Reads, J1
      <4> QED BY <3>12, <4>2 DEF Changed, SameBefore
    <3>17. WriteCuts(i, P, X)
      BY <1>1, <2>6, <2>7, <3>8, <3>11, <3>14, <3>16, CutKeeps DEF J1
    <3>18. n1.size = inodes[i].size
      BY <1>1, <2>6
    <3>19. WriteSound(i, P, With(D1, a, v), G, X, n1, m + 1)
      BY <1>1, <1>5, <2>6, <2>7, <3>9, <3>10, <3>15, <3>17, <3>18 DEF WriteSound, J1
    <3> QED BY <3>3, <3>6, <3>19, ProgressMade
  <2> QED BY <2>12, <2>13
<1> QED BY <1>6, <1>7

-----------------------------------------------------------------------------
\* One block, within the largest file.
LEMMA WriteBlockKeeps ==
  ASSUME Careful, IInv, NEW i \in Table(setup), NEW P, NEW t, NEW c, Progress(i, P, t, c),
         NEW k \in 0 .. FileBlocks - 1, NEW v \in Contents, Extended(P, t, k, v)
  PROVE  Progress(i, P, t + 1, WriteBlock(c, k, v))
<1>1. PICK D, F, U, n, m, f : /\ WriteIs(c, D, F, U, n, m, f)
                             /\ WriteSound(i, P, D, F, U, n, m)
                             /\ Got(m, t, f)
  BY DEF Progress
<1>2. WriteIs(c, D, F, U, n, m, f)
  BY <1>1
<1>3. WriteSound(i, P, D, F, U, n, m)
  BY <1>1
<1>4. c.full = f
  BY <1>2, WriteParts
<1>5. CASE f = TRUE
  <2>1. WriteBlock(c, k, v) = c
    BY <1>4, <1>5 DEF WriteBlock
  <2> QED BY <1>2, <1>3, <1>5, <2>1, ProgressFull
<1>6. CASE f = FALSE /\ k < Direct
  <2>1. WriteBlock(c, k, v) = WriteDirect(c, k, v)
    BY <1>4, <1>6 DEF WriteBlock
  <2>2. k \in 0 .. Direct - 1 /\ k < FileBlocks
    BY <1>6, FileBlocksBound, Layout
  <2>3. k \in Reach
    BY <2>2, SlotKinds DEF Reach
  <2>4. m = t
    BY <1>1, <1>6, Zenon DEF Got
  <2>5. f = FALSE
    BY <1>6
  <2>6. Progress(i, P, m + 1, WriteDirect(c, k, v))
    BY <1>2, <1>3, <2>2, <2>3, <2>4, <2>5, WriteDirectKeeps
  <2> QED BY <2>1, <2>4, <2>6
<1>7. CASE f = FALSE /\ ~ (k < Direct)
  <2> DEFINE w == k - Direct
  <2>1. WriteBlock(c, k, v) = WriteIndirect(c, w, v)
    BY <1>4, <1>7 DEF WriteBlock
  <2>2. w \in 0 .. Words - 1 /\ Direct + w = k /\ k < FileBlocks /\ FileBlocks > Direct
    BY <1>7, FileBlocksBound, Layout
  <2> HIDE DEF w
  <2>3. Direct + w \in Reach /\ Direct + Words \in Reach
    BY <2>2, SlotKinds DEF Reach
  <2>4. m = t /\ f = FALSE /\ Extended(P, m, Direct + w, v)
    <3>1. f = FALSE
      BY <1>7
    <3>2. m = t
      BY <1>1, <3>1, Zenon DEF Got
    <3> QED BY <2>2, <3>1, <3>2
  <2>5. CASE n.indirect # 0
    <3>1. f = FALSE
      BY <2>4
    <3>2. Extended(P, m, Direct + w, v)
      BY <2>4
    <3>3. w \in 0 .. Words - 1
      BY <2>2
    <3>4. Direct + w \in Reach
      BY <2>3
    <3>5. HasIndirect(n)
      BY <2>5 DEF HasIndirect
    <3>6. Progress(i, P, m + 1, WriteIndirect(c, w, v))
      BY <1>2, <1>3, <3>1, <3>2, <3>3, <3>4, <3>5, WriteBehindKeeps
    <3> QED BY <2>1, <2>4, <3>6
  <2>6. CASE n.indirect = 0
    <3>1. f = FALSE /\ Extended(P, m, Direct + w, v)
      BY <2>4
    <3>2. Progress(i, P, m + 1, WriteIndirect(c, w, v))
      BY <1>2, <1>3, <2>2, <2>3, <2>6, <3>1, WriteFirstBehindKeeps
    <3> QED BY <2>1, <2>4, <3>2
  <2> QED BY <2>5, <2>6
<1>8. f = TRUE \/ f = FALSE
  BY <1>1, Zenon DEF Got
<1> QED BY <1>5, <1>6, <1>7, <1>8

\* The blocks that a write gets to are those of a file of at most MaxSize words.
LEMMA WriteRange ==
  ASSUME NEW off \in 0 .. MaxSize - 1, NEW n \in 1 .. MaxSize - off
  PROVE  /\ BlockCount(off, n) \in Nat
         /\ \A k \in 1 .. BlockCount(off, n) : FirstBlock(off) + k - 1 \in 0 .. FileBlocks - 1
<1> DEFINE e == off + n + Words - 1
           q == e \div Words
<1>1. /\ Words \in Nat \ {0} /\ MaxSize \in Nat /\ off \in Nat /\ e \in Nat
      /\ MaxSize + Words - 1 \in Nat /\ off <= e /\ e <= MaxSize + Words - 1
  BY Layout
<1> HIDE DEF e
<1>2. off \div Words \in Nat /\ q \in Nat
  BY <1>1, ModDef
<1>3. off \div Words <= q
  BY <1>1, DivGrows
<1>4. q <= FileBlocks
  BY <1>1, DivGrows DEF FileBlocks
<1>5. FirstBlock(off) = off \div Words /\ BlockCount(off, n) = q - FirstBlock(off)
  BY DEF FirstBlock, BlockCount, e
<1>6. FileBlocks \in Nat
  BY FileBlocksBound, Layout
<1> HIDE DEF q
<1> QED BY <1>2, <1>3, <1>4, <1>5, <1>6

\* Before its first block a write has changed no file.
LEMMA WriteBegins ==
  ASSUME Careful, IInv, mounted, NEW i \in Valid,
         NEW P, 0 \in DOMAIN P, \A k \in DataSlots : P[0][k] = Read(inodes, disk, i, k)
  PROVE  i \in Table(setup) /\ Progress(i, P, 0, WriteBegin(i))
<1> DEFINE b == [disk |-> disk, inodes |-> inodes, free |-> free, mounted |-> mounted,
                 cuts |-> {}, inode |-> inodes[i], done |-> 0, full |-> FALSE]
<1>1. /\ setup \in Setups /\ Sound(setup, inodes, disk) /\ i \in Table(setup)
      /\ free = DataOf(setup) \ Used(inodes, disk) /\ inodes[i].valid
  BY Parts DEF Valid
<1>2. /\ inodes \in [Table(setup) -> InodesOn(setup)] /\ inodes[i] \in InodesOn(setup)
  BY <1>1 DEF Sound, Typed
<1>3. inodes[i].valid = TRUE
  BY <1>1, <1>2, InodeIs
<1>4. WriteIs(b, disk, free, {}, inodes[i], 0, FALSE)
  BY DEF WriteIs
<1>5. WriteBegin(i) = Issue(b)
  BY DEF WriteBegin
<1> HIDE DEF b
<1>6. WriteIs(WriteBegin(i), disk, free, {} \cup {Cut(disk, free)}, inodes[i], 0, FALSE)
  BY <1>4, <1>5, WriteIssues
<1>7. With(inodes, i, inodes[i]) = inodes
  BY <1>2 DEF With
<1>8. Precedes(inodes[i], inodes[i])
  BY DEF Precedes
<1>9. WriteCuts(i, P, {})
  BY DEF WriteCuts, SoundCuts
<1>10. Reads(i, P[0], disk, inodes[i])
  BY <1>7 DEF Reads
<1>11. WriteCuts(i, P, {} \cup {Cut(disk, free)})
  BY <1>1, <1>2, <1>3, <1>7, <1>8, <1>9, <1>10, CutReached
<1>12. WriteSound(i, P, disk, free, {} \cup {Cut(disk, free)}, inodes[i], 0)
  BY <1>1, <1>2, <1>3, <1>7, <1>8, <1>10, <1>11 DEF WriteSound
<1> QED BY <1>1, <1>6, <1>12, ProgressMade

\* What a write leaves: the blocks it got to, and the size up to there.
WriteOutcome(i, P, off, n, e) ==
  /\ SoundState(setup, e) /\ WriteCuts(i, P, e.cuts)
  /\ \E o \in InodesOn(setup), m \in DOMAIN P \cap Nat :
       /\ e.inodes = With(inodes, i, o) /\ o.valid = TRUE /\ Reads(i, P[m], e.disk, o)
       /\ o.size = Max({inodes[i].size, off + Min({n, m * Words})})

\* The inode is saved with a new size, and the pointers it has in memory.
LEMMA WriteEnds ==
  ASSUME Careful, IInv, mounted, NEW i \in Table(setup),
         NEW P, NEW t, NEW c, Progress(i, P, t, c),
         NEW off \in 0 .. MaxSize - 1, NEW n \in 1 .. MaxSize - off,
         NEW e, e = Save(c, i, [c.inode EXCEPT !.size = SizeAfter(c, off, n)])
  PROVE  WriteOutcome(i, P, off, n, e)
<1>1. PICK D, F, U, o, m, f : WriteIs(c, D, F, U, o, m, f) /\ WriteSound(i, P, D, F, U, o, m)
  BY DEF Progress
<1> DEFINE J == With(inodes, i, o)
           z == SizeAfter(c, off, n)
           o1 == [o EXCEPT !.size = z]
           I == With(inodes, i, o1)
<1>2. /\ setup \in Setups /\ o \in InodesOn(setup) /\ o.valid = TRUE /\ Precedes(inodes[i], o)
      /\ Sound(setup, J, D) /\ F = DataOf(setup) \ Used(J, D)
      /\ o.size = inodes[i].size /\ WriteCuts(i, P, U)
      /\ m \in DOMAIN P /\ m \in Nat /\ Reads(i, P[m], D, o) /\ mounted = TRUE
  BY <1>1, Parts DEF WriteSound
<1>3. c.inode = o /\ c.done = m
  BY <1>1, WriteParts
<1>4. z \in 0 .. MaxSize
  <2> DEFINE p == m * Words
             y == Min({n, p})
  <2>1. p \in Nat /\ off \in Nat /\ n \in Nat /\ off + n <= MaxSize /\ MaxSize \in Nat
    BY <1>2, Layout
  <2> HIDE DEF p
  <2>2. y = IF n <= p THEN n ELSE p
    BY <2>1, MinMaxOfTwo
  <2> HIDE DEF y
  <2>3. y \in Nat /\ y <= n
    BY <2>1, <2>2
  <2>4. o.size \in 0 .. MaxSize
    BY <1>2, InodeIs
  <2>5. z = Max({o.size, off + y})
    BY <1>3 DEF SizeAfter, y, p
  <2> HIDE DEF z
  <2>6. o.size \in Nat /\ off + y \in Nat
    BY <2>1, <2>3, <2>4
  <2>7. z = IF o.size <= off + y THEN off + y ELSE o.size
    BY <2>5, <2>6, MinMaxOfTwo
  <2> QED BY <2>1, <2>3, <2>4, <2>7
<1>5. z = Max({inodes[i].size, off + Min({n, m * Words})})
  BY <1>2, <1>3 DEF SizeAfter
<1> HIDE DEF z
<1>6. /\ o1 \in InodesOn(setup) /\ o1.valid = TRUE /\ o1.direct = o.direct
      /\ o1.indirect = o.indirect /\ o1.size = z
  <2>1. o1 = [o EXCEPT !.size = z]
    OBVIOUS
  <2> HIDE DEF o1
  <2> QED BY <1>2, <1>4, <2>1, WithSize
<1>7. e = Save(c, i, o1)
  BY <1>3 DEF z
<1> HIDE DEF o1
<1>8. /\ J[i] = o /\ I[i] = o1 /\ Replaced(setup, J, I, i)
  BY <1>2, <1>6, ReplacedIs
<1> HIDE DEF I, J
<1>9. \A j \in Table(setup), k \in Slots : At(I, D, j, k) = At(J, D, j, k)
  <2>1. \A d, k : PointerOf(o1, d, k) = PointerOf(o, d, k)
    BY <1>6 DEF PointerOf
  <2> QED BY <1>8, <2>1 DEF At, Replaced
<1>10. Typed(setup, J, D) /\ Typed(setup, I, D) /\ EmptyUnlessValid(I)
  BY <1>2, <1>8 DEF Sound, Typed, Replaced
<1>11. Used(I, D) = Used(J, D)
  <2>1. \A x : x \in Used(I, D) <=> x \in Used(J, D)
    BY <1>2, <1>9, <1>10, UsedIs
  <2> QED BY <2>1
<1>12. Sound(setup, I, D)
  <2>1. LeavesNoData(setup) => CleanOutside(setup, I, D)
    BY <1>2, <1>11, SoundClean DEF CleanOutside
  <2> QED BY <1>2, <1>9, <1>10, <2>1, Shrinks
<1>13. /\ e.disk = D /\ e.inodes = I /\ e.free = F /\ e.mounted = mounted
       /\ e.cuts = U \cup {Cut(D, F)}
  <2> DEFINE b == Issue(c)
  <2>1. WriteIs(b, D, F, U \cup {Cut(D, F)}, o, m, f)
    BY <1>1, WriteIssues
  <2>2. e = [b EXCEPT !.inodes[i] = o1]
    BY <1>7 DEF Save
  <2> HIDE DEF b
  <2> QED BY <2>1, <2>2 DEF WriteIs, I, With
<1>14. SoundState(setup, e)
  BY <1>2, <1>11, <1>12, <1>13 DEF SoundState
<1>15. WriteCuts(i, P, U \cup {Cut(D, F)})
  BY <1>2, CutReached DEF J
<1>16. Reads(i, P[m], D, o1)
  <2>1. \A j \in Table(setup), k \in DataSlots : Read(I, D, j, k) = Read(J, D, j, k)
    BY <1>9, DataSlotKinds DEF Read
  <2> QED BY <1>2, <1>9, <2>1 DEF Reads, I, J
<1> QED BY <1>2, <1>5, <1>6, <1>13, <1>14, <1>15, <1>16 DEF WriteOutcome, I

\* The blocks of file i once m blocks are written.
Planned(i, off, n, d) ==
  [m \in 0 .. BlockCount(off, n) |->
     [k \in DataSlots |->
        IF FirstBlock(off) <= k /\ k < FirstBlock(off) + m THEN Content(off, n, d, k)
        ELSE Read(inodes, disk, i, k)]]

LEMMA PlannedIs ==
  ASSUME NEW i, NEW off \in 0 .. MaxSize - 1, NEW n \in 1 .. MaxSize - off, NEW d
  PROVE  /\ DOMAIN Planned(i, off, n, d) = 0 .. BlockCount(off, n)
         /\ \A k \in DataSlots : Planned(i, off, n, d)[0][k] = Read(inodes, disk, i, k)
         /\ \A m \in 0 .. BlockCount(off, n) - 1 :
              LET k == FirstBlock(off) + m
              IN  k \in 0 .. FileBlocks - 1
                  /\ Extended(Planned(i, off, n, d), m, k, Content(off, n, d, k))
<1> DEFINE P == Planned(i, off, n, d)
           N == BlockCount(off, n)
           b == FirstBlock(off)
<1>1. N \in Nat /\ \A k \in 1 .. N : b + k - 1 \in 0 .. FileBlocks - 1
  BY WriteRange
<1>2. b \in Nat
  BY Layout, ModDef DEF FirstBlock
<1>3. /\ DOMAIN P = 0 .. N
      /\ \A m \in 0 .. N, k \in DataSlots :
           P[m][k] = IF b <= k /\ k < b + m THEN Content(off, n, d, k)
                     ELSE Read(inodes, disk, i, k)
  BY DEF Planned
<1> HIDE DEF P, N, b
<1>4. \A k \in DataSlots : k \in Nat
  BY Layout DEF DataSlots
<1>5. 0 \in 0 .. N
  BY <1>1
<1>6. ASSUME NEW k \in DataSlots PROVE P[0][k] = Read(inodes, disk, i, k)
  <2>1. ~ (b <= k /\ k < b + 0)
    BY <1>2, <1>4
  <2> QED BY <1>3, <1>5, <2>1
<1>7. ASSUME NEW m \in 0 .. N - 1
      PROVE  /\ b + m \in 0 .. FileBlocks - 1
             /\ Extended(P, m, b + m, Content(off, n, d, b + m))
  <2>1. /\ m \in 0 .. N /\ m + 1 \in 0 .. N /\ m + 1 \in 1 .. N /\ m \in Nat
        /\ b + (m + 1) - 1 = b + m
    BY <1>1, <1>2
  <2>2. b + m \in 0 .. FileBlocks - 1
    BY <1>1, <2>1
  <2>3. ASSUME NEW k \in DataSlots
        PROVE  P[m + 1][k] = IF k = b + m THEN Content(off, n, d, k) ELSE P[m][k]
    <3>1. (b <= k /\ k < b + (m + 1)) <=> (k = b + m \/ (b <= k /\ k < b + m))
      BY <1>2, <1>4, <2>1
    <3> QED BY <1>3, <2>1, <3>1
  <2>4. Changed(P[m], P[m + 1], b + m, Content(off, n, d, b + m))
    BY <2>3 DEF Changed
  <2> QED BY <1>3, <2>1, <2>2, <2>4 DEF Extended
<1> QED BY <1>3, <1>6, <1>7 DEF P, N, b

\* A write, from its first block to its last.
LEMMA WriteGoes ==
  ASSUME Careful, IInv, NEW i \in Inode, NEW off \in 0 .. MaxSize - 1, NEW d \in setup.data,
         NEW n \in 1 .. MaxSize - off, fs_write(i, off, n, d)
  PROVE  /\ i \in Table(setup)
         /\ WriteOutcome(i, Planned(i, off, n, d), off, n, WriteCourse(i, off, n, d))
<1> DEFINE N == BlockCount(off, n)
           W == WriteAfter(i, off, n, d)
           P == Planned(i, off, n, d)
           S == {k \in 0 .. N : Progress(i, P, k, W[k])}
           e == WriteCourse(i, off, n, d)
<1>1. /\ setup \in Setups /\ d \in Nat /\ mounted /\ i \in Valid
  BY Parts, SetupLayout DEF fs_write
<1>2. N \in Nat
  BY WriteRange
<1>3. /\ DOMAIN P = 0 .. N
      /\ \A k \in DataSlots : P[0][k] = Read(inodes, disk, i, k)
      /\ \A m \in 0 .. N - 1 :
           LET k == FirstBlock(off) + m
           IN  k \in 0 .. FileBlocks - 1 /\ Extended(P, m, k, Content(off, n, d, k))
  BY PlannedIs
<1>4. W[0] = WriteBegin(i) /\ \A k \in 1 .. N : W[k] = WriteNth(W[k - 1], off, n, d, k)
  BY <1>2, WriteSteps
<1>5. \A k : Content(off, n, d, k) \in Contents
  BY <1>1 DEF Content, Contents
<1>6. e = Save(W[N], i, [W[N].inode EXCEPT !.size = SizeAfter(W[N], off, n)])
  BY DEF WriteCourse
<1> HIDE DEF N, W, P, e
<1>7. 0 \in DOMAIN P
  BY <1>2, <1>3
<1>8. i \in Table(setup) /\ Progress(i, P, 0, WriteBegin(i))
  BY <1>1, <1>3, <1>7, WriteBegins
<1>9. 0 \in S
  BY <1>2, <1>4, <1>8
<1>10. \A k \in 0 .. N - 1 : k \in S => k + 1 \in S
  <2> SUFFICES ASSUME NEW k \in 0 .. N - 1, Progress(i, P, k, W[k])
               PROVE  k + 1 \in 0 .. N /\ Progress(i, P, k + 1, W[k + 1])
    OBVIOUS
  <2> DEFINE b == FirstBlock(off) + k
  <2>1. b \in 0 .. FileBlocks - 1 /\ Extended(P, k, b, Content(off, n, d, b))
    BY <1>3
  <2>2. /\ k + 1 \in 0 .. N /\ k + 1 \in 1 .. N /\ (k + 1) - 1 = k
        /\ FirstBlock(off) + (k + 1) - 1 = b
    <3>1. off \in Nat
      BY Layout
    <3>2. FirstBlock(off) \in Nat
      BY <3>1, Layout, ModDef DEF FirstBlock
    <3> QED BY <1>2, <3>2
  <2> HIDE DEF b
  <2>3. W[k + 1] = WriteBlock(W[k], b, Content(off, n, d, b))
    BY <1>4, <2>2 DEF WriteNth
  <2>4. Progress(i, P, k + 1, WriteBlock(W[k], b, Content(off, n, d, b)))
    BY <1>5, <1>8, <2>1, WriteBlockKeeps
  <2> QED BY <2>2, <2>3, <2>4
<1>11. 0 .. N \subseteq S
  <2> HIDE DEF S
  <2> QED BY <1>2, <1>9, <1>10, IntervalInduction
<1>12. Progress(i, P, N, W[N])
  BY <1>2, <1>11
<1>13. WriteOutcome(i, P, off, n, e)
  BY <1>1, <1>6, <1>8, <1>12, WriteEnds
<1> QED BY <1>8, <1>13 DEF P, e

LEMMA WriteKeeps ==
  ASSUME Careful, IInv, NEW i \in Inode, NEW off \in 0 .. MaxSize - 1, NEW d \in setup.data,
         NEW n \in 1 .. MaxSize - off, fs_write(i, off, n, d)
  PROVE  IInv'
<1> DEFINE e == WriteCourse(i, off, n, d)
           P == Planned(i, off, n, d)
<1>1. Run("write", e)
  BY DEF fs_write
<1>2. WriteOutcome(i, P, off, n, e)
  BY WriteGoes
<1> HIDE DEF e, P
<1>3. SoundState(setup, e) /\ SoundCuts(setup, "write", e.cuts)
  BY <1>2 DEF WriteOutcome, WriteCuts
<1> QED BY <1>1, <1>3, RunKeeps

-----------------------------------------------------------------------------
(* What holds of the file system.                                          *)

LEMMA InitSound ==
  ASSUME Init
  PROVE  IInv
<1>1. /\ setup \in Setups /\ mounted = FALSE /\ free = {} /\ kills = 0
      /\ inodes = [i \in Table(setup) |-> NoInode]
      /\ disk = [b \in {0} \cup DataOf(setup) |->
                   IF b = 0 THEN [w \in 0 .. Words - 1 |-> Super] ELSE Zeros]
  BY DEF Init, Table, DataOf
<1>2. NoInode \in InodesOn(setup)
  BY <1>1, NoInodeIs
<1>3. Typed(setup, inodes, disk)
  <2>1. Zeros \in Contents /\ [w \in 0 .. Words - 1 |-> Super] \in Contents
    BY Layout DEF Zeros, Contents
  <2> QED BY <1>1, <1>2, <2>1 DEF Typed
<1>4. DOMAIN inodes = Table(setup) /\ \A i \in Table(setup) : inodes[i] = NoInode
  BY <1>1
<1>5. \A i \in Table(setup), k \in Slots : At(inodes, disk, i, k) = 0
  BY <1>4, NoInodeIs DEF At
<1>6. EmptyUnlessValid(inodes) /\ InRange(setup, inodes, disk) /\ Apart(inodes, disk)
      /\ WithinReach(inodes, disk)
  BY <1>4, <1>5 DEF EmptyUnlessValid, InRange, Apart, WithinReach
<1>7. CleanOutside(setup, inodes, disk)
  <2>1. \A b \in DataOf(setup) : b # 0
    BY <1>1, SetupLayout
  <2> QED BY <1>1, <2>1 DEF CleanOutside
<1>8. Sound(setup, inodes, disk)
  BY <1>3, <1>6, <1>7 DEF Sound
<1>9. kills \in 0 .. MaxKills
  BY <1>1, Layout
<1> QED BY <1>1, <1>8, <1>9 DEF IInv

\* Every step keeps the invariant.
LEMMA NextSound ==
  ASSUME Careful, IInv, [Next]_vars
  PROVE  IInv'
<1>1. CASE fs_format
  BY <1>1, FormatKeeps
<1>2. CASE fs_mount
  BY <1>2, MountKeeps
<1>3. CASE fs_unmount
  BY <1>3, UnmountKeeps
<1>4. CASE fs_create
  BY <1>4, CreateKeeps
<1>5. ASSUME NEW i \in Inode, fs_remove(i) PROVE IInv'
  BY <1>5, Parts, RemoveKeeps
<1>6. ASSUME NEW i \in Inode, NEW off \in 0 .. MaxSize - 1, NEW d \in setup.data,
             NEW n \in 1 .. MaxSize - off, fs_write(i, off, n, d)
      PROVE  IInv'
  BY <1>6, WriteKeeps
<1>7. CASE UNCHANGED vars
  BY <1>7 DEF vars, IInv
<1> QED BY <1>1, <1>2, <1>3, <1>4, <1>5, <1>6, <1>7 DEF Next

LEMMA FileSystemSound ==
  ASSUME Careful
  PROVE  Spec => []IInv
<1>1. Init => IInv
  BY InitSound
<1>2. IInv /\ [Next]_vars => IInv'
  BY NextSound
<1> QED BY <1>1, <1>2, PTL DEF Spec

\* Every pointer is a block of the disk, after any calls, and the failures and kills that
\* are Careful; sizes are within the bound that callers keep.
THEOREM FilesTypeCorrect ==
  ASSUME Careful
  PROVE  Spec => []TypeOK
<1>1. ASSUME IInv PROVE TypeOK
  <2>1. /\ setup \in Setups /\ Sound(setup, inodes, disk) /\ kills \in 0 .. MaxKills
        /\ mounted \in BOOLEAN /\ Inode = Table(setup)
        /\ free = IF mounted THEN DataOf(setup) \ Used(inodes, disk) ELSE {}
    BY <1>1, Parts DEF IInv
  <2>2. Block = BlocksOn(setup) /\ DataOf(setup) \subseteq BlocksOn(setup)
    BY <2>1, SetupLayout DEF Block, BlocksOn
  <2>3. \A i \in Inode : inodes[i] \in [valid : BOOLEAN, size : 0 .. MaxSize,
                                       direct : [0 .. Direct - 1 -> Block], indirect : Block]
    <3>1. \A i \in Inode : inodes[i] \in InodesOn(setup)
      BY <2>1, SoundTyped
    <3> QED BY <2>2, <3>1 DEF InodesOn
  <2>4. disk \in [{0} \cup setup.inodeBlocks + 1 .. setup.blocks - 1 -> [0 .. Words - 1 -> Nat]]
    BY <2>1 DEF Sound, Typed, DataOf, Contents
  <2>5. free \subseteq Block /\ (~ mounted => free = {})
    BY <2>1, <2>2
  <2> QED BY <2>1, <2>3, <2>4, <2>5 DEF TypeOK
<1>2. Spec => []IInv
  BY FileSystemSound
<1> QED BY <1>1, <1>2, PTL

\* No block has two uses, in two files or in one, and none of the table or the superblock
\* has any, where failures and kills are Careful: a disk may fill up, or have writes and
\* formats killed, but not both.
THEOREM BlocksApart ==
  ASSUME Careful
  PROVE  Spec => []NoSharing
<1>1. ASSUME IInv PROVE NoSharing
  <2>1. /\ setup \in Setups /\ Sound(setup, inodes, disk)
        /\ Inode = Table(setup) /\ DataBlocks = DataOf(setup)
    BY <1>1, Parts
  <2>2. SUFFICES ASSUME NEW i \in Valid, NEW j \in Valid, NEW k \in Slots, NEW l \in Slots,
                        Pointer(i, k) # 0
                 PROVE  /\ Pointer(i, k) \in DataBlocks
                        /\ Pointer(i, k) = Pointer(j, l) => <<i, k>> = <<j, l>>
    BY DEF NoSharing
  <2>3. i \in Table(setup) /\ j \in Table(setup)
    BY <2>1 DEF Valid
  <2>4. Pointer(i, k) = At(inodes, disk, i, k) /\ Pointer(j, l) = At(inodes, disk, j, l)
    BY DEF Pointer, At
  <2>5. Pointer(i, k) \in DataBlocks
    BY <2>1, <2>2, <2>3, <2>4, SoundRange
  <2>6. Pointer(i, k) = Pointer(j, l) => i = j /\ k = l
    <3>1. \A g, h \in Table(setup), m, o \in Slots :
            At(inodes, disk, g, m) # 0 /\ At(inodes, disk, g, m) = At(inodes, disk, h, o)
              => g = h /\ m = o
      BY <2>1, SoundApart
    <3>2. At(inodes, disk, i, k) # 0
      BY <2>2, <2>4
    <3>3. SUFFICES ASSUME At(inodes, disk, i, k) = At(inodes, disk, j, l) PROVE i = j /\ k = l
      BY <2>4
    <3> QED BY <2>3, <3>1, <3>2, <3>3
  <2> QED BY <2>5, <2>6
<1>2. Spec => []IInv
  BY FileSystemSound
<1> QED BY <1>1, <1>2, PTL

\* The blocks marked free are those that no file uses, where failures and kills are
\* Careful: a failing mount, removal or write is excluded, since it does break this.
THEOREM BitmapCorrect ==
  ASSUME Careful
  PROVE  Spec => []BitmapOK
<1>1. ASSUME IInv PROVE BitmapOK
  <2>1. /\ setup \in Setups /\ Sound(setup, inodes, disk) /\ Typed(setup, inodes, disk)
        /\ Inode = Table(setup) /\ DataBlocks = DataOf(setup)
        /\ free = IF mounted THEN DataOf(setup) \ Used(inodes, disk) ELSE {}
    BY <1>1, Parts DEF Sound
  <2>2. \A x : x \in Owned <=> x \in Used(inodes, disk)
    <3>1. \A x : x \in Owned <=>
                   x # 0 /\ \E i \in Valid, k \in Slots : At(inodes, disk, i, k) = x
      BY DEF Owned, Pointer, At
    <3>2. \A x : x \in Used(inodes, disk) <=>
                   x # 0 /\ \E i \in Table(setup), k \in Slots : At(inodes, disk, i, k) = x
      BY <2>1, UsedIs
    <3>3. \A i \in Table(setup) : i \in Valid <=> inodes[i].valid
      BY <2>1 DEF Valid
    <3>4. \A i \in Table(setup), k \in Slots : i \notin Valid => At(inodes, disk, i, k) = 0
      <4>1. \A i \in Table(setup) : i \notin Valid => inodes[i] = NoInode
        BY <2>1, <3>3, SoundEmpty
      <4> QED BY <4>1, NoInodeIs DEF At
    <3>5. Valid \subseteq Table(setup)
      BY <2>1 DEF Valid
    <3> QED BY <3>1, <3>2, <3>4, <3>5
  <2>3. Owned = Used(inodes, disk)
    BY <2>2
  <2> QED BY <2>1, <2>3 DEF BitmapOK
<1>2. Spec => []IInv
  BY FileSystemSound
<1> QED BY <1>1, <1>2, PTL

-----------------------------------------------------------------------------
(* What is read: the words of a file, through the pointers of its inode.   *)

FileOf(I, D, i) == [w \in 1 .. I[i].size |-> Read(I, D, i, (w - 1) \div Words)[(w - 1) % Words]]

ValidIn(I)     == {i \in DOMAIN I : I[i].valid}
FilesOf(I, D)  == [i \in ValidIn(I) |-> FileOf(I, D, i)]
Files          == [i \in Valid |-> File(i)]
Superblock     == [w \in 0 .. Words - 1 |-> Super]

\* The invariant, and the superblock, which no call writes.
FileInv == IInv /\ disk[0] = Superblock

\* The files that FileStore speaks of, as read from the table and the disk.
LEMMA FilesAre ==
  /\ Files = FilesOf(inodes, disk) /\ Files' = FilesOf(inodes', disk')
  /\ Valid = ValidIn(inodes)
<1>1. Files = FilesOf(inodes, disk)
  BY DEF Files, FilesOf, Valid, ValidIn, Inode, File, FileOf, Read, At, Pointer
<1>2. Files' = FilesOf(inodes', disk')
  BY DEF Files, FilesOf, Valid, ValidIn, Inode, File, FileOf, Read, At, Pointer
<1>3. Valid = ValidIn(inodes)
  BY DEF Valid, ValidIn, Inode
<1> QED BY <1>1, <1>2, <1>3

\* Each word is in a block that has a slot.
LEMMA WordSlot ==
  ASSUME NEW w \in 1 .. MaxSize
  PROVE  (w - 1) \div Words \in DataSlots /\ (w - 1) % Words \in 0 .. Words - 1
<1> DEFINE q == (w - 1) \div Words
<1>1. /\ w - 1 \in Nat /\ Words \in Nat \ {0} /\ Direct + Words \in Nat
      /\ w - 1 < Words * (Direct + Words)
  BY Layout
<1>2. q < Direct + Words
  BY <1>1, DivBelow
<1>3. q \in Nat /\ (w - 1) % Words \in 0 .. Words - 1
  BY <1>1, ModDef
<1> HIDE DEF q
<1>4. q \in DataSlots
  BY <1>2, <1>3, Layout DEF DataSlots
<1> QED BY <1>3, <1>4 DEF q

\* A file whose size and blocks are the same is the same.
LEMMA SameFile ==
  ASSUME NEW I, NEW D, NEW J, NEW E, NEW i, I[i].size \in 0 .. MaxSize, J[i].size = I[i].size,
         \A k \in DataSlots : Read(J, E, i, k) = Read(I, D, i, k)
  PROVE  FileOf(J, E, i) = FileOf(I, D, i)
<1>1. ASSUME NEW w \in 1 .. I[i].size
      PROVE  Read(J, E, i, (w - 1) \div Words) = Read(I, D, i, (w - 1) \div Words)
  <2>1. w \in 1 .. MaxSize
    BY Layout
  <2> QED BY <2>1, WordSlot
<1> QED BY <1>1 DEF FileOf

\* A call ends, fails, or is killed at one of its cuts.
LEMMA RunEnds ==
  ASSUME NEW call, NEW c, Run(call, c), \A x \in c.cuts : IsSnapshot(x)
  PROVE  \/ disk' = c.disk /\ inodes' = c.inodes
         \/ \E x \in c.cuts : disk' = x.disk /\ inodes' = x.inodes
<1>1. CASE Completes(c)
  BY <1>1 DEF Completes, Leaves
<1>2. CASE Fails(call, c)
  BY <1>2 DEF Fails, Leaves
<1>3. CASE Killed(call, c)
  <2>1. PICK x \in c.cuts : Leaves([x EXCEPT !.free = {}, !.mounted = FALSE])
    BY <1>3 DEF Killed
  <2>2. IsSnapshot(x)
    BY <2>1
  <2> DEFINE y == [x EXCEPT !.free = {}, !.mounted = FALSE]
  <2>3. y.disk = x.disk /\ y.inodes = x.inodes
    BY <2>2 DEF IsSnapshot
  <2> HIDE DEF y
  <2>4. Leaves(y)
    BY <2>1 DEF y
  <2> QED BY <2>1, <2>3, <2>4 DEF Leaves
<1> QED BY <1>1, <1>2, <1>3 DEF Run

-----------------------------------------------------------------------------
\* The files of two disks, one by one.
LEMMA SameFiles ==
  ASSUME NEW s \in Setups, NEW I, NEW D, Typed(s, I, D), NEW J, NEW E, NEW S \in SUBSET ValidIn(I),
         ValidIn(J) = S, \A i \in S : J[i].size = I[i].size,
         \A i \in S : \A k \in DataSlots : Read(J, E, i, k) = Read(I, D, i, k)
  PROVE  FilesOf(J, E) = Restrict(FilesOf(I, D), S)
<1>1. ASSUME NEW i \in S PROVE FileOf(J, E, i) = FileOf(I, D, i)
  <2>1. I[i].size \in 0 .. MaxSize
    <3>1. I[i] \in InodesOn(s)
      BY DEF Typed, ValidIn
    <3> QED BY <3>1, InodeIs
  <2>2. J[i].size = I[i].size /\ \A k \in DataSlots : Read(J, E, i, k) = Read(I, D, i, k)
    OBVIOUS
  <2> QED BY <2>1, <2>2, SameFile
<1> QED BY <1>1 DEF FilesOf, Restrict

-----------------------------------------------------------------------------
(* The calls, one by one.                                                  *)

\* A format leaves no file; cut short, it leaves some of those there were, as they were.
LEMMA FormatStores ==
  ASSUME Careful, FileInv, fs_format
  PROVE  (Store!Format \/ Store!FormatInterrupted) /\ disk'[0] = Superblock
<1> DEFINE N == setup.blocks - 1
           c == FormatForm(N)
<1>1. /\ setup \in Setups /\ N \in 0 .. setup.blocks - 1 /\ N \in Nat /\ N >= setup.inodeBlocks
      /\ IInv /\ Run("format", c)
  <2>1. /\ IInv
        /\ setup \in Setups
        /\ N \in 0 .. setup.blocks - 1
        /\ N \in Nat
        /\ N >= setup.inodeBlocks
    BY Parts, SetupLayout DEF FileInv
  <2>2. FormatAfter[N] = c
    BY <2>1, FormatForms
  <2> QED BY <2>1, <2>2 DEF fs_format
<1>2. /\ Inode = Table(setup) /\ DOMAIN inodes = Table(setup) /\ Typed(setup, inodes, disk)
      /\ DOMAIN disk = {0} \cup DataOf(setup)
      /\ Sound(setup, inodes, disk)
      /\ \A i \in Table(setup) : TableBlock(i) \in 1 .. setup.inodeBlocks
  BY <1>1, Parts, SoundTyped, TableBlocks
<1>3. ASSUME NEW b \in 0 .. N, disk' = FormatDisk(b), inodes' = FormatInodes(b)
      PROVE  (Store!Format \/ Store!FormatInterrupted) /\ disk'[0] = Superblock
  <2>1. /\ \A i \in Table(setup) : inodes'[i] = IF TableBlock(i) <= b THEN NoInode ELSE inodes[i]
        /\ DOMAIN inodes' = Table(setup)
    BY <1>2, <1>3 DEF FormatInodes
  <2>2. \A x \in {0} \cup DataOf(setup) : disk'[x] = IF x \in 1 .. b THEN Zeros ELSE disk[x]
    BY <1>2, <1>3 DEF FormatDisk
  <2> DEFINE S == ValidIn(inodes')
  <2>3. \A i \in S : i \in ValidIn(inodes) /\ b < TableBlock(i) /\ inodes'[i] = inodes[i]
    <3>1. ~ NoInode.valid
      BY NoInodeIs
    <3>2. b \in Nat
      BY <1>1
    <3> QED BY <1>2, <2>1, <3>1, <3>2 DEF ValidIn
  <2>4. disk'[0] = Superblock
    BY <2>2 DEF FileInv
  <2>5. ASSUME NEW i \in S, NEW k \in DataSlots
        PROVE  Read(inodes', disk', i, k) = Read(inodes, disk, i, k)
    <3>1. b < setup.inodeBlocks /\ i \in Table(setup) /\ b \in Nat /\ setup.inodeBlocks \in Nat
      BY <1>1, <1>2, <2>3, SetupLayout DEF ValidIn
    <3>2. \A x \in {0} \cup DataOf(setup) : disk'[x] = disk[x]
      <4>1. \A x \in DataOf(setup) : x \notin 1 .. b
        BY <1>1, <3>1, SetupLayout DEF DataOf
      <4> QED BY <2>2, <4>1
    <3>3. \A l \in Slots : At(inodes, disk, i, l) \in {0} \cup DataOf(setup)
      BY <1>1, <1>2, <3>1, SoundRange
    <3>4. At(inodes', disk', i, k) = At(inodes, disk, i, k)
      <4>1. inodes'[i] = inodes[i]
        BY <2>3
      <4>2. disk'[inodes[i].indirect] = disk[inodes[i].indirect]
        <5>1. At(inodes, disk, i, Direct + Words) = inodes[i].indirect /\ Direct + Words \in Slots
          BY AtIndirect, SlotKinds
        <5>2. inodes[i].indirect \in {0} \cup DataOf(setup)
          BY <3>3, <5>1
        <5> QED BY <3>2, <5>2
      <4>3. CASE k \in 0 .. Direct - 1
        BY <4>1, <4>3, AtDirect
      <4>4. ASSUME NEW w \in 0 .. Words - 1, k = Direct + w
            PROVE  At(inodes', disk', i, k) = At(inodes, disk, i, k)
        <5>1. At(inodes', disk', i, Direct + w) =
                IF inodes'[i].indirect = 0 THEN 0 ELSE disk'[inodes'[i].indirect][w]
          BY AtBehind
        <5>2. At(inodes, disk, i, Direct + w) =
                IF inodes[i].indirect = 0 THEN 0 ELSE disk[inodes[i].indirect][w]
          BY AtBehind
        <5> QED BY <4>1, <4>2, <4>4, <5>1, <5>2
      <4> QED BY <4>3, <4>4, DataSlotKinds
    <3>5. At(inodes, disk, i, k) \in {0} \cup DataOf(setup)
      BY <3>3, DataSlotKinds
    <3> QED BY <3>2, <3>4, <3>5 DEF Read
  <2>6. Files' = Restrict(Files, S)
    <3> DEFINE J == inodes'
               E == disk'
    <3>1. S \in SUBSET ValidIn(inodes) /\ ValidIn(J) = S
          /\ \A i \in S : J[i].size = inodes[i].size
      BY <2>3
    <3>2. \A i \in S : \A k \in DataSlots : Read(J, E, i, k) = Read(inodes, disk, i, k)
      BY <2>5
    <3> HIDE DEF J, E, S
    <3>3. FilesOf(J, E) = Restrict(FilesOf(inodes, disk), S)
      BY <1>1, <1>2, <3>1, <3>2, SameFiles
    <3> QED BY <3>3, FilesAre DEF J, E
  <2>7. Store!FormatInterrupted
    <3>1. S \in SUBSET DOMAIN Files
      BY <2>3, FilesAre DEF FilesOf
    <3>2. Files' = Store!Restrict(Files, S)
      BY <2>6 DEF Restrict, Store!Restrict
    <3> QED BY <3>1, <3>2 DEF Store!FormatInterrupted, Files
  <2> QED BY <2>4, <2>7
<1>4. N \in 0 .. N /\ \A b \in 0 .. N - 1 : b \in 0 .. N
  BY <1>1
<1>5. c.disk = FormatDisk(N) /\ c.inodes = FormatInodes(N)
  BY DEF FormatForm
<1>6. \A x \in c.cuts :
          /\ IsSnapshot(x)
          /\ \E b \in 0 .. N : x.disk = FormatDisk(b) /\ x.inodes = FormatInodes(b)
  BY <1>4 DEF FormatForm, FormatShot, IsSnapshot
<1> HIDE DEF c
<1>7. \/ disk' = c.disk /\ inodes' = c.inodes
      \/ \E x \in c.cuts : disk' = x.disk /\ inodes' = x.inodes
  BY <1>1, <1>6, RunEnds
<1> QED BY <1>3, <1>4, <1>5, <1>6, <1>7

-----------------------------------------------------------------------------
\* A call that leaves the disk as it is.
LEMMA NothingStored ==
  ASSUME disk' = disk, inodes' = inodes
  PROVE  Files' = Files
BY FilesAre

\* A mount reads the disk and writes none of it.
LEMMA MountStores ==
  ASSUME FileInv, fs_mount
  PROVE  disk' = disk /\ inodes' = inodes
<1> DEFINE N == setup.inodeBlocks * PerBlock
           c == MountAfter[N]
<1>1. IInv /\ Run("mount", c) /\ N \in 0 .. N
  BY Parts, SetupLayout DEF fs_mount, FileInv
<1>2. SameDisk(c)
  BY <1>1, MountForms
<1> HIDE DEF c
<1>3. \A x \in c.cuts : IsSnapshot(x)
  BY <1>2 DEF SameDisk
<1>4. \/ disk' = c.disk /\ inodes' = c.inodes
      \/ \E x \in c.cuts : disk' = x.disk /\ inodes' = x.inodes
  BY <1>1, <1>3, RunEnds
<1> QED BY <1>2, <1>4 DEF SameDisk

\* fs_create turns an inode valid that has no pointers and no size.
LEMMA CreateStores ==
  ASSUME FileInv, fs_create
  PROVE  /\ Files' = Files \/ \E i \in Numbers : Store!Add(i)
         /\ disk' = disk
<1> DEFINE b == Issue(Begin)
           c == [b EXCEPT !.inodes[Chosen].valid = TRUE]
           I == [inodes EXCEPT ![Chosen].valid = TRUE]
<1>1. /\ setup \in Setups /\ Sound(setup, inodes, disk) /\ Inode = Table(setup)
      /\ Run("create", c) /\ Inode \ Valid # {}
  <2>1. Run("create", c) /\ Valid # Inode
    BY DEF fs_create
  <2>2. Inode \ Valid # {}
    BY <2>1 DEF Valid
  <2> QED BY <2>1, <2>2, Parts DEF FileInv
<1>2. Chosen \in Table(setup) /\ Chosen \notin Valid /\ ~ inodes[Chosen].valid
  <2>1. Inode \ Valid \in SUBSET Nat
    BY <1>1 DEF Table
  <2>2. Chosen \in Inode \ Valid
    BY <1>1, <2>1, MinOf DEF Chosen
  <2> QED BY <1>1, <2>2 DEF Valid
<1>3. inodes[Chosen] = NoInode /\ DOMAIN inodes = Table(setup) /\ Typed(setup, inodes, disk)
  BY <1>1, <1>2, SoundEmpty, SoundTyped
<1>4. Chosen \in Numbers
  BY <1>1, <1>2 DEF Numbers, Table
<1>5. /\ IsCourse(b) /\ b.disk = disk /\ b.inodes = inodes /\ b.cuts = {Snapshot(Begin)}
      /\ IsSnapshot(Snapshot(Begin))
      /\ Snapshot(Begin).disk = disk /\ Snapshot(Begin).inodes = inodes
  BY BeginIs, IssueIs
<1> HIDE DEF b
<1>6. c.disk = disk /\ c.inodes = I /\ c.cuts = {Snapshot(Begin)}
  BY <1>5 DEF IsCourse
<1> HIDE DEF c
<1>7. disk' = disk /\ inodes' \in {inodes, I}
  <2>1. \A x \in c.cuts : IsSnapshot(x) /\ x.disk = disk /\ x.inodes = inodes
    BY <1>5, <1>6
  <2>2. \/ disk' = c.disk /\ inodes' = c.inodes
        \/ \E x \in c.cuts : disk' = x.disk /\ inodes' = x.inodes
    BY <1>1, <2>1, RunEnds
  <2> QED BY <1>6, <2>1, <2>2
<1>8. CASE inodes' = inodes
  BY <1>7, <1>8, NothingStored
<1>9. CASE inodes' = I
  <2>1. /\ DOMAIN I = Table(setup) /\ I[Chosen] = [NoInode EXCEPT !.valid = TRUE]
        /\ \A i \in Table(setup) : i # Chosen => I[i] = inodes[i]
    BY <1>2, <1>3
  <2>2. I[Chosen].valid = TRUE /\ I[Chosen].size = 0
    <3>1. \A v : [NoInode EXCEPT !.valid = v].valid = v /\ [NoInode EXCEPT !.valid = v].size = 0
      BY SMT DEF NoInode
    <3> HIDE DEF I
    <3> QED BY <2>1, <3>1, Zenon
  <2> HIDE DEF I
  <2>3. ValidIn(I) = Valid \cup {Chosen}
    BY <1>1, <1>2, <2>1, <2>2 DEF ValidIn, Valid, Inode
  <2>4. FileOf(I, disk, Chosen) = << >>
    BY <2>2 DEF FileOf
  <2>5. ASSUME NEW i \in Valid PROVE FileOf(I, disk, i) = FileOf(inodes, disk, i)
    <3>1. I[i] = inodes[i]
      BY <1>1, <1>2, <2>1, <2>5 DEF Valid
    <3> QED BY <3>1 DEF FileOf, Read, At
  <2>6. FilesOf(I, disk) =
          [j \in Valid \cup {Chosen} |-> IF j = Chosen THEN << >> ELSE FileOf(inodes, disk, j)]
    BY <2>3, <2>4, <2>5 DEF FilesOf
  <2>7. Files' = [j \in DOMAIN Files \cup {Chosen} |-> IF j = Chosen THEN << >> ELSE Files[j]]
    <3>1. Files' = FilesOf(I, disk)
      BY <1>7, <1>9, FilesAre
    <3>2. DOMAIN Files = Valid /\ \A j \in Valid : Files[j] = FileOf(inodes, disk, j)
      BY FilesAre DEF FilesOf
    <3> QED BY <1>2, <2>6, <3>1, <3>2
  <2>8. Chosen \notin DOMAIN Files
    BY <1>2 DEF Files
  <2>9. Store!Add(Chosen)
    BY <2>7, <2>8 DEF Store!Add, Files
  <2> QED BY <1>4, <1>7, <2>9
<1> QED BY <1>7, <1>8, <1>9

-----------------------------------------------------------------------------
\* Blanked blocks are zeros for inode i, or lost, and nothing to any other.
LEMMA BlankedReads ==
  ASSUME FileInv, NEW i \in Table(setup), NEW m \in 0 .. Direct + Words + 1,
         NEW E, E = Blanked(Gone(i, m))
  PROVE  /\ \A j \in Table(setup) : j # i =>
              \A k \in DataSlots : Read(inodes, E, j, k) = Read(inodes, disk, j, k)
         /\ \A k \in DataSlots :
              Read(inodes, E, i, k) \in {Read(inodes, disk, i, k), Zeros, Superblock}
         /\ E[0] = Superblock
<1> DEFINE R == Gone(i, m)
<1>1. /\ setup \in Setups /\ Sound(setup, inodes, disk) /\ IInv /\ disk[0] = Superblock
      /\ DOMAIN disk = {0} \cup DataOf(setup)
  BY Parts, SoundTyped DEF FileInv
<1>2. \A x \in {0} \cup DataOf(setup) : E[x] = IF x \in R THEN Zeros ELSE disk[x]
  BY <1>1 DEF Blanked
<1>3. \A j \in Table(setup), k \in Slots :
        \/ At(inodes, E, j, k) = At(inodes, disk, j, k)
        \/ /\ At(inodes, E, j, k) = 0
           /\ j = i /\ At(inodes, disk, j, k) \in R
        \/ /\ At(inodes, E, j, k) = 0
           /\ At(inodes, disk, j, k) = 0
  BY <1>1, BlankedPointers
<1>4. \A x \in R : x # 0 /\ \E k \in Slots : At(inodes, disk, i, k) = x
  BY <1>1, GoneIs
<1>5. \A j \in Table(setup), k \in Slots : At(inodes, disk, j, k) \in {0} \cup DataOf(setup)
  BY <1>1, SoundRange
<1>6. E[0] = Superblock
  BY <1>1, <1>2, <1>4
<1> HIDE DEF R
<1>7. ASSUME NEW j \in Table(setup), j # i, NEW k \in DataSlots
      PROVE  Read(inodes, E, j, k) = Read(inodes, disk, j, k)
  <2>1. k \in Slots
    BY DataSlotKinds
  <2>2. At(inodes, E, j, k) = At(inodes, disk, j, k)
    BY <1>3, <1>7, <2>1
  <2>3. At(inodes, disk, j, k) \notin R
    <3> SUFFICES ASSUME At(inodes, disk, j, k) \in R PROVE FALSE
      OBVIOUS
    <3>1. PICK l \in Slots : At(inodes, disk, i, l) = At(inodes, disk, j, k) /\ At(inodes, disk, j, k) # 0
      BY <1>4
    <3>2. \A g, h \in Table(setup), p, q \in Slots :
            At(inodes, disk, g, p) # 0 /\ At(inodes, disk, g, p) = At(inodes, disk, h, q) => g = h
      BY <1>1, SoundApart
    <3> QED BY <1>7, <2>1, <3>1, <3>2
  <2>4. At(inodes, disk, j, k) \in {0} \cup DataOf(setup)
    BY <1>5, <2>1
  <2> QED BY <1>2, <2>2, <2>3, <2>4 DEF Read
<1>8. ASSUME NEW k \in DataSlots
      PROVE  Read(inodes, E, i, k) \in {Read(inodes, disk, i, k), Zeros, Superblock}
  <2>1. k \in Slots
    BY DataSlotKinds
  <2>2. At(inodes, disk, i, k) \in {0} \cup DataOf(setup)
    BY <1>5, <2>1
  <2>3. At(inodes, E, i, k) \in {0, At(inodes, disk, i, k)}
    BY <1>3, <2>1
  <2> QED BY <1>2, <1>6, <2>2, <2>3 DEF Read
<1> QED BY <1>6, <1>7, <1>8

\* Word w of file i, in its block.
WordRead(I, D, i, w) == Read(I, D, i, (w - 1) \div Words)[(w - 1) % Words]

\* The size of a file, and its words.
LEMMA WordsOf ==
  ASSUME NEW I, NEW D, NEW i \in ValidIn(I), I[i].size \in 0 .. MaxSize
  PROVE  /\ FilesOf(I, D)[i] = FileOf(I, D, i)
         /\ DOMAIN FileOf(I, D, i) = 1 .. I[i].size /\ Len(FileOf(I, D, i)) = I[i].size
         /\ \A w \in 1 .. I[i].size :
              /\ w \in 1 .. MaxSize
              /\ FileOf(I, D, i)[w] = WordRead(I, D, i, w)
<1>1. FilesOf(I, D)[i] = FileOf(I, D, i)
  BY DEF FilesOf
<1>2. DOMAIN FileOf(I, D, i) = 1 .. I[i].size /\ I[i].size \in Nat
  BY Layout DEF FileOf
<1>3. Len(FileOf(I, D, i)) = I[i].size
  BY <1>2 DEF FileOf
<1>4. \A w \in 1 .. I[i].size : FileOf(I, D, i)[w] = WordRead(I, D, i, w)
  BY DEF FileOf, WordRead
<1>5. \A w \in 1 .. I[i].size : w \in 1 .. MaxSize
  BY Layout
<1> QED BY <1>1, <1>2, <1>3, <1>4, <1>5

\* Only the file of i changes.
OnlyFile(f, g, i) == DOMAIN g = DOMAIN f /\ \A j \in DOMAIN f \ {i} : g[j] = f[j]

LEMMA OneFile ==
  ASSUME NEW s \in Setups, NEW I, NEW D, Typed(s, I, D), NEW J, NEW E, NEW i,
         ValidIn(J) = ValidIn(I), \A j \in ValidIn(I) : j # i => J[j].size = I[j].size,
         \A j \in ValidIn(I) : j # i => \A k \in DataSlots : Read(J, E, j, k) = Read(I, D, j, k)
  PROVE  OnlyFile(FilesOf(I, D), FilesOf(J, E), i)
<1>1. ASSUME NEW j \in ValidIn(I), j # i PROVE FileOf(J, E, j) = FileOf(I, D, j)
  <2>1. I[j].size \in 0 .. MaxSize
    <3>1. I[j] \in InodesOn(s)
      BY DEF Typed, ValidIn
    <3> QED BY <3>1, InodeIs
  <2>2. J[j].size = I[j].size /\ \A k \in DataSlots : Read(J, E, j, k) = Read(I, D, j, k)
    BY <1>1
  <2> QED BY <2>1, <2>2, SameFile
<1> QED BY <1>1 DEF FilesOf, OnlyFile

LEMMA RemoveStores ==
  ASSUME FileInv, NEW i \in Inode, fs_remove(i)
  PROVE  /\ i \in DOMAIN Files /\ (Store!Drop(i) \/ Store!DropInterrupted(i))
         /\ disk'[0] = Superblock
<1> DEFINE N == Direct + Words + 1
           c == RemoveAfter(i)[N]
           e == Save(c, i, NoInode)
<1>1. /\ setup \in Setups /\ Sound(setup, inodes, disk) /\ Typed(setup, inodes, disk)
      /\ IInv /\ i \in Table(setup) /\ i \in Valid /\ N \in 0 .. N /\ Run("remove", e)
      /\ DOMAIN inodes = Table(setup)
  <2>1. i \in Valid /\ Run("remove", e)
    BY DEF fs_remove
  <2>2. N \in 0 .. N
    BY Layout
  <2> QED BY <2>1, <2>2, Parts DEF FileInv, Sound, Inode
<1>2. i \in DOMAIN Files /\ i \in ValidIn(inodes)
  BY <1>1, FilesAre DEF Files
<1>3. RemovalForm(i, N, c)
  BY <1>1, RemovalForms
<1> HIDE DEF c
<1>4. /\ e.disk = Blanked(Gone(i, N)) /\ e.inodes = With(inodes, i, NoInode)
      /\ \A x \in e.cuts : /\ IsSnapshot(x) /\ x.inodes = inodes
                           /\ \E m \in 0 .. N : x.disk = Blanked(Gone(i, m))
  <2>1. /\ IsCourse(c) /\ c.disk = Blanked(Gone(i, N)) /\ c.inodes = inodes
        /\ \A x \in c.cuts : /\ IsSnapshot(x) /\ x.inodes = inodes
                             /\ \E m \in 0 .. N : x.disk = Blanked(Gone(i, m))
    BY <1>3 DEF RemovalForm
  <2>2. /\ e.disk = c.disk /\ e.inodes = With(c.inodes, i, NoInode)
        /\ e.cuts = c.cuts \cup {Snapshot(c)}
        /\ IsSnapshot(Snapshot(c)) /\ Snapshot(c).disk = c.disk /\ Snapshot(c).inodes = c.inodes
    BY <2>1, SaveIs, IssueIs
  <2> QED BY <1>1, <2>1, <2>2
<1> HIDE DEF e
<1>5. \/ disk' = e.disk /\ inodes' = e.inodes
      \/ \E x \in e.cuts : disk' = x.disk /\ inodes' = x.inodes
  BY <1>1, <1>4, RunEnds
<1>6. CASE disk' = e.disk /\ inodes' = e.inodes
  <2> DEFINE J == inodes'
             E == disk'
             S == ValidIn(inodes) \ {i}
  <2>1. E = Blanked(Gone(i, N)) /\ J = With(inodes, i, NoInode)
    BY <1>4, <1>6
  <2> HIDE DEF J, E
  <2>2. /\ \A j \in Table(setup) : j # i =>
             \A k \in DataSlots : Read(inodes, E, j, k) = Read(inodes, disk, j, k)
        /\ E[0] = Superblock
    BY <1>1, <2>1, BlankedReads
  <2>3. /\ DOMAIN J = Table(setup)
        /\ J[i] = NoInode
        /\ \A j \in Table(setup) : j # i => J[j] = inodes[j]
    BY <1>1, <2>1 DEF With
  <2>4. ValidIn(J) = S /\ S \in SUBSET ValidIn(inodes) /\ \A j \in S : J[j].size = inodes[j].size
    <3>1. ~ NoInode.valid
      BY NoInodeIs
    <3> QED BY <1>1, <2>3, <3>1 DEF ValidIn
  <2>5. \A j \in S : \A k \in DataSlots : Read(J, E, j, k) = Read(inodes, disk, j, k)
    <3>1. ASSUME NEW j \in S, NEW k \in DataSlots PROVE Read(J, E, j, k) = Read(inodes, disk, j, k)
      <4>1. j \in Table(setup) /\ j # i /\ J[j] = inodes[j]
        BY <1>1, <2>3 DEF ValidIn
      <4>2. Read(J, E, j, k) = Read(inodes, E, j, k)
        BY <4>1 DEF Read, At
      <4> QED BY <2>2, <4>1, <4>2
    <3> QED BY <3>1
  <2> HIDE DEF S
  <2>6. FilesOf(J, E) = Restrict(FilesOf(inodes, disk), S)
    BY <1>1, <2>4, <2>5, SameFiles
  <2>7. Files' = Store!Restrict(Files, DOMAIN Files \ {i})
    <3>1. DOMAIN Files = ValidIn(inodes)
      BY FilesAre DEF FilesOf
    <3> QED BY <2>6, <3>1, FilesAre DEF Restrict, Store!Restrict, S, J, E
  <2>8. Store!Drop(i)
    BY <2>7 DEF Store!Drop, Files
  <2> QED BY <1>2, <2>2, <2>8 DEF E
<1>7. CASE \E x \in e.cuts : disk' = x.disk /\ inodes' = x.inodes
  <2> DEFINE J == inodes'
             E == disk'
  <2>1. PICK m \in 0 .. N : E = Blanked(Gone(i, m)) /\ J = inodes
    BY <1>4, <1>7
  <2> HIDE DEF J, E
  <2>2. /\ \A j \in Table(setup) : j # i =>
             \A k \in DataSlots : Read(inodes, E, j, k) = Read(inodes, disk, j, k)
        /\ \A k \in DataSlots :
             Read(inodes, E, i, k) \in {Read(inodes, disk, i, k), Zeros, Superblock}
        /\ E[0] = Superblock
    BY <1>1, <2>1, BlankedReads
  <2>3. OnlyFile(FilesOf(inodes, disk), FilesOf(J, E), i)
    <3>1. \A j \in ValidIn(inodes) : j # i =>
            \A k \in DataSlots : Read(J, E, j, k) = Read(inodes, disk, j, k)
      BY <1>1, <2>1, <2>2 DEF ValidIn
    <3>2. /\ ValidIn(J) = ValidIn(inodes)
          /\ \A j \in ValidIn(inodes) : j # i => J[j].size = inodes[j].size
      BY <2>1
    <3>3. setup \in Setups /\ Typed(setup, inodes, disk)
      BY <1>1
    <3> QED BY <3>1, <3>2, <3>3, OneFile
  <2>4. inodes[i].size \in 0 .. MaxSize
    BY <1>1, InodeIs DEF Typed
  <2>5. /\ Len(FilesOf(J, E)[i]) = Len(FilesOf(inodes, disk)[i])
        /\ \A k \in DOMAIN FilesOf(inodes, disk)[i] :
             FilesOf(J, E)[i][k] \in {FilesOf(inodes, disk)[i][k], 0, Super}
    <3> DEFINE f == FilesOf(inodes, disk)[i]
               g == FilesOf(J, E)[i]
    <3>1. /\ f = FileOf(inodes, disk, i)
          /\ DOMAIN FileOf(inodes, disk, i) = 1 .. inodes[i].size
          /\ Len(FileOf(inodes, disk, i)) = inodes[i].size
          /\ \A w \in 1 .. inodes[i].size :
               w \in 1 .. MaxSize /\ FileOf(inodes, disk, i)[w] = WordRead(inodes, disk, i, w)
      BY <1>2, <2>4, WordsOf
    <3>2. /\ g = FileOf(inodes, E, i)
          /\ DOMAIN FileOf(inodes, E, i) = 1 .. inodes[i].size
          /\ Len(FileOf(inodes, E, i)) = inodes[i].size
          /\ \A w \in 1 .. inodes[i].size :
               w \in 1 .. MaxSize /\ FileOf(inodes, E, i)[w] = WordRead(inodes, E, i, w)
      BY <1>2, <2>1, <2>4, WordsOf
    <3> HIDE DEF f, g
    <3>3. ASSUME NEW k \in DOMAIN f PROVE g[k] \in {f[k], 0, Super}
      <4> DEFINE q == (k - 1) \div Words
                 r == (k - 1) % Words
      <4>1. k \in 1 .. inodes[i].size /\ k \in 1 .. MaxSize
        BY <3>1
      <4>2. q \in DataSlots /\ r \in 0 .. Words - 1
        BY <4>1, WordSlot
      <4>3. f[k] = Read(inodes, disk, i, q)[r] /\ g[k] = Read(inodes, E, i, q)[r]
        BY <3>1, <3>2, <4>1 DEF WordRead
      <4> HIDE DEF q, r
      <4>4. Zeros[r] = 0 /\ Superblock[r] = Super
        BY <4>2 DEF Zeros, Superblock
      <4>5. Read(inodes, E, i, q) \in {Read(inodes, disk, i, q), Zeros, Superblock}
        BY <2>2, <4>2
      <4> QED BY <4>3, <4>4, <4>5
    <3>4. Len(g) = Len(f)
      BY <3>1, <3>2
    <3> QED BY <3>3, <3>4 DEF f, g
  <2>6. Files = FilesOf(inodes, disk) /\ Files' = FilesOf(J, E)
    BY FilesAre DEF J, E
  <2>7. Store!DropInterrupted(i)
    <3>1. /\ DOMAIN Files' = DOMAIN Files /\ Len(Files'[i]) = Len(Files[i])
          /\ \A j \in DOMAIN Files \ {i} : Files'[j] = Files[j]
          /\ \A k \in DOMAIN Files[i] : Files'[i][k] \in {Files[i][k], 0, Super}
      BY <2>3, <2>5, <2>6 DEF OnlyFile
    <3> QED BY <3>1 DEF Store!DropInterrupted, Store!SameLength, Files
  <2> QED BY <1>2, <2>2, <2>7 DEF E
<1> QED BY <1>5, <1>6, <1>7

-----------------------------------------------------------------------------
\* The words that m blocks hold from the block b on: those of the x words written, and
\* the rest of the last block.
LEMMA WordWritten ==
  ASSUME NEW b \in Nat, NEW off, off = Words * b, NEW n \in Nat \ {0}, NEW m \in Nat,
         m > 0 => Words * (m - 1) < n,
         NEW x, x = IF n <= Words * m THEN n ELSE Words * m,
         NEW w \in Nat \ {0}, NEW q, q = (w - 1) \div Words
  PROVE  /\ b <= q /\ q < b + m /\ w <= off + n => off < w /\ w <= off + x
         /\ b <= q /\ q < b + m /\ ~ (w <= off + n) =>
              off + x < w /\ q = (off + x - 1) \div Words /\ x > 0
         /\ ~ (b <= q /\ q < b + m) =>
              ~ (off < w /\ w <= off + x)
              /\ ~ (off + x < w /\ q = (off + x - 1) \div Words /\ x > 0)
<1> DEFINE r == (w - 1) % Words
           p == Words * m
           t == (off + x - 1) \div Words
<1>1. Words \in Nat \ {0} /\ off \in Nat /\ p \in Nat /\ Words * q \in Nat
      /\ q \in Nat /\ r \in 0 .. Words - 1 /\ w - 1 = Words * q + r
  <2>1. w - 1 \in Nat /\ Words \in Nat \ {0}
    BY Layout
  <2>2. w - 1 = Words * q + r /\ q \in Nat /\ r \in 0 .. Words - 1
    BY <2>1, ModDef
  <2> QED BY <2>1, <2>2
<1>2. \A a, c \in Nat : a <= c => Words * a \in Nat /\ Words * c \in Nat /\ Words * a <= Words * c
  BY <1>1, ProductGrows
<1>3. \A a \in Nat : Words * (a + 1) = Words * a + Words
  BY <1>1
<1>4. Words * (b + m) = off + p
  BY <1>1
<1>5. x \in Nat /\ x <= n /\ x <= p /\ (x = n \/ (x = p /\ p < n))
  BY <1>1
<1> HIDE DEF r, p
<1>6. CASE q < b
  <2>1. Words * (q + 1) <= off
    BY <1>1, <1>2, <1>6
  <2>2. w <= off
    BY <1>1, <1>3, <2>1
  <2> QED BY <1>1, <1>5, <1>6, <2>2
<1>7. CASE b + m <= q
  <2>1. off + p <= Words * q
    BY <1>1, <1>2, <1>4, <1>7
  <2>2. off + p < w
    BY <1>1, <2>1
  <2>3. x > 0 => t < b + m
    <3> SUFFICES ASSUME x > 0 PROVE t < b + m
      OBVIOUS
    <3>1. off + x - 1 \in Nat /\ off + x - 1 < Words * (b + m) /\ b + m \in Nat
      BY <1>1, <1>4, <1>5
    <3> QED BY <1>1, <3>1, DivBelow
  <2> HIDE DEF t
  <2>4. x > 0 => q # t
    <3>1. x > 0 => t \in Nat
      <4>1. x > 0 => off + x - 1 \in Nat
        BY <1>1, <1>5
      <4> QED BY <1>1, <4>1, ModDef DEF t
    <3> QED BY <1>1, <1>7, <2>3, <3>1
  <2> QED BY <1>1, <1>5, <1>7, <2>2, <2>4 DEF t
<1>8. CASE b <= q /\ q < b + m
  <2>1. off <= Words * q /\ off < w
    BY <1>1, <1>2, <1>8
  <2>2. w <= off + p
    <3>1. Words * (q + 1) <= off + p
      BY <1>1, <1>2, <1>4, <1>8
    <3> QED BY <1>1, <1>3, <3>1
  <2>3. CASE w <= off + n
    BY <1>1, <1>5, <1>8, <2>1, <2>2, <2>3
  <2>4. CASE ~ (w <= off + n)
    <3>1. x = n /\ off + x < w /\ x > 0
      BY <1>1, <1>5, <2>2, <2>4
    <3>2. m - 1 \in Nat /\ b + (m - 1) \in Nat /\ Words * (m - 1) < n
      BY <1>1, <1>8
    <3> DEFINE z == off + x - 1
    <3>3. z \in Nat /\ w - 1 \in Nat /\ z <= w - 1
      BY <1>1, <3>1
    <3>4. t <= q /\ t \in Nat
      BY <1>1, <3>3, DivGrows, ModDef
    <3>5. ~ (t < q)
      <4> SUFFICES ASSUME t < q PROVE FALSE
        OBVIOUS
      <4>1. z = Words * t + (z % Words) /\ z % Words \in 0 .. Words - 1
        BY <1>1, <3>3, ModDef
      <4>2. Words * (t + 1) <= Words * q
        BY <1>1, <1>2, <3>4
      <4>3. Words * q <= Words * (b + (m - 1))
        BY <1>1, <1>2, <1>8, <3>2
      <4>4. Words * (b + (m - 1)) = off + Words * (m - 1) /\ Words * (m - 1) \in Nat
        BY <1>1, <3>2
      <4> HIDE DEF t
      <4>5. Words * (t + 1) = Words * t + Words /\ Words * t \in Nat
        BY <1>1, <1>3, <3>4
      <4> HIDE DEF z
      <4>6. z < Words * (t + 1)
        BY <1>1, <4>1, <4>5
      <4>7. z < off + Words * (m - 1)
        BY <1>1, <3>2, <3>3, <3>4, <4>2, <4>3, <4>4, <4>5, <4>6
      <4> QED BY <1>1, <3>1, <3>2, <4>4, <4>7 DEF z
    <3> HIDE DEF t, z
    <3>6. q = t
      BY <1>1, <3>4, <3>5
    <3> QED BY <1>8, <2>4, <3>1, <3>6 DEF t
  <2> QED BY <2>3, <2>4
<1> QED BY <1>1, <1>6, <1>7, <1>8

\* A write has no more blocks than its words need.
LEMMA BlocksWanted ==
  ASSUME NEW off \in 0 .. MaxSize - 1, off % Words = 0, NEW n \in 1 .. MaxSize - off,
         NEW m \in 0 .. BlockCount(off, n)
  PROVE  /\ FirstBlock(off) \in Nat /\ off = Words * FirstBlock(off)
         /\ m > 0 => Words * (m - 1) < n
<1> DEFINE b == FirstBlock(off)
           e == off + n + Words - 1
           q == e \div Words
<1>1. /\ Words \in Nat \ {0} /\ off \in Nat /\ n \in Nat \ {0} /\ e \in Nat
  BY Layout
<1>2. b \in Nat /\ off = Words * b + (off % Words)
  BY <1>1, ModDef DEF FirstBlock
<1>3. off = Words * b /\ Words * b \in Nat
  BY <1>1, <1>2
<1>4. q \in Nat /\ Words * q <= e
  <2>1. e = Words * q + (e % Words) /\ q \in Nat /\ e % Words \in 0 .. Words - 1
    BY <1>1, ModDef
  <2> HIDE DEF q, e
  <2>2. Words * q \in Nat
    BY <1>1, <2>1
  <2> QED BY <1>1, <2>1, <2>2
<1>5. BlockCount(off, n) = q - b
  BY DEF BlockCount
<1> HIDE DEF b, q
<1>6. b + m <= q /\ m \in Nat
  <2>1. BlockCount(off, n) \in Nat
    BY WriteRange
  <2> QED BY <1>2, <1>4, <1>5, <2>1
<1>7. Words * (b + m) <= Words * q
  BY <1>1, <1>2, <1>4, <1>6, ProductGrows
<1>8. ASSUME m > 0 PROVE Words * (m - 1) < n
  <2>1. Words * (b + m) = Words * b + Words * (m - 1) + Words /\ Words * (m - 1) \in Nat
    BY <1>1, <1>2, <1>6, <1>8
  <2>2. Words * q \in Nat
    BY <1>1, <1>4
  <2> QED BY <1>1, <1>3, <1>4, <1>7, <2>1, <2>2
<1> QED BY <1>2, <1>3, <1>8 DEF b

\* What FileStore says of a write, in the file system's terms.
Overlaid(f, off, n, d) ==
  [k \in 1 .. Max({Len(f), off + n}) |->
     IF off < k /\ k <= off + n THEN d
     ELSE IF off + n < k /\ (k - 1) \div Words = (off + n - 1) \div Words /\ n > 0 THEN 0
     ELSE f[k]]

LEMMA OverlaidIs ==
  ASSUME NEW f, NEW off, NEW n, NEW d
  PROVE  Store!Written(f, off, n, d) = Overlaid(f, off, n, d)
BY DEF Store!Written, Store!Max, Overlaid, Max

\* How many words of a write are in its first m blocks.
Through(n, m) == Min({n, m * Words})

LEMMA ThroughIs ==
  ASSUME NEW n \in Nat, NEW m \in Nat
  PROVE  /\ Through(n, m) = IF n <= Words * m THEN n ELSE Words * m
         /\ Through(n, m) \in 0 .. n
         /\ Through(n, m) \in Store!Extents(n)
<1> DEFINE p == Words * m
<1>1. p \in Nat /\ m * Words = p /\ Words \in Nat \ {0}
  BY Layout
<1>2. (Words * m + 0) % Words = 0
  BY <1>1, DivIs
<1>3. p % Words = 0
  BY <1>1, <1>2
<1> HIDE DEF p
<1>4. Through(n, m) = IF n <= p THEN n ELSE p
  BY <1>1, MinMaxOfTwo DEF Through
<1>5. Through(n, m) \in 0 .. n
  BY <1>1, <1>4
<1>6. Through(n, m) \in Store!Extents(n)
  BY <1>1, <1>3, <1>4 DEF Store!Extents
<1> QED BY <1>4, <1>5, <1>6 DEF p

\* The first z words of the blocks B are those of g.
Hold(B, g, z) == \A w \in 1 .. z : /\ w \in 1 .. MaxSize
                                   /\ B[(w - 1) \div Words][(w - 1) % Words] = g[w]

\* The blocks a write has got to hold what FileStore says.
LEMMA PlannedWords ==
  ASSUME NEW i, inodes[i].size \in 0 .. MaxSize,
         NEW off \in 0 .. MaxSize - 1, off % Words = 0, off <= inodes[i].size,
         NEW n \in 1 .. MaxSize - off, NEW d,
         NEW m \in 0 .. BlockCount(off, n), NEW f, f = FileOf(inodes, disk, i)
  PROVE  Hold(Planned(i, off, n, d)[m], Overlaid(f, off, Through(n, m), d),
              Max({inodes[i].size, off + Through(n, m)}))
<1> SUFFICES ASSUME NEW w \in 1 .. Max({inodes[i].size, off + Through(n, m)})
             PROVE  /\ w \in 1 .. MaxSize
                    /\ Planned(i, off, n, d)[m][(w - 1) \div Words][(w - 1) % Words]
                         = Overlaid(f, off, Through(n, m), d)[w]
  BY DEF Hold
<1> DEFINE b == FirstBlock(off)
           x == Through(n, m)
           z == inodes[i].size
           q == (w - 1) \div Words
           r == (w - 1) % Words
           B == Planned(i, off, n, d)[m][q]
<1>1. /\ b \in Nat /\ off = Words * b /\ n \in Nat \ {0} /\ m \in Nat
      /\ m > 0 => Words * (m - 1) < n
      /\ off \in Nat /\ z \in Nat /\ off <= z /\ z <= MaxSize /\ off + n <= MaxSize
      /\ MaxSize \in Nat
  BY BlocksWanted, Layout
<1>2. x = (IF n <= Words * m THEN n ELSE Words * m) /\ x \in 0 .. n
  BY <1>1, ThroughIs
<1>3. /\ Len(f) = z
      /\ \A k \in 1 .. z : f[k] = Read(inodes, disk, i, (k - 1) \div Words)[(k - 1) % Words]
  BY <1>1 DEF FileOf
<1> HIDE DEF x, z
<1>4. Max({z, off + x}) = IF z <= off + x THEN off + x ELSE z
  <2>1. z \in Nat /\ off + x \in Nat
    BY <1>1, <1>2
  <2> QED BY <2>1, MinMaxOfTwo
<1>5. w \in 1 .. MaxSize /\ w \in Nat \ {0} /\ (w <= z \/ w <= off + x)
  <2>1. w \in 1 .. Max({z, off + x})
    BY DEF x, z
  <2> QED BY <1>1, <1>2, <1>4, <2>1
<1>6. q \in DataSlots /\ r \in 0 .. Words - 1 /\ q * Words + r = w - 1 /\ q \in Nat
  <2>1. q \in DataSlots /\ r \in 0 .. Words - 1
    BY <1>5, WordSlot
  <2>2. Words \in Nat \ {0} /\ w - 1 \in Nat
    BY <1>5, Layout
  <2>3. w - 1 = Words * q + r /\ q \in Nat
    BY <2>2, ModDef
  <2> HIDE DEF q, r
  <2> QED BY <2>1, <2>2, <2>3
<1>7. /\ b <= q /\ q < b + m /\ w <= off + n => off < w /\ w <= off + x
      /\ b <= q /\ q < b + m /\ ~ (w <= off + n) =>
           off + x < w /\ q = (off + x - 1) \div Words /\ x > 0
      /\ ~ (b <= q /\ q < b + m) =>
           ~ (off < w /\ w <= off + x)
           /\ ~ (off + x < w /\ q = (off + x - 1) \div Words /\ x > 0)
  <2> HIDE DEF q, b
  <2>1. q = (w - 1) \div Words
    BY DEF q
  <2> QED BY <1>1, <1>2, <1>5, <2>1, WordWritten
<1>8. Overlaid(f, off, x, d)[w] = IF off < w /\ w <= off + x THEN d
                                  ELSE IF off + x < w /\ q = (off + x - 1) \div Words /\ x > 0 THEN 0
                                  ELSE f[w]
  <2>1. w \in 1 .. Max({Len(f), off + x})
    BY <1>3 DEF x, z
  <2> QED BY <2>1 DEF Overlaid
<1>9. B = IF b <= q /\ q < b + m THEN Content(off, n, d, q) ELSE Read(inodes, disk, i, q)
  BY <1>6 DEF Planned
<1>10. Content(off, n, d, q)[r] = IF w <= off + n THEN d ELSE 0
  <2>1. Content(off, n, d, q)[r] = IF q * Words + r < off + n THEN d ELSE 0
    BY <1>6 DEF Content
  <2> HIDE DEF q, r
  <2> QED BY <1>1, <1>5, <1>6, <2>1
<1>11. w <= z => f[w] = Read(inodes, disk, i, q)[r]
  <2>1. w <= z => w \in 1 .. z
    BY <1>1, <1>5
  <2> QED BY <1>3, <2>1
<1> HIDE DEF q, r, b, B
<1>12. CASE b <= q /\ q < b + m
  BY <1>1, <1>2, <1>5, <1>7, <1>8, <1>9, <1>10, <1>12 DEF B, q, r, x
<1>13. CASE ~ (b <= q /\ q < b + m)
  <2>1. w <= z
    BY <1>1, <1>2, <1>5, <1>7, <1>13
  <2>2. Overlaid(f, off, x, d)[w] = f[w]
    BY <1>7, <1>8, <1>13
  <2>3. B = Read(inodes, disk, i, q)
    BY <1>9, <1>13
  <2> QED BY <1>5, <1>11, <2>1, <2>2, <2>3 DEF B, q, r, x
<1> QED BY <1>12, <1>13

LEMMA WriteStores ==
  ASSUME Careful, FileInv, NEW i \in Inode, NEW off \in 0 .. MaxSize - 1, NEW d \in setup.data,
         NEW n \in 1 .. MaxSize - off, fs_write(i, off, n, d)
  PROVE  /\ i \in DOMAIN Files /\ off \in 0 .. Len(Files[i]) /\ n \in 1 .. MaxSize /\ d \in Data
         /\ off % Words = 0
         /\ Store!Write(i, off, n, d) \/ Store!WriteInterrupted(i, off, n, d)
         /\ disk'[0] = Superblock
<1> DEFINE e == WriteCourse(i, off, n, d)
           P == Planned(i, off, n, d)
           f == FileOf(inodes, disk, i)
           z == inodes[i].size
           J == inodes'
           E == disk'
<1>1. /\ setup \in Setups /\ Sound(setup, inodes, disk) /\ Typed(setup, inodes, disk)
      /\ IInv /\ disk[0] = Superblock /\ i \in Table(setup) /\ i \in ValidIn(inodes)
      /\ DOMAIN inodes = Table(setup) /\ inodes[i] \in InodesOn(setup)
      /\ off % Words = 0 /\ off <= z /\ Run("write", e)
  <2>1. i \in Valid /\ off % Words = 0 /\ off <= z /\ Run("write", e)
    BY DEF fs_write
  <2>2. i \in Table(setup) /\ i \in ValidIn(inodes)
    BY <2>1, FilesAre, Parts DEF FileInv
  <2> QED BY <2>1, <2>2, Parts, SoundTyped DEF FileInv
<1>2. z \in 0 .. MaxSize /\ inodes[i].valid = TRUE
  BY <1>1, InodeIs DEF ValidIn
<1>3. /\ Files = FilesOf(inodes, disk) /\ Files' = FilesOf(J, E)
      /\ i \in DOMAIN Files /\ Files[i] = f /\ Len(f) = z /\ DOMAIN f = 1 .. z
  <2>1. Files = FilesOf(inodes, disk) /\ Files' = FilesOf(J, E)
    BY FilesAre
  <2>2. i \in DOMAIN FilesOf(inodes, disk) /\ FilesOf(inodes, disk)[i] = f
        /\ Len(f) = z /\ DOMAIN f = 1 .. z
    BY <1>1, <1>2, WordsOf DEF FilesOf, WordRead
  <2> QED BY <2>1, <2>2
<1>4. off \in 0 .. Len(Files[i]) /\ n \in 1 .. MaxSize /\ d \in Data
  <2>1. off \in 0 .. z /\ n \in 1 .. MaxSize
    BY <1>1, <1>2, Layout
  <2>2. d \in Data
    BY <1>1 DEF Data
  <2> QED BY <1>3, <2>1, <2>2
<1>5. WriteOutcome(i, P, off, n, e)
  BY <1>1, WriteGoes
<1>6. DOMAIN P = 0 .. BlockCount(off, n) /\ DOMAIN P \subseteq Nat
  <2>1. DOMAIN P = 0 .. BlockCount(off, n)
    BY PlannedIs
  <2> QED BY <2>1
<1>7. \A x \in e.cuts : IsSnapshot(x) /\ \E m \in DOMAIN P : CutReads(i, P[m], x)
  BY <1>5 DEF WriteOutcome, WriteCuts, SoundCuts
<1>8. PICK o \in InodesOn(setup), m \in DOMAIN P :
        /\ e.inodes = With(inodes, i, o) /\ o.valid = TRUE /\ Reads(i, P[m], e.disk, o)
        /\ o.size = Max({z, off + Through(n, m)})
  BY <1>5 DEF WriteOutcome, Through
<1>9. \A h \in DOMAIN P : Through(n, h) \in 0 .. n /\ Through(n, h) \in Store!Extents(n)
  <2>1. n \in Nat
    BY <1>4
  <2> QED BY <1>6, <2>1, ThroughIs
<1>10. \A h \in DOMAIN P :
         Hold(P[h], Overlaid(f, off, Through(n, h), d), Max({z, off + Through(n, h)}))
  BY <1>1, <1>2, <1>6, PlannedWords
<1> HIDE DEF e, P, f, z, J, E
<1>11. \/ E = e.disk /\ J = e.inodes
       \/ \E x \in e.cuts : E = x.disk /\ J = x.inodes
  <2>1. \/ disk' = e.disk /\ inodes' = e.inodes
        \/ \E x \in e.cuts : disk' = x.disk /\ inodes' = x.inodes
    BY <1>1, <1>7, RunEnds
  <2> QED BY <2>1 DEF J, E
<1>12. CASE E = e.disk /\ J = e.inodes
  <2> DEFINE x == Through(n, m)
             g == Overlaid(f, off, x, d)
  <2>1. /\ E[0] = disk[0]
        /\ \A j \in Table(setup) : j # i =>
             \A k \in DataSlots : Read(J, E, j, k) = Read(inodes, disk, j, k)
        /\ \A k \in DataSlots : Read(J, E, i, k) = P[m][k]
    BY <1>8, <1>12 DEF Reads
  <2>2. DOMAIN J = Table(setup) /\ J[i] = o /\ \A j \in Table(setup) : j # i => J[j] = inodes[j]
    BY <1>1, <1>8, <1>12 DEF With
  <2>3. ValidIn(J) = ValidIn(inodes)
    BY <1>1, <1>2, <1>8, <2>2 DEF ValidIn
  <2>4. OnlyFile(FilesOf(inodes, disk), FilesOf(J, E), i)
    <3>1. \A j \in ValidIn(inodes) : j # i => j \in Table(setup)
      BY <1>1 DEF ValidIn
    <3>2. \A j \in ValidIn(inodes) : j # i => J[j].size = inodes[j].size
      BY <2>2, <3>1
    <3>3. \A j \in ValidIn(inodes) : j # i =>
            \A k \in DataSlots : Read(J, E, j, k) = Read(inodes, disk, j, k)
      BY <2>1, <3>1
    <3> QED BY <1>1, <2>3, <3>2, <3>3, OneFile
  <2>5. FileOf(J, E, i) = g
    <3>1. J[i].size = Max({z, off + x})
      BY <1>8, <2>2
    <3>2. ASSUME NEW w \in 1 .. J[i].size
          PROVE  Read(J, E, i, (w - 1) \div Words)[(w - 1) % Words] = g[w]
      <4>1. /\ w \in 1 .. MaxSize
            /\ P[m][(w - 1) \div Words][(w - 1) % Words] = g[w]
        BY <1>10, <3>1 DEF Hold
      <4>2. (w - 1) \div Words \in DataSlots
        BY <4>1, WordSlot
      <4> QED BY <2>1, <4>1, <4>2
    <3>3. g = [w \in 1 .. Max({z, off + x}) |-> g[w]]
      BY <1>3 DEF Overlaid
    <3>4. FileOf(J, E, i) = [w \in 1 .. J[i].size |-> g[w]]
      <4> HIDE DEF g
      <4> QED BY <3>2 DEF FileOf
    <3> HIDE DEF g, x
    <3> QED BY <3>1, <3>3, <3>4
  <2> HIDE DEF x, g
  <2>6. Files' = [Files EXCEPT ![i] = g]
    <3>1. i \in ValidIn(J) /\ FilesOf(J, E)[i] = g
      BY <1>1, <2>3, <2>5 DEF FilesOf
    <3>2. \A j \in DOMAIN Files : Files'[j] = IF j = i THEN g ELSE Files[j]
      BY <1>3, <2>4, <3>1 DEF OnlyFile
    <3>3. DOMAIN Files' = DOMAIN Files /\ Files' = [j \in DOMAIN Files' |-> Files'[j]]
      BY <1>3, <2>4 DEF OnlyFile, FilesOf
    <3>4. Files = [j \in DOMAIN Files |-> Files[j]]
      BY <1>3 DEF FilesOf
    <3> DEFINE A == Files
               B == Files'
    <3>5. /\ DOMAIN B = DOMAIN A /\ B = [j \in DOMAIN B |-> B[j]]
          /\ \A j \in DOMAIN A : B[j] = IF j = i THEN g ELSE A[j]
      BY <3>2, <3>3
    <3> HIDE DEF A, B
    <3>6. B = [A EXCEPT ![i] = g]
      BY <3>5
    <3> QED BY <3>6 DEF A, B
  <2>7. Store!Written(Files[i], off, x, d) = g
    BY <1>3, OverlaidIs DEF g
  <2>8. Store!Write(i, off, n, d)
    <3>1. x \in Store!Extents(n)
      BY <1>9 DEF x
    <3>2. Files' = [Files EXCEPT ![i] = Store!Written(Files[i], off, x, d)]
      BY <2>6, <2>7
    <3> QED BY <3>1, <3>2 DEF Store!Write, Files
  <2>9. disk'[0] = Superblock
    BY <1>1, <2>1 DEF E
  <2> QED BY <1>1, <1>3, <1>4, <2>8, <2>9
<1>13. CASE \E x \in e.cuts : E = x.disk /\ J = x.inodes
  <2>1. PICK x \in e.cuts : E = x.disk /\ J = x.inodes
    BY <1>13
  <2>2. PICK h \in DOMAIN P : CutReads(i, P[h], x)
    BY <1>7, <2>1
  <2> DEFINE y == Through(n, h)
             g == Overlaid(f, off, y, d)
  <2>3. /\ J = inodes /\ E[0] = disk[0]
        /\ \A j \in Table(setup) : j # i =>
             \A k \in DataSlots : Read(inodes, E, j, k) = Read(inodes, disk, j, k)
        /\ \A k \in DataSlots : At(inodes, disk, i, k) = 0 \/ Read(inodes, E, i, k) = P[h][k]
    BY <2>1, <2>2 DEF CutReads
  <2>4. OnlyFile(FilesOf(inodes, disk), FilesOf(J, E), i)
    <3>1. \A j \in ValidIn(inodes) : j # i => j \in Table(setup)
      BY <1>1 DEF ValidIn
    <3>2. \A j \in ValidIn(inodes) : j # i =>
            \A k \in DataSlots : Read(J, E, j, k) = Read(inodes, disk, j, k)
      BY <2>3, <3>1
    <3>3. /\ ValidIn(J) = ValidIn(inodes)
          /\ \A j \in ValidIn(inodes) : j # i => J[j].size = inodes[j].size
      BY <2>3
    <3> QED BY <1>1, <3>2, <3>3, OneFile
  <2>5. /\ FilesOf(J, E)[i] = FileOf(inodes, E, i) /\ Len(FileOf(inodes, E, i)) = z
        /\ \A w \in 1 .. z :
             /\ FileOf(inodes, E, i)[w] = Read(inodes, E, i, (w - 1) \div Words)[(w - 1) % Words]
             /\ f[w] = Read(inodes, disk, i, (w - 1) \div Words)[(w - 1) % Words]
    BY <1>1, <1>2, <2>3, WordsOf DEF z, f, WordRead
  <2>6. ASSUME NEW w \in 1 .. z
        PROVE  FileOf(inodes, E, i)[w] = g[w] \/ f[w] = Super
    <3> DEFINE q == (w - 1) \div Words
               r == (w - 1) % Words
    <3>1. w \in 1 .. Max({z, off + y})
      <4>1. z \in Nat /\ off + y \in Nat
        BY <1>2, <1>9, Layout DEF z
      <4>2. Max({z, off + y}) = IF z <= off + y THEN off + y ELSE z
        BY <4>1, MinMaxOfTwo
      <4> QED BY <4>1, <4>2
    <3>2. w \in 1 .. MaxSize /\ P[h][q][r] = g[w]
      BY <1>10, <3>1 DEF Hold
    <3>3. q \in DataSlots /\ r \in 0 .. Words - 1
      BY <3>2, WordSlot
    <3>4. FileOf(inodes, E, i)[w] = Read(inodes, E, i, q)[r] /\ f[w] = Read(inodes, disk, i, q)[r]
      BY <2>5
    <3> HIDE DEF q, r, g
    <3>5. CASE At(inodes, disk, i, q) = 0
      <4>1. Read(inodes, disk, i, q) = Superblock
        BY <1>1, <3>5 DEF Read
      <4>2. Superblock[r] = Super
        BY <3>3 DEF Superblock
      <4> QED BY <3>4, <4>1, <4>2
    <3>6. CASE Read(inodes, E, i, q) = P[h][q]
      BY <3>2, <3>4, <3>6
    <3> QED BY <2>3, <3>3, <3>5, <3>6
  <2> HIDE DEF y, g
  <2>7. Store!Written(Files[i], off, y, d) = g
    BY <1>3, OverlaidIs DEF g
  <2>8. Store!WriteInterrupted(i, off, n, d)
    <3>1. /\ DOMAIN Files' = DOMAIN Files /\ Len(Files'[i]) = Len(Files[i])
          /\ \A j \in DOMAIN Files \ {i} : Files'[j] = Files[j]
      BY <1>3, <2>4, <2>5 DEF OnlyFile
    <3>2. y \in Store!Extents(n)
      BY <1>9 DEF y
    <3>3. \A k \in DOMAIN Files[i] :
            Files'[i][k] = Store!Written(Files[i], off, y, d)[k] \/ Files[i][k] = Super
      BY <1>3, <2>5, <2>6, <2>7
    <3> QED BY <3>1, <3>2, <3>3 DEF Store!WriteInterrupted, Store!SameLength, Files
  <2>9. disk'[0] = Superblock
    BY <1>1, <2>3 DEF E
  <2> QED BY <1>1, <1>3, <1>4, <2>8, <2>9
<1> QED BY <1>11, <1>12, <1>13

-----------------------------------------------------------------------------
\* A file system starts out without files.
LEMMA InitStores == Init => FileInv /\ Store!FInit
<1> SUFFICES ASSUME Init PROVE FileInv /\ Store!FInit
  OBVIOUS
<1>1. IInv
  BY InitSound
<1>2. disk[0] = Superblock
  BY DEF Init, Superblock
<1>3. Valid = {}
  <2>1. \A i \in Inode : inodes[i] = NoInode
    BY DEF Init, Inode
  <2> QED BY <2>1, NoInodeIs DEF Valid
<1>4. Store!FInit
  BY <1>3 DEF Store!FInit
<1> QED BY <1>1, <1>2, <1>4 DEF FileInv

\* Every call does to the files what FileStore says, or nothing; the superblock stays.
LEMMA NextStores ==
  ASSUME Careful, FileInv, [Next]_vars
  PROVE  [Store!FNext]_Files /\ disk'[0] = Superblock
<1>1. disk[0] = Superblock /\ Inode = Table(setup)
  BY Parts DEF FileInv
<1>2. CASE fs_format
  <2>1. (Store!Format \/ Store!FormatInterrupted) /\ disk'[0] = Superblock
    BY <1>2, FormatStores
  <2> QED BY <2>1 DEF Store!FNext
<1>3. CASE disk' = disk /\ inodes' = inodes
  BY <1>1, <1>3, NothingStored
<1>4. CASE fs_mount
  BY <1>3, <1>4, MountStores
<1>5. CASE fs_unmount
  BY <1>3, <1>5 DEF fs_unmount
<1>6. CASE fs_create
  <2>1. Files' = Files \/ \E i \in Numbers : Store!Add(i)
    BY <1>6, CreateStores
  <2>2. disk'[0] = Superblock
    BY <1>1, <1>6, CreateStores
  <2> QED BY <2>1, <2>2 DEF Store!FNext
<1>7. ASSUME NEW i \in Inode, fs_remove(i)
      PROVE  [Store!FNext]_Files /\ disk'[0] = Superblock
  <2>1. /\ i \in DOMAIN Files /\ (Store!Drop(i) \/ Store!DropInterrupted(i))
        /\ disk'[0] = Superblock
    BY <1>7, RemoveStores
  <2> QED BY <2>1 DEF Store!FNext, Files
<1>8. ASSUME NEW i \in Inode, NEW off \in 0 .. MaxSize - 1, NEW d \in setup.data,
             NEW n \in 1 .. MaxSize - off, fs_write(i, off, n, d)
      PROVE  [Store!FNext]_Files /\ disk'[0] = Superblock
  <2>1. /\ i \in DOMAIN Files /\ off \in 0 .. Len(Files[i]) /\ n \in 1 .. MaxSize /\ d \in Data
        /\ off % Words = 0
        /\ Store!Write(i, off, n, d) \/ Store!WriteInterrupted(i, off, n, d)
        /\ disk'[0] = Superblock
    BY <1>8, WriteStores
  <2> QED BY <2>1 DEF Store!FNext, Files
<1>9. CASE UNCHANGED vars
  BY <1>3, <1>9 DEF vars
<1> QED BY <1>2, <1>4, <1>5, <1>6, <1>7, <1>8, <1>9 DEF Next

\* Whatever the disk and the calls, with failures and kills that are Careful: files are
\* read back as they were written, and no call changes another file than its own.
THEOREM FilesStored ==
  ASSUME Careful
  PROVE  Spec => ImplementsFileStore
<1>1. Init => FileInv /\ Store!FInit
  BY InitStores
<1>2. FileInv /\ [Next]_vars => [Store!FNext]_Files /\ FileInv'
  <2> SUFFICES ASSUME FileInv, [Next]_vars PROVE [Store!FNext]_Files /\ FileInv'
    OBVIOUS
  <2>1. [Store!FNext]_Files /\ disk'[0] = Superblock
    BY NextStores
  <2>2. IInv'
    BY NextSound DEF FileInv
  <2>3. Superblock' = Superblock
    BY DEF Superblock
  <2> QED BY <2>1, <2>2, <2>3 DEF FileInv
<1> QED BY <1>1, <1>2, PTL DEF Spec, ImplementsFileStore, Store!FSpec, Files

=============================================================================
