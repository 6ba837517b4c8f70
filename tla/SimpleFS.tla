------------------------------ MODULE SimpleFS ------------------------------
(***************************************************************************)
(* Project 04, src/fs.c over src/disk.c, as src/sfssh.c uses it.  A block  *)
(* is a sequence of words, which are data or pointers as the reader takes  *)
(* them (union Block).  A call goes through a course of disk operations:   *)
(* it may get to the end, one of them may fail, or the program may be      *)
(* killed before one of them, which leaves the disk as it is by then.      *)
(* Calls on invalid inodes, without a mounted disk, or to read, change     *)
(* nothing.  Inode numbers are those of the table: load_inode would take   *)
(* any other from a data block.                                            *)
(***************************************************************************)
EXTENDS Integers, FiniteSets, FiniteSetsExt, Functions

CONSTANTS PerBlock,   \* INODES_PER_BLOCK
          Direct,     \* POINTERS_PER_INODE
          Words,      \* POINTERS_PER_BLOCK, the words of a block
          Setups,     \* bound: disks, the words written to them, the calls that fail or are killed
          MaxSize,    \* bound: where writes end, and so the words of a file
          MaxKills,   \* bound: how often the program is killed in a call
          Super       \* the words of block 0, a valid superblock

Calls == {"format", "mount", "create", "remove", "write"}

ASSUME LayoutAssumption == {PerBlock, Direct, Words} \subseteq Nat \ {0} /\ Super \in Nat
ASSUME SetupsAssumption ==
  \A s \in Setups : /\ s.inodeBlocks \in Nat \ {0} /\ s.blocks \in Nat
                    /\ s.inodeBlocks + 1 < s.blocks
                    /\ s.data \subseteq Nat /\ s.failing \subseteq Calls /\ s.killed \subseteq Calls
\* Callers write no farther than the pointers of a file reach.  fs_write does not check it:
\* beyond them it indexes past indirect_block.pointers, of which this module says nothing.
ASSUME BoundsAssumption == MaxKills \in Nat /\ MaxSize \in 0 .. (Direct + Words) * Words

VARIABLES setup,    \* the disk of this run
          inodes,   \* the inode table on the disk, by inode number
          disk,     \* the other blocks on the disk; block 0 is the superblock
          mounted,  \* fs->disk is set
          free,     \* the blocks whose bit in fs->free_blocks is set
          kills     \* history: how often the program was killed in a call

vars == <<setup, inodes, disk, mounted, free, kills>>

Inode      == DOMAIN inodes
Valid      == {i \in Inode : inodes[i].valid}
DataBlocks == DOMAIN disk \ {0}
TableBlock(i) == i \div PerBlock + 1

NoInode == [valid |-> FALSE, size |-> 0, direct |-> [k \in 0 .. Direct - 1 |-> 0], indirect |-> 0]
Zeros   == [w \in 0 .. Words - 1 |-> 0]

\* The pointers of an inode n, with the disk's blocks in d: its direct ones, those
\* behind the indirect block, and the one to the indirect block.
Slots == 0 .. Direct + Words

PointerOf(n, d, k) ==
  CASE k < Direct -> n.direct[k]
    [] k = Direct + Words -> n.indirect
    [] OTHER -> IF n.indirect = 0 THEN 0 ELSE d[n.indirect][k - Direct]

Pointer(i, k) == PointerOf(inodes[i], disk, k)

Init == /\ setup \in Setups
        /\ inodes = [i \in 0 .. setup.inodeBlocks * PerBlock - 1 |-> NoInode]
        /\ disk = [b \in {0} \cup setup.inodeBlocks + 1 .. setup.blocks - 1 |->
                     IF b = 0 THEN [w \in 0 .. Words - 1 |-> Super] ELSE Zeros]
        /\ mounted = FALSE
        /\ free = {}
        /\ kills = 0

-----------------------------------------------------------------------------
(* The course of a call: its state now, and those in which it may be cut   *)
(* off, which are those before each disk operation.                        *)

Snapshot(c) == [disk |-> c.disk, inodes |-> c.inodes, free |-> c.free, mounted |-> c.mounted]

Begin == [disk |-> disk, inodes |-> inodes, free |-> free, mounted |-> mounted, cuts |-> {}]

\* disk_read or disk_write is called.
Issue(c) == [c EXCEPT !.cuts = @ \cup {Snapshot(c)}]

Put(c, b, content) == [Issue(c) EXCEPT !.disk[b] = content]

\* save_inode reads the inode's block and writes it back: nothing changes in between.
Save(c, i, inode) == [Issue(c) EXCEPT !.inodes[i] = inode]

Leaves(s) == /\ disk' = s.disk /\ inodes' = s.inodes
             /\ free' = s.free /\ mounted' = s.mounted

\* The call ends; or it returns early, and what it has done stays done; or the
\* program is killed, and starts again without a mounted disk.
Completes(c) == Leaves(c) /\ UNCHANGED kills

Fails(call, c) == /\ call \in setup.failing
                  /\ \E s \in c.cuts : Leaves(s)
                  /\ UNCHANGED kills

Killed(call, c) == /\ call \in setup.killed /\ kills < MaxKills
                   /\ \E s \in c.cuts : Leaves([s EXCEPT !.free = {}, !.mounted = FALSE])
                   /\ kills' = kills + 1

Run(call, c) == /\ Completes(c) \/ Fails(call, c) \/ Killed(call, c)
                /\ UNCHANGED setup

-----------------------------------------------------------------------------
(* Slips, for the mutants in PROJECT.json.                                 *)

\* The blocks behind an indirect block stay marked free.
PointersInNone(b) == {}

\* A removed block is zeroed, but not marked free again.
ReleaseZeroes(c, b) == IF b = 0 THEN c ELSE Put(c, b, Zeros)

\* The bitmap has a bit for the block behind the last one.
BitmapPastEnd == 1 .. setup.blocks

\* The size is as asked for, even if the disk was full.
SizeAsked(c, off, n) == Max({c.inode.size, off + n})

-----------------------------------------------------------------------------
(* fs_format zeroes every block but the first, which it leaves as it is.   *)

FormatBlock(c, b) ==
  IF b \in DataBlocks
    THEN Put(c, b, Zeros)
    ELSE [Issue(c) EXCEPT !.inodes = [i \in Inode |-> IF TableBlock(i) = b THEN NoInode
                                                          ELSE c.inodes[i]]]

\* The course after each block.
FormatAfter[b \in 0 .. setup.blocks - 1] ==
  IF b = 0 THEN Begin ELSE FormatBlock(FormatAfter[b - 1], b)

fs_format == ~mounted /\ Run("format", FormatAfter[setup.blocks - 1])

-----------------------------------------------------------------------------
(* fs_mount, and fs_unmount at the exit of the shell.                      *)

\* The words of an indirect block, all taken for pointers.
PointersIn(b) == Range(disk[b])

\* The bits of an inode's blocks are cleared; the first inode of a block has that
\* block read.
MountInode(c, i) ==
  LET start  == IF i % PerBlock = 0 THEN Issue([c EXCEPT !.free = @ \ {TableBlock(i)}]) ELSE c
      direct == [start EXCEPT !.free = @ \ Range(inodes[i].direct)]
  IN  IF ~inodes[i].valid THEN start
      ELSE IF inodes[i].indirect = 0 THEN direct
      ELSE [Issue([direct EXCEPT !.free = @ \ {inodes[i].indirect}])
              EXCEPT !.free = @ \ PointersIn(inodes[i].indirect)]

\* Every bit but that of the superblock.
BitmapAllSet == 1 .. setup.blocks - 1

\* The course after each inode of the table: fs->disk is set once the superblock is
\* read, and stays set when a later read fails.
MountAfter[n \in 0 .. setup.inodeBlocks * PerBlock] ==
  IF n = 0 THEN [Issue(Begin) EXCEPT !.mounted = TRUE, !.free = BitmapAllSet]
           ELSE MountInode(MountAfter[n - 1], n - 1)

fs_mount == ~mounted /\ Run("mount", MountAfter[setup.inodeBlocks * PerBlock])

fs_unmount == /\ mounted
              /\ mounted' = FALSE /\ free' = {}
              /\ UNCHANGED <<setup, inodes, disk, kills>>

-----------------------------------------------------------------------------
(* fs_create and fs_remove.                                                *)

\* The inode that fs_create takes.  (It returns Chosen % PerBlock, the index within a
\* block of inodes.)
Chosen == Min(Inode \ Valid)

fs_create == /\ mounted /\ Valid # Inode
             /\ Run("create", [Issue(Begin) EXCEPT !.inodes[Chosen].valid = TRUE])

\* Each block there is is zeroed, then its bit is set.
Release(c, b) == IF b = 0 THEN c ELSE [Put(c, b, Zeros) EXCEPT !.free = @ \cup {b}]

\* The blocks behind the indirect block go first, then it, then the direct ones.
SlotRemoved(k) == IF k <= Words + 1 THEN Direct + k - 1 ELSE k - Words - 2

\* The course after each of them.  The pointers behind the indirect block are read
\* before any block is zeroed.
RemoveAfter(i) ==
  LET after[k \in 0 .. Direct + Words + 1] ==
        IF k = 0 THEN Issue(Begin) ELSE Release(after[k - 1], Pointer(i, SlotRemoved(k)))
  IN  after

fs_remove(i) ==
  /\ mounted /\ i \in Valid
  /\ Run("remove", Save(RemoveAfter(i)[Direct + Words + 1], i, NoInode))

-----------------------------------------------------------------------------
(* fs_write.  A write in progress also has its copy of the inode, the      *)
(* number of blocks it has done, and whether it has found the disk full.   *)

\* allocate_free_block: the lowest block whose bit is set (the disk is not full).
Allocated(c) == Min(c.free)

Take(c) == [c EXCEPT !.free = @ \ {Allocated(c)}]

WriteDirect(c, k, content) ==
  IF c.inode.direct[k] # 0
    THEN [Put(c, c.inode.direct[k], content) EXCEPT !.done = @ + 1]
  ELSE IF c.free = {} THEN [c EXCEPT !.full = TRUE]
  ELSE [Put([Take(c) EXCEPT !.inode.direct[k] = Allocated(c)], Allocated(c), content)
          EXCEPT !.done = @ + 1]

\* The indirect block is allocated or read.
WithIndirect(c) ==
  IF c.inode.indirect # 0 THEN Issue(c)
  ELSE IF c.free = {} THEN [c EXCEPT !.full = TRUE]
  ELSE [Take(c) EXCEPT !.inode.indirect = Allocated(c)]

\* Its pointers in memory.
Pointers(c) == IF c.inode.indirect # 0 THEN c.disk[c.inode.indirect] ELSE Zeros

WriteIndirect(a, k, content) ==
  LET c == WithIndirect(a)
      b == Pointers(a)[k]
      pointers == [Pointers(a) EXCEPT ![k] = Allocated(c)]
  IN  IF c.full THEN c
      ELSE IF b # 0 THEN [Put(c, b, content) EXCEPT !.done = @ + 1]
      ELSE IF c.free = {} THEN [c EXCEPT !.full = TRUE]
      ELSE [Put(Put(Take(c), c.inode.indirect, pointers), Allocated(c), content)
              EXCEPT !.done = @ + 1]

WriteBlock(c, k, content) ==
  IF c.full THEN c
  ELSE IF k < Direct THEN WriteDirect(c, k, content)
  ELSE WriteIndirect(c, k - Direct, content)

\* bytes_written is what was asked for, unless the disk was full.
SizeAfter(c, off, n) == Max({c.inode.size, off + Min({n, c.done * Words})})

\* The blocks of a file that a write gets to.
FirstBlock(off) == off \div Words
BlockCount(off, n) == (off + n + Words - 1) \div Words - FirstBlock(off)

\* The last block is filled up with zeros.
Content(off, n, d, k) == [w \in 0 .. Words - 1 |-> IF k * Words + w < off + n THEN d ELSE 0]

\* The inode is read.
WriteBegin(i) == Issue([disk |-> disk, inodes |-> inodes, free |-> free, mounted |-> mounted,
                        cuts |-> {}, inode |-> inodes[i], done |-> 0, full |-> FALSE])

\* n words d from the word off on: the course after each block.
WriteAfter(i, off, n, d) ==
  LET after[k \in 0 .. BlockCount(off, n)] ==
        IF k = 0 THEN WriteBegin(i)
        ELSE WriteBlock(after[k - 1], FirstBlock(off) + k - 1,
                        Content(off, n, d, FirstBlock(off) + k - 1))
  IN  after

\* The inode is saved at the end, with the blocks allocated by then.
WriteCourse(i, off, n, d) ==
  LET end == WriteAfter(i, off, n, d)[BlockCount(off, n)]
  IN  Save(end, i, [end.inode EXCEPT !.size = SizeAfter(end, off, n)])

\* The offsets are those of copyin: whole blocks, and no farther than the file's end.
fs_write(i, off, n, d) ==
  /\ mounted /\ i \in Valid
  /\ off % Words = 0 /\ off <= inodes[i].size
  /\ Run("write", WriteCourse(i, off, n, d))

\* That a write ends within MaxSize is the callers' bound, not a guard of fs_write.
Next == \/ fs_format \/ fs_mount \/ fs_unmount \/ fs_create
        \/ \E i \in Inode : fs_remove(i)
        \/ \E i \in Inode, off \in 0 .. MaxSize - 1, d \in setup.data :
             \E n \in 1 .. MaxSize - off : fs_write(i, off, n, d)

Spec == Init /\ [][Next]_vars

-----------------------------------------------------------------------------
(* Properties.                                                             *)

Block == 0 .. setup.blocks - 1

\* Every variable holds a value of its type: pointers are blocks of the disk, none is
\* marked free that the disk does not have, and there is no bitmap without a mounted
\* disk.  A size is within MaxSize because no caller writes farther (see BoundsAssumption).
TypeOK ==
  /\ setup \in Setups
  /\ \A i \in Inode : inodes[i] \in [valid : BOOLEAN, size : 0 .. MaxSize,
                                    direct : [0 .. Direct - 1 -> Block], indirect : Block]
  /\ disk \in [{0} \cup setup.inodeBlocks + 1 .. setup.blocks - 1 ->
                  [0 .. Words - 1 -> Nat]]
  /\ mounted \in BOOLEAN
  /\ free \subseteq Block /\ (~mounted => free = {})
  /\ kills \in 0 .. MaxKills

Owned == {Pointer(i, k) : i \in Valid, k \in Slots} \ {0}

\* No block of the disk is used twice, by two files or in two places of one, and
\* none that holds inodes or the superblock is used at all: after every call, and
\* after every kill of the program in the middle of one that the setup allows.
NoSharing ==
  \A i, j \in Valid, k, l \in Slots :
    Pointer(i, k) # 0 => /\ Pointer(i, k) \in DataBlocks
                         /\ Pointer(i, k) = Pointer(j, l) => <<i, k>> = <<j, l>>

\* The bitmap in memory agrees with the pointers on the disk: the blocks marked free
\* are those that no file uses and that hold no inodes, so none is handed out twice
\* and none is lost, also when a disk that was full has had files removed.
BitmapOK == mounted => free = DataBlocks \ Owned

\* What fs_read returns for a whole file: a pointer that is 0 leads to block 0.
File(i) == [w \in 1 .. inodes[i].size |->
              disk[Pointer(i, (w - 1) \div Words)][(w - 1) % Words]]

Numbers == UNION {0 .. s.inodeBlocks * PerBlock - 1 : s \in Setups}

Data == UNION {s.data : s \in Setups}

Store == INSTANCE FileStore WITH Inode <- Numbers, files <- [i \in Valid |-> File(i)]

\* The calls do to the files what FileStore says, whatever blocks they are in: what
\* was written is read back until it is overwritten, through full disks, kills and
\* remounts, and a call that fails or is killed changes its own file only.
ImplementsFileStore == Store!FSpec
=============================================================================
