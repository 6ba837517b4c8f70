------------------------------ MODULE FileStore ------------------------------
(***************************************************************************)
(* What the calls of Project 04's file system do to its files, as long as  *)
(* the disk's block 0 is sound: files of words, by inode number.           *)
(***************************************************************************)
EXTENDS Integers, Sequences, FiniteSetsExt, Functions

CONSTANTS Inode,    \* inode numbers
          Words,    \* the words of a block
          MaxSize,  \* bound: the words of a file
          Data,     \* bound: the words that callers write
          Super     \* what the words of the superblock look like

VARIABLE files  \* the contents of each file there is

FInit == files = [i \in {} |-> << >>]

Add(i) == /\ i \notin DOMAIN files
          /\ files' = [j \in DOMAIN files \cup {i} |-> IF j = i THEN << >> ELSE files[j]]

Drop(i) == files' = Restrict(files, DOMAIN files \ {i})

\* f after n words d were written behind its first off words: the rest of the last
\* block that was written becomes 0.
Written(f, off, n, d) ==
  [k \in 1 .. Max({Len(f), off + n}) |->
     IF off < k /\ k <= off + n THEN d
     ELSE IF off + n < k /\ (k - 1) \div Words = (off + n - 1) \div Words /\ n > 0 THEN 0
     ELSE f[k]]

\* A full disk ends a write between two blocks.
Extents(n) == {n} \cup {m \in 0 .. n : m % Words = 0}

Write(i, off, n, d) == \E m \in Extents(n) : files' = [files EXCEPT ![i] = Written(@, off, m, d)]

\* Only i changes, and keeps its length.
SameLength(i) == /\ DOMAIN files' = DOMAIN files /\ Len(files'[i]) = Len(files[i])
                 /\ \A j \in DOMAIN files \ {i} : files'[j] = files[j]

\* An interrupted write has replaced the blocks it got to; the file keeps its length.
\* (A word that an interrupted removal has lost may change.)
WriteInterrupted(i, off, n, d) ==
  /\ SameLength(i)
  /\ \E m \in Extents(n) : \A k \in DOMAIN files[i] :
       files'[i][k] = Written(files[i], off, m, d)[k] \/ files[i][k] = Super

\* An interrupted removal leaves a file of the same length whose words may be lost:
\* they read as 0, or as the superblock where a pointer was lost.
DropInterrupted(i) ==
  /\ SameLength(i)
  /\ \A k \in DOMAIN files[i] : files'[i][k] \in {files[i][k], 0, Super}

Format == files' = [i \in {} |-> << >>]

\* An interrupted format: each file is gone or whole.
FormatInterrupted == \E S \in SUBSET DOMAIN files : files' = Restrict(files, S)

FNext == \/ Format \/ FormatInterrupted
         \/ \E i \in Inode : Add(i)
         \/ \E i \in DOMAIN files :
              \/ Drop(i) \/ DropInterrupted(i)
              \/ \E off \in 0 .. Len(files[i]), n \in 1 .. MaxSize, d \in Data :
                   /\ off % Words = 0
                   /\ Write(i, off, n, d) \/ WriteInterrupted(i, off, n, d)

FSpec == FInit /\ [][FNext]_files
=============================================================================
