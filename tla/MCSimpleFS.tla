----------------------------- MODULE MCSimpleFS -----------------------------
EXTENDS SimpleFS

Setup(blocks, inodeBlocks, data, failing, killed) ==
  [blocks |-> blocks, inodeBlocks |-> inodeBlocks, data |-> data, failing |-> failing,
   killed |-> killed]

\* A disk that fills up, where calls are killed that leave no data in free blocks;
\* and one on which there is always room, where any call is killed.
FullOrKilled == {Setup(5, 1, {3, 4}, {"create"}, {"mount", "create", "remove"}),
                 Setup(8, 1, {3}, {"format"}, Calls)}

\* A disk that fills up and writes that are killed.
FullAndKilled == {Setup(5, 1, {3, 4}, {}, {"write"})}
=============================================================================
