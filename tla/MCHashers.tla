----------------------------- MODULE MCHashers -----------------------------
EXTENDS Hashers

Setup(program, files, threads, capacity, failing) ==
  [program |-> program, files |-> files, threads |-> threads, capacity |-> capacity,
   failing |-> failing, givesUp |-> FALSE]
FailingSetup(s) == [s EXCEPT !.givesUp = TRUE]

\* Any of the files may fail, but in reading05, whose workers stop at a failure, only so
\* many that one worker is left.
AllThatPass ==
  {Setup("reading02", 4, 1, 1, 4), Setup("reading11", 4, 1, 1, 4),
   Setup("reading03", 3, 1, 1, 3), FailingSetup(Setup("reading03", 3, 1, 1, 3)),
   Setup("reading04", 4, 1, 1, 4), Setup("reading05", 6, 2, 4, 1), Setup("reading05", 5, 2, 2, 1),
   Setup("reading05", 4, 3, 3, 2), Setup("reading06", 4, 2, 1, 4),
   FailingSetup(Setup("reading05", 2, 2, 2, 1)),
   Setup("exam02", 4, 2, 3, 4), Setup("exam02", 4, 3, 3, 1), FailingSetup(Setup("exam02", 3, 2, 2, 3))}

\* Both workers of reading05 meet a file that cannot be read; MAX_THREADS and QSIZE as
\* they are.
BothFail == {Setup("reading05", 5, 2, 4, 2)}
=============================================================================
