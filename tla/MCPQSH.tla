------------------------------- MODULE MCPQSH -------------------------------
EXTENDS PQSH, TLC

Fifo(n)       == [policy |-> "fifo", cores |-> n]
RoundRobin(n) == [policy |-> "rdrn", cores |-> n]

FifoTwo        == {Fifo(2)}
FifoOne        == {Fifo(1)}
AllThatPass    == {Fifo(1), Fifo(2), RoundRobin(2)}

Symmetric == Permutations(Process)
=============================================================================
