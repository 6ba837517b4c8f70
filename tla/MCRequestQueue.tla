--------------------------- MODULE MCRequestQueue ---------------------------
EXTENDS RequestQueue, TLC

\* Threads of a role are interchangeable, and so are addresses.
Symmetric == Permutations(Producer) \cup Permutations(Consumer) \cup Permutations(Request)
=============================================================================
