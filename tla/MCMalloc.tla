------------------------------ MODULE MCMalloc ------------------------------
EXTENDS Malloc

AllFits == {"first", "worst", "best"}
=============================================================================
