----------------------------- MODULE HashFiles -----------------------------
(***************************************************************************)
(* What the programs of reading02 to reading06 and exam02 do with the      *)
(* files named on their command line, whatever processes, threads or       *)
(* queues they use: each file is hashed once, not too many of them at a    *)
(* time, and the exit status of a program that counts its failures is that *)
(* number, modulo what an exit status can hold.  Of one that does not      *)
(* count them nothing is said of the status.                               *)
(***************************************************************************)
EXTENDS Integers, FiniteSets

CONSTANTS ExitCodes,   \* the number of values of an exit status
          NULL

VARIABLES terms,    \* what this program promises
          bad,      \* the files that cannot be hashed
          file,     \* the state of each file
          status    \* the exit status, NULL while the program runs

hvars == <<terms, bad, file, status>>

In(state) == {f \in DOMAIN file : file[f] = state}

HInit == /\ file = [f \in 1 .. terms.files |-> "waiting"]
         /\ bad \subseteq DOMAIN file
         /\ status = NULL

Start(f) == /\ file[f] = "waiting"
            /\ Cardinality(In("hashing")) < terms.limit
            /\ terms.inOrder => \A g \in 1 .. f - 1 : file[g] # "waiting"
            /\ file' = [file EXCEPT ![f] = "hashing"]
            /\ UNCHANGED <<terms, bad, status>>

Finish(f) == /\ file[f] = "hashing"
             /\ file' = [file EXCEPT ![f] = IF f \in bad THEN "failed" ELSE "hashed"]
             /\ UNCHANGED <<terms, bad, status>>

Exit == /\ status = NULL
        /\ In("waiting") \cup In("hashing") = {}
        /\ status' \in 0 .. ExitCodes - 1
        /\ terms.counts => status' = Cardinality(In("failed")) % ExitCodes
        /\ UNCHANGED <<terms, bad, file>>

\* The program ends with EXIT_FAILURE; what it has started may go on.
GiveUp == /\ status = NULL
          /\ terms.givesUp
          /\ status' = 1 % ExitCodes
          /\ UNCHANGED <<terms, bad, file>>

HNext == (\E f \in DOMAIN file : Start(f) \/ Finish(f)) \/ Exit \/ GiveUp

HSpec == HInit /\ [][HNext]_hvars
=============================================================================
