------------------------------- MODULE MCHeap -------------------------------
(* Heap on a few bytes: large enough for three blocks and their remainders. *)
EXTENDS Heap

MCRequests == {0, 1, 2, 5}
=============================================================================
