----------------------------- MODULE MCKmalloc -----------------------------
(***************************************************************************)
(* The sizes of the code divided by four, and a small page: a header of 4, *)
(* alignment 2, pages of 24.  A request of 21 needs two pages when it      *)
(* grows the heap, and the second one only once a frame was freed.         *)
(***************************************************************************)
EXTENDS Kmalloc

MCSizes == {0, 1, 9, 21}

=============================================================================
