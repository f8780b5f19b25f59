------------------------------- MODULE MCVfs -------------------------------
(***************************************************************************)
(* A tree of three nodes besides the root that are opened and moved, two   *)
(* files of one byte, and one file of three bytes with two descriptors.    *)
(* The content starts with one byte instead of 256, so that it is doubled. *)
(***************************************************************************)
EXTENDS Vfs

MCKinds == {<<"a", "FILE">>, <<"b", "FILE">>, <<"d", "DIRECTORY">>}
MCBytes == {1, 2}
MCCounts == {1, 2}
MCStatSizes == {0, 4096}
MCBounds == {[nodes |-> 4, fds |-> 1, size |-> 0],
             [nodes |-> 3, fds |-> 1, size |-> 1],
             [nodes |-> 2, fds |-> 2, size |-> 3]}

=============================================================================
