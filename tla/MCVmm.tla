------------------------------- MODULE MCVmm -------------------------------
(***************************************************************************)
(* A page is two bytes.  Pages 1 to 4 hold the static directory and        *)
(* tables, 5 the code of the ring-3 test, which does not start at the      *)
(* start of its page; 7 to 11 are free.  Three tables of four entries map  *)
(* pages 0 to 11; the heap has a page in each of two further directory     *)
(* entries, and a second page in one of them.  Ranges are reserved that    *)
(* begin and end on, inside and outside the free pages.                    *)
(*                                                                         *)
(* A second instance has the addresses of the kernel, with the managed     *)
(* memory cut to 64 pages above kernel_end and one table.                  *)
(***************************************************************************)
EXTENDS Vmm

\* A lower bound of where the image ends: the array msgqueues alone (ipc/msg.h:
\* 16 queues of 16 messages of 4 + 4096 bytes, with key, id, head, tail, count,
\* 16 pids and pid_count), in an image that linker.ld starts at 0x100000.
MCImageEnd == 1048576 + 16 * (4 + 4 + 16 * (4 + 4096) + 3 * 4 + 16 * 4 + 4)

MCNone == {}
MCVaddrs == {24, 26, 32}
MCAddresses == {1, 17, 20, 26}

=============================================================================
