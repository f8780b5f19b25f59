----------------------------- MODULE FileStore -----------------------------
(***************************************************************************)
(* What kernel/fs/vfs.c promises its callers: files are sequences of       *)
(* bytes, and a descriptor is a file and a position in it that reads and   *)
(* writes move.  A call that fails changes nothing, except that a write    *)
(* that would make the file longer may empty it; a write behind the end of *)
(* a file leaves bytes nobody wrote before it.                             *)
(***************************************************************************)
EXTENDS Integers, Sequences

CONSTANTS
    Node,               \* what can be opened
    Fd,                 \* descriptors
    Buffers,            \* what callers write
    COUNTS,             \* how much callers ask to read
    Junk,               \* a byte that nobody wrote
    StatSizes           \* what stat may say of a file that holds nothing

VARIABLES
    file,               \* the bytes of each node
    fd,                 \* [node, offset] of the descriptors that are open
    out                 \* the last call, what it returned, and its buffer

fsVars == <<file, fd, out>>

Returned(call, n, bytes) == out' = [call |-> call, ret |-> n, buf |-> bytes]

FsInit ==
    /\ file = [n \in Node |-> <<>>]
    /\ fd = [d \in {} |-> <<>>]
    /\ out = [call |-> <<"init">>, ret |-> 0, buf |-> <<>>]

Opens == \E d \in Fd \ DOMAIN fd, n \in Node :
    /\ \A e \in Fd \ DOMAIN fd : d <= e
    /\ Returned(<<"open">>, d, <<>>)
    /\ fd' = [e \in DOMAIN fd \cup {d} |->
                 IF e = d THEN [node |-> n, offset |-> 0] ELSE fd[e]]
    /\ UNCHANGED file

Closes == \E d \in DOMAIN fd :
    /\ Returned(<<"close">>, 0, <<>>)
    /\ fd' = [e \in DOMAIN fd \ {d} |-> fd[e]]
    /\ UNCHANGED file

\* The bytes from the position on, as far as the file reaches.
Reads == \E d \in DOMAIN fd, count \in COUNTS :
    LET bytes == file[fd[d].node]
        from == fd[d].offset
        got == SubSeq(bytes, from + 1, IF from + count < Len(bytes) THEN from + count
                                       ELSE Len(bytes))
    IN  /\ Returned(<<"read">>, Len(got), got)
        /\ fd' = [fd EXCEPT ![d].offset = @ + Len(got)]
        /\ UNCHANGED file

\* The buffer replaces what is at the position; all else stays.
Over(bytes, from, buf) ==
    [i \in 1..(IF from + Len(buf) > Len(bytes) THEN from + Len(buf) ELSE Len(bytes)) |->
        IF i > from /\ i <= from + Len(buf) THEN buf[i - from]
        ELSE IF i <= Len(bytes) THEN bytes[i] ELSE Junk]

Writes == \E d \in DOMAIN fd, buf \in Buffers :
    /\ Returned(<<"write", d>>, Len(buf), <<>>)
    /\ file' = [file EXCEPT ![fd[d].node] = Over(@, fd[d].offset, buf)]
    /\ fd' = [fd EXCEPT ![d].offset = @ + Len(buf)]

\* A write that would make its file longer may lose all the file holds.
Loses == \E d \in DOMAIN fd, buf \in Buffers :
    /\ Returned(<<"write", d>>, -1, <<>>)
    /\ fd[d].offset + Len(buf) > Len(file[fd[d].node])
    /\ file' = [file EXCEPT ![fd[d].node] = <<>>]
    /\ UNCHANGED fd

\* Any other call that fails has no effect.
Calls == {<<"open">>, <<"close">>, <<"read">>, <<"stat">>} \cup {"write"} \X Fd
Fails ==
    /\ \E call \in Calls : Returned(call, -1, <<>>)
    /\ UNCHANGED <<file, fd>>

Stats == \E n \in Node :
    /\ \E size \in {Len(file[n])} \cup (IF file[n] = <<>> THEN StatSizes ELSE {}) :
          Returned(<<"stat">>, 0, <<size>>)
    /\ UNCHANGED <<file, fd>>

FsNext == Opens \/ Closes \/ Reads \/ Writes \/ Loses \/ Fails \/ Stats
FsSpec == FsInit /\ [][FsNext]_fsVars

=============================================================================
