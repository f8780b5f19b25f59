----------------------------- MODULE MCStrings -----------------------------
(***************************************************************************)
(* Single calls on every memory of five bytes, one value negative as a     *)
(* char; strtok on every text of five bytes, with one delimiter behind it. *)
(* Six devices, some of one name, one without a name and one without       *)
(* operations, and the commands "a", "ab" and "b" (1 and 2 are the         *)
(* letters) with lines that begin like them.                               *)
(***************************************************************************)
EXTENDS Registry

MCChars == {0, 1, 200}
MCInts == {0, 1, 200, -56}
MCTexts == {[p \in 0..7 |-> IF p < 5 THEN t[p] ELSE IF p = 6 THEN 1 ELSE 0] :
               t \in [0..4 -> {1, 200}]}

\* "a" "ab" "b" "b", then "a b" "ab" "abb a" "" " a" "abbbb" "b  "
Rodata == <<1, 0, 1, 2, 0, 2, 0, 2, 0, 1, 32, 2, 0, 1, 2, 0, 1, 2, 2, 32, 1, 0, 0,
            32, 1, 0, 1, 2, 2, 2, 2, 0, 2, 32, 32, 0>>
MCRodata == [p \in 0..35 |-> Rodata[p + 1]]
MCDevices == 1..6
MCDevName == <<0, 2, 5, 7, NULLP, 2>>
MCDevOps == <<{"read"}, {"read", "ioctl"}, {"ioctl"}, {"read"}, {"read"}, {"none"}>>
MCCommands == <<0, 2, 5>>
MCLines == {9, 13, 16, 22, 23, 26, 32}

=============================================================================
