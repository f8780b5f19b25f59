------------------------------ MODULE Strings ------------------------------
(***************************************************************************)
(* libc/string.c over a memory of bytes: a pointer is an address.  A loop  *)
(* that only looks is the first address at which it stops; a loop that     *)
(* copies is done byte by byte, since its areas may overlap.  Callers keep *)
(* to C's rules: areas inside the memory, strings that end, and no overlap *)
(* except for memmove.                                                     *)
(***************************************************************************)
EXTENDS Integers, Sequences, SequencesExt

CONSTANTS
    SIZE,               \* bound: bytes of memory the single calls work on
    CHARS,              \* values of bytes, as unsigned char
    INTS,               \* the int arguments that stand for a character
    TEXTS,              \* bound: larger memories, for sequences of strtok
    DELIM               \* the address of strtok's delimiters in them

NULLP == -1
Address == 0..(SIZE - 1)
FOREVER == 32               \* more rounds than a loop over a string can have

ASSUME StringsAssumption ==
    /\ SIZE \in Nat \ {0} /\ SIZE <= FOREVER
    /\ CHARS \subseteq 0..255 /\ 0 \in CHARS
    /\ INTS \subseteq -128..255

VARIABLES
    mem,
    static_str,         \* strtok's
    last,               \* history: the last call, its result and the memory before
    tokens              \* history: the results of strtok since it got a string

strVars == <<mem, static_str, last, tokens>>

\* The rounds of a loop that stops after n of them, or at the first i that ends it.
Rounds(n, ends(_)) ==
    CHOOSE i \in 0..n : (i = n \/ ends(i)) /\ \A j \in 0..(i - 1) : ~ends(j)

\* (unsigned char)c, and whether *p == (char)c.
Uchar(c) == c % 256

Stores(m, d, s, order) == FoldLeft(LAMBDA x, i : [x EXCEPT ![d + i] = x[s + i]], m, order)
Upwards(n) == [i \in 1..n |-> i - 1]

memcpy(m, d, s, n) == Stores(m, d, s, Upwards(n))

\* Faulty variant: always from the start.
MoveUpwards(m, d, s, n) == Stores(m, d, s, Upwards(n))

memmove(m, d, s, n) ==
    Stores(m, d, s, IF d < s THEN Upwards(n) ELSE Reverse(Upwards(n)))

memset(m, s, c, n) == [p \in DOMAIN m |-> IF p >= s /\ p < s + n THEN Uchar(c) ELSE m[p]]

strlen(m, s) == Rounds(FOREVER, LAMBDA i : m[s + i] = 0)

\* How many of at most n bytes come before the end of the string.
Upto(m, s, n) == Rounds(n, LAMBDA i : m[s + i] = 0)

strcpy(m, d, s) == memcpy(m, d, s, strlen(m, s) + 1)
strncpy(m, d, s, n) ==
    LET k == Upto(m, s, n) IN memset(memcpy(m, d, s, k), d + k, 0, n - k)
strcat(m, d, s) == strcpy(m, d + strlen(m, d), s)
strncat(m, d, s, n) ==
    LET k == Upto(m, s, n)
        end == d + strlen(m, d)
    IN  [memcpy(m, end, s, k) EXCEPT ![end + k] = 0]

strncmp(m, s1, s2, n) ==
    LET i == Rounds(n, LAMBDA j : m[s1 + j] = 0 \/ m[s1 + j] # m[s2 + j])
    IN  IF i = n THEN 0 ELSE m[s1 + i] - m[s2 + i]
strcmp(m, s1, s2) == strncmp(m, s1, s2, FOREVER)
memcmp(m, s1, s2, n) ==
    LET i == Rounds(n, LAMBDA j : m[s1 + j] # m[s2 + j])
    IN  IF i = n THEN 0 ELSE m[s1 + i] - m[s2 + i]

memchr(m, s, c, n) ==
    LET i == Rounds(n, LAMBDA j : m[s + j] = Uchar(c))
    IN  IF i = n THEN NULLP ELSE s + i
strchr(m, s, c) ==
    LET p == s + Rounds(FOREVER, LAMBDA i : m[s + i] = 0 \/ m[s + i] = Uchar(c))
    IN  IF m[p] # 0 \/ c = 0 THEN p ELSE NULLP
strrchr(m, s, c) ==
    LET end == s + strlen(m, s)
    IN  IF c = 0 THEN end
        ELSE Max({NULLP} \cup {p \in s..(end - 1) : m[p] = Uchar(c)})

strspn(m, s, accept) ==
    Rounds(FOREVER, LAMBDA i : m[s + i] = 0 \/ strchr(m, accept, m[s + i]) = NULLP)
strcspn(m, s, reject) ==
    Rounds(FOREVER, LAMBDA i : m[s + i] = 0 \/ strchr(m, reject, m[s + i]) # NULLP)
strpbrk(m, s, accept) ==
    LET p == s + strcspn(m, s, accept) IN IF m[p] = 0 THEN NULLP ELSE p

\* Faulty variant: the needle's final 0 is compared too.
FindsWhole(m, haystack, needle) ==
    LET p == haystack + Rounds(FOREVER, LAMBDA i : m[haystack + i] = 0
                                        \/ strcmp(m, haystack + i, needle) = 0)
    IN  IF m[needle] = 0 THEN haystack ELSE IF m[p] = 0 THEN NULLP ELSE p

strstr(m, haystack, needle) ==
    LET p == haystack + Rounds(FOREVER, LAMBDA i : m[haystack + i] = 0 \/
                             strncmp(m, haystack + i, needle, strlen(m, needle)) = 0)
    IN  IF m[needle] = 0 THEN haystack ELSE IF m[p] = 0 THEN NULLP ELSE p

strxfrm(m, d, s, n) ==
    LET k == IF strlen(m, s) < n THEN strlen(m, s) ELSE n - 1
    IN  IF n > 0 THEN [memcpy(m, d, s, k) EXCEPT ![d + k] = 0] ELSE m

\* Faulty variant: the delimiter behind a token is not overwritten.
TokenNotEnded(m, str, delim) ==
    LET from == str + strspn(m, str, delim)
        end == from + strcspn(m, from, delim)
    IN  IF str = NULLP \/ m[from] = 0 THEN [ret |-> NULLP, next |-> NULLP, mem |-> m]
        ELSE [ret |-> from, next |-> IF m[end] = 0 THEN NULLP ELSE end + 1, mem |-> m]

\* strtok from the string it is given, or else from static_str: the token, the
\* new static_str and the memory.
strtok(m, str, delim) ==
    LET from == str + strspn(m, str, delim)
        end == from + strcspn(m, from, delim)
    IN  IF str = NULLP \/ m[from] = 0 THEN [ret |-> NULLP, next |-> NULLP, mem |-> m]
        ELSE IF m[end] = 0 THEN [ret |-> from, next |-> NULLP, mem |-> m]
        ELSE [ret |-> from, next |-> end + 1, mem |-> [m EXCEPT ![end] = 0]]

-----------------------------------------------------------------------------
(* One call after the other.                                               *)

Idle == [f |-> "none"]

StrInit(memories) ==
    /\ mem \in memories
    /\ static_str = NULLP
    /\ last = Idle
    /\ tokens = [str |-> NULLP, of |-> <<>>, found |-> <<>>]

Called(f, d, s, n, ret, m) ==
    /\ mem' = m
    /\ last' = [f |-> f, d |-> d, s |-> s, n |-> n, ret |-> ret, before |-> mem]
    /\ UNCHANGED <<static_str, tokens>>

Area(p, n) == p + n <= SIZE
IsString(p) == \E q \in p..(SIZE - 1) : mem[q] = 0
Length(p) == strlen(mem, p)
Apart(d, dn, s, sn) == Area(d, dn) /\ Area(s, sn) /\ (d + dn <= s \/ s + sn <= d)

Copy(d, s, n) ==
    \/ Apart(d, n, s, n) /\ Called("memcpy", d, s, n, d, memcpy(mem, d, s, n))
    \/ Area(d, n) /\ Area(s, n) /\ Called("memmove", d, s, n, d, memmove(mem, d, s, n))
    \/ IsString(s) /\ Apart(d, n, s, Length(s) + 1)
         /\ \/ Called("strncpy", d, s, n, d, strncpy(mem, d, s, n))
            \/ Called("strxfrm", d, s, n, Length(s), strxfrm(mem, d, s, n))
            \/ n = Length(s) + 1 /\ Called("strcpy", d, s, n, d, strcpy(mem, d, s))
    \/ IsString(s) /\ IsString(d)
         /\ Apart(d, Length(d) + Upto(mem, s, n) + 1, s, Length(s) + 1)
         /\ \/ Called("strncat", d, s, n, d, strncat(mem, d, s, n))
            \/ n = Length(s) /\ Called("strcat", d, s, n, d, strcat(mem, d, s))
    \/ s = 0 /\ Area(d, n) /\ \E c \in INTS : Called("memset", d, c, n, d, memset(mem, d, c, n))

Search(s1, s2, n) ==
    \/ Area(s1, n) /\ Area(s2, n) /\ Called("memcmp", s1, s2, n, memcmp(mem, s1, s2, n), mem)
    \/ IsString(s1) /\ IsString(s2)
         /\ Called("strncmp", s1, s2, n, strncmp(mem, s1, s2, n), mem)
    \/ s2 = 0 /\ Area(s1, n)
         /\ \E c \in INTS : Called("memchr", s1, c, n, memchr(mem, s1, c, n), mem)
    \/ n = 0 /\ s2 = 0 /\ IsString(s1)
         /\ \/ Called("strlen", s1, 0, 0, strlen(mem, s1), mem)
            \/ \E c \in INTS : \/ Called("strchr", s1, c, 0, strchr(mem, s1, c), mem)
                              \/ Called("strrchr", s1, c, 0, strrchr(mem, s1, c), mem)
    \/ n = 0 /\ IsString(s1) /\ IsString(s2)
         /\ \/ Called("strcmp", s1, s2, 0, strcmp(mem, s1, s2), mem)
            \/ Called("strspn", s1, s2, 0, strspn(mem, s1, s2), mem)
            \/ Called("strcspn", s1, s2, 0, strcspn(mem, s1, s2), mem)
            \/ Called("strpbrk", s1, s2, 0, strpbrk(mem, s1, s2), mem)
            \/ Called("strstr", s1, s2, 0, strstr(mem, s1, s2), mem)

\* strtok goes on with static_str, or starts with a string before the delimiters.
Token(str) ==
    LET t == strtok(mem, IF str = NULLP THEN static_str ELSE str, DELIM)
        begun == IF str = NULLP THEN tokens
                 ELSE [str |-> str, of |-> mem, found |-> <<>>]
    IN  /\ mem' = t.mem /\ static_str' = t.next
        /\ tokens' = [begun EXCEPT !.found = IF t.ret = NULLP THEN @ ELSE Append(@, t.ret)]
        /\ last' = [f |-> "strtok", ret |-> t.ret]

\* The caller goes on.
Again == last # Idle /\ last' = Idle /\ UNCHANGED <<mem, static_str, tokens>>

StrNext ==
    \/ /\ last = Idle
       /\ IF DOMAIN mem = Address
          THEN \E p, q \in Address, n \in 0..SIZE : Copy(p, q, n) \/ Search(p, q, n)
          ELSE \E str \in (0..(DELIM - 1)) \cup {NULLP} : Token(str)
    \/ Again

-----------------------------------------------------------------------------
(* Properties: the results, stated with sequences of bytes.                *)

\* Bytes stay bytes, and strtok's pointers stay inside the memory.
StrTypeOK ==
    /\ \A p \in DOMAIN mem : mem[p] \in 0..255
    /\ static_str \in DOMAIN mem \cup {NULLP}
    /\ tokens.found \in Seq(DOMAIN mem)

\* The n bytes at p, and the string at p without its final 0.
Bytes(m, p, n) == [i \in 1..n |-> m[p + i - 1]]
Text(m, p) ==
    LET end == CHOOSE q \in p..Max(DOMAIN m) : m[q] = 0 /\ \A r \in p..(q - 1) : m[r] # 0
    IN  Bytes(m, p, end - p)
Clip(seq, n) == SubSeq(seq, 1, Min({n, Len(seq)}))
Ends(seq) == Append(seq, 0)
Zeros(n) == [i \in 1..n |-> 0]

\* What a copying function has to leave at its destination.
Copied(c) ==
    LET from == Text(c.before, c.s)
        to == Text(c.before, c.d)
    IN  CASE c.f \in {"memcpy", "memmove"} -> Bytes(c.before, c.s, c.n)
          [] c.f = "memset" -> [i \in 1..c.n |-> c.s % 256]
          [] c.f = "strcpy" -> Ends(from)
          [] c.f = "strncpy" -> Clip(from, c.n) \o Zeros(c.n - Len(Clip(from, c.n)))
          [] c.f = "strcat" -> Ends(to \o from)
          [] c.f = "strncat" -> Ends(to \o Clip(from, c.n))
          [] c.f = "strxfrm" -> IF c.n = 0 THEN <<>> ELSE Ends(Clip(from, c.n - 1))

\* memmove through overlapping areas in both directions, and the others, leave
\* exactly the bytes of the source, cut and ended as they should be, and touch
\* no byte around them.
Copying == {"memcpy", "memmove", "memset", "strcpy", "strncpy", "strcat", "strncat", "strxfrm"}
CopiesExact ==
    last.f \in Copying =>
        LET new == Copied(last)
        IN  /\ \A p \in Address : mem[p] = IF p >= last.d /\ p < last.d + Len(new)
                                         THEN new[p - last.d + 1] ELSE last.before[p]
            /\ last.ret = IF last.f = "strxfrm" THEN Len(Text(last.before, last.s)) ELSE last.d

\* Whether a sequence comes before another in a dictionary of unsigned bytes.
Precedes(a, b) ==
    \E i \in 1..Len(b) : /\ i <= Len(a) + 1 /\ \A j \in 1..(i - 1) : a[j] = b[j]
                         /\ i = Len(a) + 1 \/ a[i] < b[i]
Orders(ret, a, b) == (ret < 0) = Precedes(a, b) /\ (ret > 0) = Precedes(b, a)

\* A search returns the smallest (or largest) of the places, as a pointer.
FirstOf(ret, p, places) == ret = IF places = {} THEN NULLP ELSE p + Min(places) - 1
LastOf(ret, p, places) == ret = IF places = {} THEN NULLP ELSE p + Max(places) - 1
Places(seq, set) == {i \in DOMAIN seq : seq[i] \in set}

\* Comparisons order unsigned bytes, whatever the sign of char, and stop at the
\* first difference, the end of a string or the limit; searches return the first
\* (or last) match, also for the final 0 and for characters passed as negative
\* ints; strstr and the spans agree with what substrings and sets mean.
SearchesExact ==
    last.f \notin Copying \cup {"none", "strtok"} =>
        LET s == IF last.f \in {"memcmp", "memchr"} THEN <<>> ELSE Text(mem, last.d)
            t == IF last.f \in {"memcmp", "memchr", "strlen", "strchr", "strrchr"} THEN <<>>
                 ELSE Text(mem, last.s)
            outside == {i \in 1..(Len(s) + 1) : i = Len(s) + 1 \/ s[i] \notin ToSet(t)}
            inside == {i \in 1..(Len(s) + 1) : i = Len(s) + 1 \/ s[i] \in ToSet(t)}
        IN  CASE last.f = "strlen" -> last.ret = Len(s)
              [] last.f = "strcmp" -> Orders(last.ret, s, t)
              [] last.f = "strncmp" -> Orders(last.ret, Clip(s, last.n), Clip(t, last.n))
              [] last.f = "memcmp" -> Orders(last.ret, Bytes(mem, last.d, last.n),
                                             Bytes(mem, last.s, last.n))
              [] last.f = "memchr" -> FirstOf(last.ret, last.d,
                      Places(Bytes(mem, last.d, last.n), {last.s % 256}))
              [] last.f = "strchr" -> FirstOf(last.ret, last.d, Places(Ends(s), {last.s % 256}))
              [] last.f = "strrchr" -> LastOf(last.ret, last.d, Places(Ends(s), {last.s % 256}))
              [] last.f = "strspn" -> last.ret = Min(outside) - 1
              [] last.f = "strcspn" -> last.ret = Min(inside) - 1
              [] last.f = "strpbrk" -> FirstOf(last.ret, last.d, Places(s, ToSet(t)))
              [] last.f = "strstr" -> FirstOf(last.ret, last.d,
                      {i \in 1..(Len(s) + 1) : IsPrefix(t, SubSeq(s, i, Len(s)))})

\* Every function of string.c that keeps no state returns, and leaves in memory,
\* exactly what its description says, for every content, place and overlap.
StringsExact == CopiesExact /\ SearchesExact

\* The calls of strtok since it got a string return, in order, the maximal runs
\* of other characters between its delimiters, each ended by a 0 that no later
\* call disturbs; it returns NULL only when all of them were returned.
Run(t, i, j) ==
    LET d == ToSet(Text(mem, DELIM))
    IN  /\ \A k \in i..j : t[k] \notin d
        /\ (i = 1 \/ t[i - 1] \in d) /\ (j = Len(t) \/ t[j + 1] \in d)
TokensExact ==
    last.f = "strtok" /\ tokens.str # NULLP =>
        LET t == Text(tokens.of, tokens.str)
            runs == {r \in (DOMAIN t) \X (DOMAIN t) : r[1] <= r[2] /\ Run(t, r[1], r[2])}
        IN  /\ \A k \in DOMAIN tokens.found :
                  \E r \in runs :
                     /\ tokens.found[k] = tokens.str + r[1] - 1
                     /\ Cardinality({x \in runs : x[1] < r[1]}) = k - 1
                     /\ Text(mem, tokens.found[k]) = SubSeq(t, r[1], r[2])
            /\ last.ret = NULLP => Len(tokens.found) = Cardinality(runs)

=============================================================================
