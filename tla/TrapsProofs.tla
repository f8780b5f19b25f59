---------------------------- MODULE TrapsProofs -----------------------------
(***************************************************************************)
(* A handler reads what the trap saved, and a trap is left as it was       *)
(* entered, whatever the calls, arguments, faults and nesting.             *)
(***************************************************************************)
EXTENDS Traps, SequenceTheorems, TLAPS

\* Time for the provers.
USE SMTT(20), ZenonT(20)

TAGS == REGISTERS \cup {"selector", "junk", "int_no", "err_code", "user"}
WORD == TAGS \X Int

\* Concatenation.
LEMMA Concat ==
    ASSUME NEW s \in Seq(WORD), NEW t \in Seq(WORD)
    PROVE  /\ s \o t \in Seq(WORD) /\ Len(s \o t) = Len(s) + Len(t)
           /\ \A i \in 1..Len(s) : (s \o t)[i] = s[i]
           /\ \A i \in 1..Len(t) : (s \o t)[Len(s) + i] = t[i]
  OBVIOUS

\* Two words, one below the other.
LEMMA PairConcat ==
    ASSUME NEW a \in WORD, NEW b \in WORD
    PROVE  <<a>> \o <<b>> = <<a, b>>
<1> DEFINE n == <<a>> \o <<b>>
<1>1. /\ <<a>> \in Seq(WORD) /\ <<b>> \in Seq(WORD) /\ Len(<<a>>) = 1 /\ Len(<<b>>) = 1
      /\ <<a>>[1] = a /\ <<b>>[1] = b
  OBVIOUS
<1>2. n \in Seq(WORD) /\ Len(n) = 2 /\ n[1] = a /\ n[2] = b
  BY <1>1, Concat
<1> HIDE DEF n
<1>3. n = <<a, b>>
  BY <1>2
<1> QED BY <1>3 DEF n

\* In ring 3 the CPU pushes the stack pointer of ring 3 first.
LEMMA RingNames ==
    <<"ss", "esp">> \o <<"eflags", "cs", "eip">> = <<"ss", "esp", "eflags", "cs", "eip">>
<1> DEFINE S == {"ss", "esp", "eflags", "cs", "eip"}
           p == <<"ss", "esp">>
           q == <<"eflags", "cs", "eip">>
           n == p \o q
<1>1. p \in Seq(S) /\ q \in Seq(S) /\ Len(p) = 2 /\ Len(q) = 3
  OBVIOUS
<1>2. p[1] = "ss" /\ p[2] = "esp" /\ q[1] = "eflags" /\ q[2] = "cs" /\ q[3] = "eip"
  OBVIOUS
<1> HIDE DEF S, p, q
<1>3. /\ n \in Seq(S) /\ Len(n) = Len(p) + Len(q)
      /\ \A i \in 1..(Len(p) + Len(q)) : n[i] = IF i <= Len(p) THEN p[i] ELSE q[i - Len(p)]
  BY <1>1, ConcatProperties, Zenon
<1> HIDE DEF n
<1>4. n = <<"ss", "esp", "eflags", "cs", "eip">>
  BY <1>1, <1>2, <1>3
<1> QED BY <1>4 DEF n, p, q

\* What the stubs push above the frame of the CPU.
LEMMA SavedNames ==
    GENERAL \o SEGMENTS = <<"eax", "ecx", "edx", "ebx", "esp", "ebp", "esi", "edi",
                            "ds", "es", "fs", "gs">>
<1> DEFINE n == GENERAL \o SEGMENTS
           S == {"eax", "ecx", "edx", "ebx", "esp", "ebp", "esi", "edi", "ds", "es", "fs", "gs"}
<1>1. GENERAL \in Seq(S) /\ SEGMENTS \in Seq(S) /\ Len(GENERAL) = 8 /\ Len(SEGMENTS) = 4
  BY DEF GENERAL, SEGMENTS
<1> HIDE DEF S
<1>2. /\ n \in Seq(S) /\ Len(n) = Len(GENERAL) + Len(SEGMENTS)
      /\ \A i \in 1..(Len(GENERAL) + Len(SEGMENTS)) :
            n[i] = IF i <= Len(GENERAL) THEN GENERAL[i] ELSE SEGMENTS[i - Len(GENERAL)]
  BY <1>1, ConcatProperties, Zenon
<1> HIDE DEF n
<1>3. /\ n[1] = "eax" /\ n[2] = "ecx" /\ n[3] = "edx" /\ n[4] = "ebx"
      /\ n[5] = "esp" /\ n[6] = "ebp" /\ n[7] = "esi" /\ n[8] = "edi"
      /\ n[9] = "ds" /\ n[10] = "es" /\ n[11] = "fs" /\ n[12] = "gs"
  BY <1>1, <1>2 DEF GENERAL, SEGMENTS
<1>4. n = <<"eax", "ecx", "edx", "ebx", "esp", "ebp", "esi", "edi", "ds", "es", "fs", "gs">>
  BY <1>1, <1>2, <1>3
<1> QED BY <1>4 DEF n

-----------------------------------------------------------------------------
(* The inductive invariant.                                                *)

\* Code that is in no handler: in ring 3 the TSS names a stack, in the kernel
\* the stack is the one it started with.
Running(c, a) ==
    /\ Ring3(c) => esp0 /\ a # "ring3"
    /\ ~Ring3(c) => c["esp"] = Depth(<<>>) /\ c["ss"] = KERNEL_DS
    /\ a = "ring3" => esp0

\* The words on the stack are those of the trap t.  Interrupts and system
\* calls, which are left again, come from code that is in no handler.
Holds(t) ==
    /\ Len(stack) >= 15
    /\ \A f \in {"gs", "fs", "es", "ds", "edi", "esi", "ebp", "ebx", "edx", "ecx"} :
          Regs(f) = t.cpu[f]
    /\ Regs("eax") = IF at = "leave" /\ t.vector = 128 THEN Word("eax", result)
                                                       ELSE t.cpu["eax"]
    /\ t.vector < 32 =>
          /\ at = "handler"
          /\ stack[13] = Word("int_no", t.vector) /\ stack[14] = Word("err_code", t.err)
          /\ stack[15] = t.cpu["eip"]
    /\ t.vector >= 32 =>
          /\ Tail(traps) = <<>> /\ t.stack = <<>>
          /\ t.at \in {"run", "int", "ring3"} /\ Running(t.cpu, t.at)
          /\ stack[13] = t.cpu["eip"] /\ stack[14] = t.cpu["cs"]
          /\ stack[15] = t.cpu["eflags"]
          /\ IF Ring3(t.cpu)
             THEN Len(stack) = 17 /\ stack[16] = t.cpu["esp"] /\ stack[17] = t.cpu["ss"]
             ELSE Len(stack) = 15

\* A function changed in one place.
LEMMA OneReplaced ==
    ASSUME NEW A, NEW T, NEW f \in [A -> T], NEW x, NEW w \in T
    PROVE  /\ [f EXCEPT ![x] = w] \in [A -> T]
           /\ \A a \in A : a # x => [f EXCEPT ![x] = w][a] = f[a]
  BY Zenon

TRAP == [vector : 0..31 \cup {32, 128}, err : {0, 1}, cpu : [REGISTERS -> WORD],
         stack : Seq(WORD), at : {"run", "int", "ring3", "handler"}]

TrapsInv ==
    /\ cpu \in [REGISTERS -> WORD] /\ stack \in Seq(WORD)
    /\ esp0 \in BOOLEAN /\ result \in Int
    /\ at \in {"run", "int", "ring3", "handler", "leave", "exited", "halted"}
    /\ traps \in Seq(TRAP)
    /\ Len(traps) <= MAX_TRAPS /\ Len(stack) <= Len(traps) * 19
    /\ at \in {"run", "int", "ring3"} => traps = <<>> /\ stack = <<>> /\ Running(cpu, at)
    /\ at \in {"handler", "leave"} =>
          /\ traps # <<>> /\ Holds(Head(traps))
          /\ ~Ring3(cpu) /\ cpu["ss"] = KERNEL_DS

-----------------------------------------------------------------------------
(* Words, registers and what is pushed.                                    *)

\* The registers, by name.
LEMMA Registers ==
    /\ ToSet(SEGMENTS) = {"ds", "es", "fs", "gs"}
    /\ REGISTERS = {"eip", "cs", "eflags", "ss", "ds", "es", "fs", "gs",
                    "eax", "ecx", "edx", "ebx", "esp", "ebp", "esi", "edi"}
<1>1. ToSet(SEGMENTS) = {"ds", "es", "fs", "gs"}
  BY DEF ToSet, SEGMENTS
<1>2. ToSet(GENERAL) = {"eax", "ecx", "edx", "ebx", "esp", "ebp", "esi", "edi"}
  BY DEF ToSet, GENERAL
<1> QED BY <1>1, <1>2 DEF REGISTERS

\* Where the fields of a registers_t are.
LEMMA Offsets ==
    /\ Offset("gs") = 1 /\ Offset("fs") = 2 /\ Offset("es") = 3 /\ Offset("ds") = 4
    /\ Offset("edi") = 5 /\ Offset("esi") = 6 /\ Offset("ebp") = 7 /\ Offset("ebx") = 9
    /\ Offset("edx") = 10 /\ Offset("ecx") = 11 /\ Offset("eax") = 12
    /\ Offset("int_no") = 13 /\ Offset("err_code") = 14 /\ Offset("eip") = 15
  BY DEF Offset, registers_t

\* The words of the model are words.
LEMMA Words ==
    /\ KERNEL_CS \in WORD /\ KERNEL_DS \in WORD /\ USER_CS \in WORD /\ USER_DS \in WORD
    /\ Junk \in WORD /\ Flags(TRUE) \in WORD /\ Flags(FALSE) \in WORD
    /\ KERNEL_CS # USER_CS
    /\ \A n \in Int : /\ Word("eax", n) \in WORD /\ Word("ebx", n) \in WORD
                      /\ Word("edx", n) \in WORD /\ Word("int_no", n) \in WORD
                      /\ Word("err_code", n) \in WORD /\ Word("esp", n) \in WORD
                      /\ Word("user", n) \in WORD
<1>1. \A n \in Int : /\ Word("eax", n) \in WORD /\ Word("ebx", n) \in WORD
                       /\ Word("edx", n) \in WORD /\ Word("int_no", n) \in WORD
                       /\ Word("err_code", n) \in WORD /\ Word("esp", n) \in WORD
                       /\ Word("user", n) \in WORD /\ Word("selector", n) \in WORD
                       /\ Word("junk", n) \in WORD /\ Word("eflags", n) \in WORD
  BY Registers DEF Word, WORD, TAGS
<1>2. KERNEL_CS # USER_CS
  <2>1. KERNEL_CS[2] = 8 /\ USER_CS[2] = 27
    BY DEF KERNEL_CS, USER_CS, Word
  <2> QED BY <2>1
<1> QED BY <1>1, <1>2 DEF KERNEL_CS, KERNEL_DS, USER_CS, USER_DS, Junk, Flags

\* The segments and general registers, top first.
LEMMA PushedAll ==
    ASSUME NEW c
    PROVE  Pushed(c, GENERAL \o SEGMENTS) =
             <<c["gs"], c["fs"], c["es"], c["ds"], c["edi"], c["esi"], c["ebp"], c["esp"],
               c["ebx"], c["edx"], c["ecx"], c["eax"]>>
  BY SavedNames DEF Pushed, Reverse

\* What the CPU pushes on its way through a gate, but for an error code.
CpuWords(c) == IF Ring3(c) THEN <<c["eip"], c["cs"], c["eflags"], c["esp"], c["ss"]>>
                           ELSE <<c["eip"], c["cs"], c["eflags"]>>

\* The frame of the CPU, and what the stubs of exceptions add to it.
ErrorWords(v, err) == IF v < 32 THEN <<Word("int_no", v), Word("err_code", err)>> ELSE <<>>

\* Whether or not the CPU pushes an error code, the frame has one place for it.
LEMMA OneFrame ==
    ASSUME cpu \in [REGISTERS -> WORD], NEW v \in 0..31 \cup {32, 128}, NEW err \in {0, 1},
           v < 32 => MayPush(v, err)
    PROVE  Number(v) \o Frame(v, err) = ErrorWords(v, err) \o CpuWords(cpu)
<1> DEFINE names == (IF Ring3(cpu) THEN <<"ss", "esp">> ELSE <<>>) \o <<"eflags", "cs", "eip">>
           num == Word("int_no", v)
           code == Word("err_code", err)
<1>1. num \in WORD /\ code \in WORD /\ Word("err_code", 0) \in WORD
  BY Words
<1>2. CpuWords(cpu) \in Seq(WORD)
  BY Registers DEF CpuWords
<1>3. Pushed(cpu, names) = CpuWords(cpu)
  <2>1. CASE Ring3(cpu)
    <3>1. names = <<"ss", "esp", "eflags", "cs", "eip">>
      BY <2>1, RingNames
    <3>2. Pushed(cpu, <<"ss", "esp", "eflags", "cs", "eip">>)
             = <<cpu["eip"], cpu["cs"], cpu["eflags"], cpu["esp"], cpu["ss"]>>
      BY DEF Pushed, Reverse
    <3> QED BY Zenon, <2>1, <3>1, <3>2 DEF CpuWords
  <2>2. CASE ~Ring3(cpu)
    <3>1. names = <<"eflags", "cs", "eip">>
      BY <2>2
    <3>2. Pushed(cpu, <<"eflags", "cs", "eip">>) = <<cpu["eip"], cpu["cs"], cpu["eflags"]>>
      BY DEF Pushed, Reverse
    <3> QED BY <2>2, <3>1, <3>2 DEF CpuWords
  <2> QED BY <2>1, <2>2
<1>4. Frame(v, err) = (IF HasError(v) THEN <<code>> ELSE <<>>) \o CpuWords(cpu)
  BY <1>3 DEF Frame
<1> HIDE DEF num, code
<1>5. Number(v) \o Frame(v, err) = ErrorWords(v, err) \o CpuWords(cpu)
  <2>1. CASE v >= 32
    <3>1. ~HasError(v) /\ Number(v) = <<>> /\ ErrorWords(v, err) = <<>>
      BY <2>1 DEF HasError, ERROR_CODES, Number, ErrorWords
    <3> QED BY <1>2, <1>4, <3>1
  <2>2. CASE v < 32 /\ HasError(v)
    <3>1. Number(v) = <<num>> \o <<>> /\ ErrorWords(v, err) = <<num, code>>
      BY <2>2 DEF Number, ErrorWords, num, code
    <3>2. <<num>> \in Seq(WORD) /\ <<code>> \in Seq(WORD) /\ <<num>> \o <<code>> = <<num, code>>
      BY <1>1, PairConcat
    <3>3. <<num>> \o (<<code>> \o CpuWords(cpu)) = (<<num>> \o <<code>>) \o CpuWords(cpu)
      BY <1>2, <3>2, ConcatAssociative
    <3>4. <<num>> \o <<>> = <<num>>
      BY <1>1
    <3> QED BY ZenonT(30), <1>4, <2>2, <3>1, <3>2, <3>3, <3>4
  <2>3. CASE v < 32 /\ ~HasError(v)
    <3>1. err = 0
      BY <2>3 DEF MayPush
    <3>2. Number(v) = <<num>> \o <<code>> /\ ErrorWords(v, err) = <<num, code>>
      BY <2>3, <3>1 DEF Number, ErrorWords, num, code
    <3>3. <<num>> \o <<code>> = <<num, code>>
      BY <1>1, PairConcat
    <3>4. Frame(v, err) = CpuWords(cpu)
      BY <1>2, <1>4, <2>3
    <3> QED BY <3>2, <3>3, <3>4, Zenon
  <2>4. v >= 32 \/ v < 32
    OBVIOUS
  <2> QED BY <2>1, <2>2, <2>3, <2>4, Zenon
<1> QED BY <1>5

-----------------------------------------------------------------------------
(* Entering.                                                               *)

\* A trap is taken from code that runs, or, a fault, from a handler.
MayEnter(v, err) ==
    /\ v \in 0..31 \cup {32, 128} /\ err \in {0, 1}
    /\ v < 32 => MayPush(v, err)
    /\ at \in {"run", "int", "ring3", "handler"}
    /\ v >= 32 => at \in {"run", "int", "ring3"}
    /\ Len(traps) < MAX_TRAPS

\* There is a stack, and the trap's words go on top of what is on it.
LEMMA StackFound ==
    ASSUME TrapsInv, NEW v, NEW err, MayEnter(v, err), Enter(v, err)
    PROVE  LET below == (ErrorWords(v, err) \o CpuWords(cpu)) \o stack
           IN  /\ stack' = Saved(below) \o below
               /\ cpu' = [r \in REGISTERS |->
                         CASE r = "cs" -> KERNEL_CS
                           [] r \in ToSet(SEGMENTS) \cup {"ss"} -> KERNEL_DS
                           [] r = "eflags" -> Flags(FALSE)
                           [] r = "esp" -> Depth(stack')
                           [] r \in {"eax", "eip"} -> Junk
                           [] OTHER -> cpu[r]]
               /\ traps' = <<[vector |-> v, err |-> err, cpu |-> cpu,
                              stack |-> stack, at |-> at]>> \o traps
               /\ at' = "handler"
<1>1. ~(Ring3(cpu) /\ ~esp0) /\ (Ring3(cpu) => stack = <<>>)
  BY DEF TrapsInv, Running, MayEnter
<1>2. (IF Ring3(cpu) THEN <<>> ELSE stack) = stack
  BY <1>1
<1>3. Number(v) \o Frame(v, err) = ErrorWords(v, err) \o CpuWords(cpu)
  BY ZenonT(30), OneFrame DEF TrapsInv, MayEnter
<1> QED BY Zenon, <1>1, <1>2, <1>3 DEF Enter

\* The words that a trap puts on the stack, by their places.
LEMMA StackWords ==
    ASSUME TrapsInv, NEW v, NEW err, MayEnter(v, err), Enter(v, err)
    PROVE  /\ stack' \in Seq(WORD)
           /\ Len(stack') = 12 + (IF v < 32 THEN 2 ELSE 0) + (IF Ring3(cpu) THEN 5 ELSE 3) + Len(stack)
           /\ stack'[1] = cpu["gs"] /\ stack'[2] = cpu["fs"] /\ stack'[3] = cpu["es"]
           /\ stack'[4] = cpu["ds"] /\ stack'[5] = cpu["edi"] /\ stack'[6] = cpu["esi"]
           /\ stack'[7] = cpu["ebp"] /\ stack'[9] = cpu["ebx"] /\ stack'[10] = cpu["edx"]
           /\ stack'[11] = cpu["ecx"] /\ stack'[12] = cpu["eax"]
           /\ v < 32 => /\ stack'[13] = Word("int_no", v) /\ stack'[14] = Word("err_code", err)
                        /\ stack'[15] = cpu["eip"]
           /\ v >= 32 => /\ stack'[13] = cpu["eip"] /\ stack'[14] = cpu["cs"]
                         /\ stack'[15] = cpu["eflags"]
                         /\ Ring3(cpu) => stack'[16] = cpu["esp"] /\ stack'[17] = cpu["ss"]
<1> DEFINE E == ErrorWords(v, err)
           C == CpuWords(cpu)
           B == (E \o C) \o stack
           c == [cpu EXCEPT !["esp"] = Depth(B)]
           S == <<c["gs"], c["fs"], c["es"], c["ds"], c["edi"], c["esi"], c["ebp"], c["esp"],
                  c["ebx"], c["edx"], c["ecx"], c["eax"]>>
<1>1. /\ cpu \in [REGISTERS -> WORD] /\ stack \in Seq(WORD)
      /\ v \in 0..31 \cup {32, 128} /\ err \in {0, 1}
      /\ v < 32 => MayPush(v, err)
  <2>1. cpu \in [REGISTERS -> WORD] /\ stack \in Seq(WORD)
    BY DEF TrapsInv
  <2>2. v \in 0..31 \cup {32, 128} /\ err \in {0, 1} /\ (v < 32 => MayPush(v, err))
    BY DEF MayEnter
  <2> QED BY <2>1, <2>2, Zenon
<1>2. E \in Seq(WORD) /\ C \in Seq(WORD)
  <2>1. CpuWords(cpu) \in Seq(WORD)
    BY <1>1, Registers DEF CpuWords
  <2>2. v \in Int /\ err \in Int
    BY <1>1
  <2>3. Word("int_no", v) \in WORD /\ Word("err_code", err) \in WORD
    BY <2>2, Words
  <2>4. ErrorWords(v, err) \in Seq(WORD)
    BY <2>3 DEF ErrorWords
  <2> QED BY <2>1, <2>4
<1>3. stack' = S \o B
  <2>1. stack' = Saved(B) \o B
    BY Zenon, StackFound
  <2>2. Saved(B) = S
    BY Zenon, PushedAll DEF Saved
  <2> QED BY <2>1, <2>2
<1>4. /\ v < 32 => Len(E) = 2 /\ E[1] = Word("int_no", v) /\ E[2] = Word("err_code", err)
      /\ v >= 32 => Len(E) = 0
  BY <1>1 DEF ErrorWords
<1>5. /\ C[1] = cpu["eip"] /\ C[2] = cpu["cs"] /\ C[3] = cpu["eflags"]
      /\ Ring3(cpu) => Len(C) = 5 /\ C[4] = cpu["esp"] /\ C[5] = cpu["ss"]
      /\ ~Ring3(cpu) => Len(C) = 3
  BY DEF CpuWords
<1> HIDE DEF E, C
<1>6. /\ B \in Seq(WORD) /\ Len(B) = Len(E) + Len(C) + Len(stack)
      /\ \A i \in 1..Len(E) : B[i] = E[i]
      /\ \A i \in 1..Len(C) : B[Len(E) + i] = C[i]
  <2>1. /\ E \o C \in Seq(WORD) /\ Len(E \o C) = Len(E) + Len(C)
        /\ \A i \in 1..Len(E) : (E \o C)[i] = E[i]
        /\ \A i \in 1..Len(C) : (E \o C)[Len(E) + i] = C[i]
    BY <1>2, Concat
  <2> DEFINE D == E \o C
  <2> HIDE DEF D
  <2>2. /\ D \o stack \in Seq(WORD) /\ Len(D \o stack) = Len(D) + Len(stack)
        /\ \A i \in 1..Len(D) : (D \o stack)[i] = D[i]
    BY <1>1, <2>1, Concat DEF D
  <2>3. Len(E) \in Nat /\ Len(C) \in Nat /\ Len(stack) \in Nat
    BY <1>1, <1>2
  <2> QED BY <2>1, <2>2, <2>3 DEF D
<1> HIDE DEF B
<1>7. Depth(B) \in WORD
  BY <1>6, Words DEF Depth
<1>8. c \in [REGISTERS -> WORD] /\ \A r \in REGISTERS : r # "esp" => c[r] = cpu[r]
  BY ZenonT(30), <1>1, <1>7, OneReplaced
<1> HIDE DEF c
<1>9. /\ S \in Seq(WORD) /\ Len(S) = 12
      /\ S[1] = c["gs"] /\ S[2] = c["fs"] /\ S[3] = c["es"] /\ S[4] = c["ds"]
      /\ S[5] = c["edi"] /\ S[6] = c["esi"] /\ S[7] = c["ebp"] /\ S[9] = c["ebx"]
      /\ S[10] = c["edx"] /\ S[11] = c["ecx"] /\ S[12] = c["eax"]
  BY <1>8, Registers
<1> HIDE DEF S
<1>10. /\ stack' \in Seq(WORD) /\ Len(stack') = Len(S) + Len(B)
       /\ \A i \in 1..Len(S) : stack'[i] = S[i]
       /\ \A i \in 1..Len(B) : stack'[Len(S) + i] = B[i]
  BY ZenonT(30), <1>3, <1>6, <1>9, Concat
<1>11. /\ stack'[1] = c["gs"] /\ stack'[2] = c["fs"] /\ stack'[3] = c["es"]
       /\ stack'[4] = c["ds"] /\ stack'[5] = c["edi"] /\ stack'[6] = c["esi"]
       /\ stack'[7] = c["ebp"] /\ stack'[9] = c["ebx"] /\ stack'[10] = c["edx"]
       /\ stack'[11] = c["ecx"] /\ stack'[12] = c["eax"]
  BY <1>9, <1>10
<1>12. /\ stack'[1] = cpu["gs"] /\ stack'[2] = cpu["fs"] /\ stack'[3] = cpu["es"]
       /\ stack'[4] = cpu["ds"] /\ stack'[5] = cpu["edi"] /\ stack'[6] = cpu["esi"]
       /\ stack'[7] = cpu["ebp"] /\ stack'[9] = cpu["ebx"] /\ stack'[10] = cpu["edx"]
       /\ stack'[11] = cpu["ecx"] /\ stack'[12] = cpu["eax"]
  BY <1>8, <1>11, Registers
<1>13. Len(E) \in Nat /\ Len(C) \in Nat /\ Len(stack) \in Nat /\ Len(C) >= 3
  BY <1>1, <1>2, <1>5
<1>14. \A i \in 1..Len(E) : stack'[12 + i] = E[i]
  BY <1>6, <1>9, <1>10, <1>13
<1>15. \A i \in 1..Len(C) : stack'[12 + Len(E) + i] = C[i]
  <2> SUFFICES ASSUME NEW i \in 1..Len(C) PROVE stack'[12 + Len(E) + i] = C[i]
    OBVIOUS
  <2>1. Len(E) + i \in 1..Len(B) /\ 12 + (Len(E) + i) = 12 + Len(E) + i
    BY <1>6, <1>13
  <2>2. stack'[12 + (Len(E) + i)] = B[Len(E) + i]
    BY Zenon, <1>9, <1>10, <2>1
  <2>3. B[Len(E) + i] = C[i]
    BY Zenon, <1>6
  <2> QED BY ONLY <2>1, <2>2, <2>3
<1>16. v < 32 => /\ stack'[13] = Word("int_no", v) /\ stack'[14] = Word("err_code", err)
                 /\ stack'[15] = cpu["eip"]
  <2> SUFFICES ASSUME v < 32
               PROVE  /\ stack'[13] = Word("int_no", v) /\ stack'[14] = Word("err_code", err)
                      /\ stack'[15] = cpu["eip"]
    OBVIOUS
  <2>1. Len(E) = 2 /\ E[1] = Word("int_no", v) /\ E[2] = Word("err_code", err)
    BY <1>4
  <2>2. stack'[12 + 1] = E[1] /\ stack'[12 + 2] = E[2] /\ stack'[12 + Len(E) + 1] = C[1]
    BY <1>13, <1>14, <1>15, <2>1
  <2> QED BY <1>5, <2>1, <2>2
<1>17. v >= 32 => /\ stack'[13] = cpu["eip"] /\ stack'[14] = cpu["cs"]
                  /\ stack'[15] = cpu["eflags"]
                  /\ Ring3(cpu) => stack'[16] = cpu["esp"] /\ stack'[17] = cpu["ss"]
  <2> SUFFICES ASSUME v >= 32
               PROVE  /\ stack'[13] = cpu["eip"] /\ stack'[14] = cpu["cs"]
                      /\ stack'[15] = cpu["eflags"]
                      /\ Ring3(cpu) => stack'[16] = cpu["esp"] /\ stack'[17] = cpu["ss"]
    OBVIOUS
  <2>1. \A i \in 1..Len(C) : stack'[12 + i] = C[i]
    BY <1>4, <1>13, <1>15
  <2> QED BY <1>5, <1>13, <2>1
<1>18. Len(stack') = 12 + (IF v < 32 THEN 2 ELSE 0) + (IF Ring3(cpu) THEN 5 ELSE 3) + Len(stack)
  <2>1. Len(stack') = 12 + (Len(E) + Len(C) + Len(stack))
    BY <1>6, <1>9, <1>10
  <2>2. Len(E) = IF v < 32 THEN 2 ELSE 0
    BY <1>1, <1>4
  <2>3. Len(C) = IF Ring3(cpu) THEN 5 ELSE 3
    BY <1>5
  <2> QED BY <1>13, <2>1, <2>2, <2>3
<1> QED BY <1>10, <1>12, <1>16, <1>17, <1>18

\* The fields that a handler reads are at the places of the words.
LEMMA RegsAt ==
    /\ Regs("gs") = stack[1] /\ Regs("fs") = stack[2] /\ Regs("es") = stack[3]
    /\ Regs("ds") = stack[4] /\ Regs("edi") = stack[5] /\ Regs("esi") = stack[6]
    /\ Regs("ebp") = stack[7] /\ Regs("ebx") = stack[9] /\ Regs("edx") = stack[10]
    /\ Regs("ecx") = stack[11] /\ Regs("eax") = stack[12]
    /\ Regs("int_no") = stack[13] /\ Regs("err_code") = stack[14] /\ Regs("eip") = stack[15]
  BY Offsets DEF Regs

\* A trap that is taken keeps the invariant.
LEMMA EnterStep ==
    ASSUME TrapsInv, NEW v, NEW err, MayEnter(v, err), Enter(v, err)
    PROVE  TrapsInv'
<1>0. PICK t : t = [vector |-> v, err |-> err, cpu |-> cpu, stack |-> stack, at |-> at]
  BY Zenon
<1>1. /\ cpu \in [REGISTERS -> WORD] /\ stack \in Seq(WORD) /\ traps \in Seq(TRAP)
      /\ esp0 \in BOOLEAN /\ result \in Int
      /\ Len(traps) <= MAX_TRAPS /\ Len(stack) <= Len(traps) * 19
  BY DEF TrapsInv
<1>2. /\ v \in 0..31 \cup {32, 128} /\ err \in {0, 1} /\ at \in {"run", "int", "ring3", "handler"}
      /\ v >= 32 => at \in {"run", "int", "ring3"}
      /\ Len(traps) < MAX_TRAPS
  BY DEF MayEnter
<1>3. esp0' = esp0 /\ result' = result
  BY DEF Enter
<1>4. at' = "handler" /\ traps' = <<t>> \o traps
  BY Zenon, <1>0, StackFound
<1>5. cpu' = [r \in REGISTERS |->
                 CASE r = "cs" -> KERNEL_CS
                   [] r \in ToSet(SEGMENTS) \cup {"ss"} -> KERNEL_DS
                   [] r = "eflags" -> Flags(FALSE)
                   [] r = "esp" -> Depth(stack')
                   [] r \in {"eax", "eip"} -> Junk
                   [] OTHER -> cpu[r]]
  BY Zenon, StackFound
<1>6. stack' \in Seq(WORD)
  BY StackWords
<1>7. Len(stack') = 12 + (IF v < 32 THEN 2 ELSE 0) + (IF Ring3(cpu) THEN 5 ELSE 3) + Len(stack)
  BY StackWords
<1>8. Len(stack') <= Len(stack) + 19 /\ Len(stack') >= 15 /\ Len(stack) \in Nat
  BY <1>1, <1>7
<1>9. cpu' \in [REGISTERS -> WORD] /\ cpu'["cs"] = KERNEL_CS /\ cpu'["ss"] = KERNEL_DS
  <2>1. Depth(stack') \in WORD
    BY <1>6, Words DEF Depth
  <2>2. \A r \in REGISTERS : cpu'[r] \in WORD
    BY ZenonT(30), <1>1, <1>5, <2>1, Words
  <2>3. cpu'["cs"] = KERNEL_CS /\ cpu'["ss"] = KERNEL_DS
    BY <1>5, Registers
  <2> QED BY Zenon, <1>5, <2>2, <2>3
<1>10. t \in TRAP
  BY <1>0, <1>1, <1>2 DEF TRAP
<1>11. /\ traps' \in Seq(TRAP) /\ Len(traps') = Len(traps) + 1
       /\ traps' # <<>> /\ Head(traps') = t /\ Tail(traps') = traps
  BY <1>1, <1>4, <1>10
<1>12. Len(traps') <= MAX_TRAPS /\ Len(stack') <= Len(traps') * 19
  BY <1>1, <1>2, <1>8, <1>11, TrapsAssumption
<1>13. Holds(t)'
  <2>1. /\ t.vector = v /\ t.err = err /\ t.cpu = cpu /\ t.stack = stack /\ t.at = at
    BY <1>0
  <2>2. v >= 32 => traps = <<>> /\ stack = <<>> /\ Running(cpu, at)
    BY <1>2 DEF TrapsInv
  <2>3. \A f \in {"gs", "fs", "es", "ds", "edi", "esi", "ebp", "ebx", "edx", "ecx", "eax"} :
            Regs(f)' = cpu[f]
    <3>1. /\ Regs("gs")' = stack'[1] /\ Regs("fs")' = stack'[2] /\ Regs("es")' = stack'[3]
          /\ Regs("ds")' = stack'[4] /\ Regs("edi")' = stack'[5] /\ Regs("esi")' = stack'[6]
          /\ Regs("ebp")' = stack'[7] /\ Regs("ebx")' = stack'[9] /\ Regs("edx")' = stack'[10]
          /\ Regs("ecx")' = stack'[11] /\ Regs("eax")' = stack'[12]
      BY Offsets DEF Regs
    <3>2. /\ stack'[1] = cpu["gs"] /\ stack'[2] = cpu["fs"] /\ stack'[3] = cpu["es"]
          /\ stack'[4] = cpu["ds"] /\ stack'[5] = cpu["edi"] /\ stack'[6] = cpu["esi"]
          /\ stack'[7] = cpu["ebp"] /\ stack'[9] = cpu["ebx"] /\ stack'[10] = cpu["edx"]
          /\ stack'[11] = cpu["ecx"] /\ stack'[12] = cpu["eax"]
      BY StackWords
    <3> QED BY <3>1, <3>2
  <2>4. v < 32 => /\ stack'[13] = Word("int_no", v) /\ stack'[14] = Word("err_code", err)
                  /\ stack'[15] = cpu["eip"]
    BY StackWords
  <2>5. v >= 32 => /\ stack'[13] = cpu["eip"] /\ stack'[14] = cpu["cs"]
                   /\ stack'[15] = cpu["eflags"]
                   /\ Ring3(cpu) => stack'[16] = cpu["esp"] /\ stack'[17] = cpu["ss"]
    BY StackWords
  <2>6. v >= 32 => Len(stack') = IF Ring3(cpu) THEN 17 ELSE 15
    BY <1>2, <1>7, <2>2
  <2>7. v >= 32 => /\ Tail(traps') = <<>> /\ stack = <<>>
                   /\ at \in {"run", "int", "ring3"} /\ Running(cpu, at)
    BY <1>2, <1>11, <2>2
  <2>8. Running(t.cpu, t.at)' <=> Running(cpu, at)
    BY <1>3, <2>1 DEF Running
  <2> QED BY <1>4, <1>8, <1>11, <2>1, <2>3, <2>4, <2>5, <2>6, <2>7, <2>8 DEF Holds
<1>14. ~Ring3(cpu')
  BY <1>9, Words DEF Ring3
<1> QED BY <1>1, <1>3, <1>4, <1>6, <1>9, <1>11, <1>12, <1>13, <1>14 DEF TrapsInv

-----------------------------------------------------------------------------
(* Leaving.                                                                *)

\* What is popped on the way back to ring 3, and where a register is in it.
RING_POPPED == <<"gs", "fs", "es", "ds", "edi", "esi", "ebp", "skipped", "ebx", "edx",
                 "ecx", "eax", "eip", "cs", "eflags", "esp", "ss">>
Place(names, r) == CHOOSE i \in DOMAIN names : names[i] = r

\* The two words of the stack in ring 3 are popped last.
LEMMA RingPopped == POPPED \o <<"esp", "ss">> = RING_POPPED
<1> DEFINE S == {"gs", "fs", "es", "ds", "edi", "esi", "ebp", "skipped", "ebx", "edx",
                 "ecx", "eax", "eip", "cs", "eflags", "esp", "ss"}
           q == <<"esp", "ss">>
           n == POPPED \o q
<1>1. POPPED \in Seq(S) /\ q \in Seq(S) /\ Len(POPPED) = 15 /\ Len(q) = 2
  BY DEF POPPED
<1>2. q[1] = "esp" /\ q[2] = "ss"
  OBVIOUS
<1> HIDE DEF S, q
<1>3. /\ n \in Seq(S) /\ Len(n) = Len(POPPED) + Len(q)
      /\ \A i \in 1..(Len(POPPED) + Len(q)) :
            n[i] = IF i <= Len(POPPED) THEN POPPED[i] ELSE q[i - Len(POPPED)]
  BY <1>1, ConcatProperties, Zenon
<1> HIDE DEF n
<1>4. /\ n[1] = "gs" /\ n[2] = "fs" /\ n[3] = "es" /\ n[4] = "ds" /\ n[5] = "edi"
      /\ n[6] = "esi" /\ n[7] = "ebp" /\ n[8] = "skipped" /\ n[9] = "ebx" /\ n[10] = "edx"
      /\ n[11] = "ecx" /\ n[12] = "eax" /\ n[13] = "eip" /\ n[14] = "cs" /\ n[15] = "eflags"
  BY <1>1, <1>3 DEF POPPED
<1>5. n[16] = "esp" /\ n[17] = "ss"
  BY <1>1, <1>2, <1>3
<1>6. n = RING_POPPED
  BY <1>1, <1>3, <1>4, <1>5 DEF RING_POPPED
<1> QED BY <1>6 DEF n, q

\* Where the registers are popped from.
LEMMA Places ==
    ASSUME NEW P \in {POPPED, RING_POPPED}
    PROVE  /\ Place(P, "gs") = 1 /\ Place(P, "fs") = 2 /\ Place(P, "es") = 3
           /\ Place(P, "ds") = 4 /\ Place(P, "edi") = 5 /\ Place(P, "esi") = 6
           /\ Place(P, "ebp") = 7 /\ Place(P, "ebx") = 9 /\ Place(P, "edx") = 10
           /\ Place(P, "ecx") = 11 /\ Place(P, "eax") = 12 /\ Place(P, "eip") = 13
           /\ Place(P, "cs") = 14 /\ Place(P, "eflags") = 15
           /\ \A r \in REGISTERS \ {"esp", "ss"} : Contains(P, r)
<1>1. CASE P = POPPED
  BY <1>1, Registers DEF POPPED, Place, Contains
<1>2. CASE P = RING_POPPED
  BY <1>2, Registers DEF RING_POPPED, Place, Contains
<1> QED BY <1>1, <1>2

\* The stack of ring 3 is popped on the way to ring 3 only.
LEMMA RingPlaces ==
    /\ Place(RING_POPPED, "esp") = 16 /\ Place(RING_POPPED, "ss") = 17
    /\ Contains(RING_POPPED, "esp") /\ Contains(RING_POPPED, "ss")
    /\ ~Contains(POPPED, "esp") /\ ~Contains(POPPED, "ss")
    /\ Len(POPPED) = 15 /\ Len(RING_POPPED) = 17
  BY DEF POPPED, RING_POPPED, Place, Contains

\* A trap is left with the registers and the stack it was taken with.
LEMMA LeaveExact ==
    ASSUME TrapsInv, Leave
    PROVE  LET t == Head(traps) IN
           /\ t \in TRAP /\ t.stack = <<>> /\ stack' = <<>>
           /\ t.at \in {"run", "int", "ring3"} /\ Running(t.cpu, t.at)
           /\ at' = t.at /\ traps' = <<>>
           /\ cpu' = IF t.vector = 128 THEN [t.cpu EXCEPT !["eax"] = Word("eax", result)]
                                       ELSE t.cpu
<1> DEFINE t == Head(traps)
           P == Popped
           c == IF t.vector = 128 THEN [t.cpu EXCEPT !["eax"] = Word("eax", result)] ELSE t.cpu
<1>1. /\ at = "leave" /\ at' = t.at /\ traps' = Tail(traps)
      /\ stack' = SubSeq(stack, Len(P) + 1, Len(stack))
      /\ cpu' = [r \in REGISTERS |->
                   IF Contains(P, r) THEN stack[Place(P, r)]
                   ELSE IF r = "esp" THEN Depth(stack') ELSE cpu[r]]
  BY DEF Leave, Place
<1>2. /\ stack \in Seq(WORD) /\ traps \in Seq(TRAP) /\ traps # <<>> /\ Holds(t)
      /\ cpu["ss"] = KERNEL_DS
  BY <1>1 DEF TrapsInv
<1>3. t \in TRAP
  BY <1>2
<1> HIDE DEF t
<1>4. t.vector \in 0..31 \cup {32, 128} /\ t.cpu \in [REGISTERS -> WORD]
  BY <1>3 DEF TRAP
<1>5. t.vector >= 32
  <2>1. t.vector < 32 => at = "handler"
    BY <1>2 DEF Holds
  <2>2. ~(t.vector < 32)
    BY <1>1, <2>1
  <2> QED BY <1>4, <2>2
<1>6. /\ Tail(traps) = <<>> /\ t.stack = <<>>
      /\ t.at \in {"run", "int", "ring3"} /\ Running(t.cpu, t.at)
      /\ stack[13] = t.cpu["eip"] /\ stack[14] = t.cpu["cs"] /\ stack[15] = t.cpu["eflags"]
  BY <1>2, <1>5 DEF Holds
<1>7. IF Ring3(t.cpu) THEN Len(stack) = 17 /\ stack[16] = t.cpu["esp"] /\ stack[17] = t.cpu["ss"]
                      ELSE Len(stack) = 15
  BY <1>2, <1>5 DEF Holds
<1>8. /\ stack[1] = c["gs"] /\ stack[2] = c["fs"] /\ stack[3] = c["es"] /\ stack[4] = c["ds"]
      /\ stack[5] = c["edi"] /\ stack[6] = c["esi"] /\ stack[7] = c["ebp"]
      /\ stack[9] = c["ebx"] /\ stack[10] = c["edx"] /\ stack[11] = c["ecx"]
      /\ stack[12] = c["eax"]
  <2>1. \A f \in {"gs", "fs", "es", "ds", "edi", "esi", "ebp", "ebx", "edx", "ecx"} :
            Regs(f) = t.cpu[f]
    BY <1>2 DEF Holds
  <2>2. Regs("eax") = IF t.vector = 128 THEN Word("eax", result) ELSE t.cpu["eax"]
    BY <1>1, <1>2 DEF Holds
  <2>3. \A f \in REGISTERS : f # "eax" => c[f] = t.cpu[f]
    BY <1>4
  <2>4. c["eax"] = IF t.vector = 128 THEN Word("eax", result) ELSE t.cpu["eax"]
    BY <1>4, Registers
  <2> HIDE DEF c
  <2>5. \A f \in {"gs", "fs", "es", "ds", "edi", "esi", "ebp", "ebx", "edx", "ecx"} :
            Regs(f) = c[f]
    BY <2>1, <2>3, Registers
  <2>6. Regs("eax") = c["eax"]
    BY <2>2, <2>4
  <2> QED BY <2>5, <2>6, RegsAt
<1>9. /\ stack[13] = c["eip"] /\ stack[14] = c["cs"] /\ stack[15] = c["eflags"]
      /\ c["esp"] = t.cpu["esp"] /\ c["ss"] = t.cpu["ss"]
      /\ DOMAIN c = REGISTERS
  BY <1>4, <1>6, Registers
<1>10. c = [r \in REGISTERS |-> c[r]]
  BY <1>4
<1> HIDE DEF c
<1>11. stack[Len(POPPED) - 1] = USER_CS <=> Ring3(t.cpu)
  BY <1>6 DEF POPPED, Ring3
<1>12. CASE Ring3(t.cpu)
  <2>1. P = RING_POPPED
    BY <1>11, <1>12, RingPopped DEF Popped
  <2> HIDE DEF P
  <2>2. stack' = <<>>
    <3>1. stack' = SubSeq(stack, 17 + 1, 17)
      BY Zenon, <1>1, <1>7, <1>12, <2>1, RingPlaces
    <3> QED BY <3>1, SubSeqEmpty
  <2>3. \A r \in REGISTERS : Contains(P, r)
    BY <2>1, Places, RingPlaces
  <2>4. \A r \in REGISTERS : stack[Place(P, r)] = c[r]
    <3>1. \A r \in REGISTERS \ {"esp", "ss"} : stack[Place(P, r)] = c[r]
      BY <1>8, <1>9, <2>1, Places, Registers
    <3>2. stack[Place(P, "esp")] = c["esp"] /\ stack[Place(P, "ss")] = c["ss"]
      BY <1>7, <1>9, <1>12, <2>1, RingPlaces
    <3> QED BY <3>1, <3>2
  <2>5. \A r \in REGISTERS : cpu'[r] = c[r]
    BY <1>1, <2>3, <2>4
  <2>6. cpu' = c
    BY <1>1, <1>10, <2>5
  <2> QED BY <1>1, <1>3, <1>6, <2>2, <2>6 DEF t, c
<1>13. CASE ~Ring3(t.cpu)
  <2>1. P = POPPED
    BY <1>11, <1>13 DEF Popped
  <2> HIDE DEF P
  <2>2. stack' = <<>>
    <3>1. stack' = SubSeq(stack, 15 + 1, 15)
      BY ZenonT(30), <1>1, <1>7, <1>13, <2>1, RingPlaces
    <3> QED BY <3>1, SubSeqEmpty
  <2>3. \A r \in REGISTERS : Contains(P, r) <=> r \notin {"esp", "ss"}
    BY <2>1, Places, RingPlaces
  <2>4. \A r \in REGISTERS \ {"esp", "ss"} : stack[Place(P, r)] = c[r]
    BY <1>8, <1>9, <2>1, Places, Registers
  <2>5. c["esp"] = Depth(stack') /\ c["ss"] = cpu["ss"]
    BY <1>2, <1>6, <1>9, <1>13, <2>2 DEF Running
  <2>6. \A r \in REGISTERS : cpu'[r] = c[r]
    BY <1>1, <2>3, <2>4, <2>5
  <2>7. cpu' = c
    BY <1>1, <1>10, <2>6
  <2> QED BY <1>1, <1>3, <1>6, <2>2, <2>7 DEF t, c
<1> QED BY <1>12, <1>13

\* Leaving keeps the invariant.
LEMMA LeaveStep == TrapsInv /\ Leave => TrapsInv'
<1> SUFFICES ASSUME TrapsInv, Leave PROVE TrapsInv'
  OBVIOUS
<1>1. PICK t : t = Head(traps)
  OBVIOUS
<1>2. /\ t \in TRAP /\ stack' = <<>>
      /\ t.at \in {"run", "int", "ring3"} /\ Running(t.cpu, t.at)
      /\ at' = t.at /\ traps' = <<>>
      /\ cpu' = IF t.vector = 128 THEN [t.cpu EXCEPT !["eax"] = Word("eax", result)]
                                  ELSE t.cpu
  BY <1>1, LeaveExact
<1>3. esp0' = esp0 /\ result' = result /\ esp0 \in BOOLEAN /\ result \in Int
  BY DEF Leave, TrapsInv
<1>4. t.cpu \in [REGISTERS -> WORD] /\ Word("eax", result) \in WORD
  BY <1>2, <1>3, Words DEF TRAP
<1>5. /\ cpu' \in [REGISTERS -> WORD]
      /\ cpu'["cs"] = t.cpu["cs"] /\ cpu'["esp"] = t.cpu["esp"] /\ cpu'["ss"] = t.cpu["ss"]
  BY <1>2, <1>4, Registers
<1>6. Running(cpu, at)'
  BY <1>2, <1>3, <1>5 DEF Running, Ring3
<1>7. Len(traps') <= MAX_TRAPS /\ Len(stack') <= Len(traps') * 19
  BY <1>2, TrapsAssumption
<1>8. stack' \in Seq(WORD) /\ traps' \in Seq(TRAP)
  BY <1>2
<1> QED BY <1>2, <1>3, <1>5, <1>6, <1>7, <1>8 DEF TrapsInv

-----------------------------------------------------------------------------
(* The other steps.                                                        *)

\* hal_init leaves a state of the invariant.
LEMMA InitTrapsInv == TrapsInit => TrapsInv
<1> SUFFICES ASSUME TrapsInit PROVE TrapsInv
  OBVIOUS
<1>1. /\ stack = <<>> /\ esp0 = FALSE /\ at = "run" /\ result = 0 /\ traps = <<>>
      /\ cpu = [r \in REGISTERS |->
                  CASE r = "cs" -> KERNEL_CS
                    [] r \in ToSet(SEGMENTS) \cup {"ss"} -> KERNEL_DS
                    [] r = "eflags" -> Flags(TRUE)
                    [] r = "esp" -> Depth(<<>>)
                    [] OTHER -> Word(r, 0)]
  BY DEF TrapsInit
<1>2. Depth(<<>>) \in WORD /\ \A r \in REGISTERS : Word(r, 0) \in WORD
  <2>1. Depth(<<>>) \in WORD
    BY Words DEF Depth
  <2>2. \A r \in REGISTERS : Word(r, 0) \in WORD
    BY DEF Word, WORD, TAGS
  <2> QED BY <2>1, <2>2
<1>3. \A r \in REGISTERS : cpu[r] \in WORD
  BY Zenon, <1>1, <1>2, Words
<1>4. cpu \in [REGISTERS -> WORD]
  BY Zenon, <1>1, <1>3
<1>5. cpu["cs"] = KERNEL_CS /\ cpu["ss"] = KERNEL_DS /\ cpu["esp"] = Depth(<<>>)
  BY <1>1, Registers
<1>6. Running(cpu, at)
  BY <1>1, <1>5, Words DEF Running, Ring3
<1>7. Len(traps) <= MAX_TRAPS /\ Len(stack) <= Len(traps) * 19
  BY <1>1, TrapsAssumption
<1>8. /\ stack = <<>> /\ stack \in Seq(WORD) /\ traps = <<>> /\ traps \in Seq(TRAP) /\ esp0 \in BOOLEAN
      /\ result \in Int /\ at = "run"
  <2>1. stack = <<>> /\ traps = <<>> /\ esp0 = FALSE /\ result = 0 /\ at = "run"
    BY <1>1
  <2>2. esp0 \in BOOLEAN
    BY <2>1, Zenon
  <2>3. stack \in Seq(WORD) /\ traps \in Seq(TRAP) /\ result \in Int
    BY <2>1
  <2> QED BY <2>1, <2>2, <2>3
<1> QED BY <1>4, <1>6, <1>7, <1>8 DEF TrapsInv

\* Loading the arguments of a system call.
LEMMA SystemCallStep ==
    ASSUME TrapsInv, NEW nr \in CALLS, NEW fd \in FDS, NEW count \in COUNTS,
           SystemCall(nr, fd, count)
    PROVE  TrapsInv'
<1>1. /\ at = "run" /\ at' = "int" /\ UNCHANGED <<stack, esp0, result, traps>>
      /\ cpu' = [cpu EXCEPT !["eax"] = Word("eax", nr), !["ebx"] = Word("ebx", fd),
                            !["edx"] = Word("edx", count)]
  BY DEF SystemCall
<1>2. Word("eax", nr) \in WORD /\ Word("ebx", fd) \in WORD /\ Word("edx", count) \in WORD
  BY TrapsAssumption, Words
<1>3. cpu \in [REGISTERS -> WORD] /\ Running(cpu, at) /\ traps = <<>> /\ stack = <<>>
  BY <1>1 DEF TrapsInv
<1>4. /\ cpu' \in [REGISTERS -> WORD]
      /\ cpu'["cs"] = cpu["cs"] /\ cpu'["esp"] = cpu["esp"] /\ cpu'["ss"] = cpu["ss"]
  BY <1>1, <1>2, <1>3, Registers
<1>5. Running(cpu, at)'
  BY <1>1, <1>3, <1>4 DEF Running, Ring3
<1> QED BY <1>1, <1>3, <1>4, <1>5 DEF TrapsInv

\* What a system call returns is a number.
LEMMA ResultsAreNumbers ==
    ASSUME NEW nr \in Int, NEW fd \in Int, NEW count \in Int
    PROVE  Results(nr, fd, count) \subseteq Int
  BY TrapsAssumption DEF Results, sys_write, EBADF, ENOSYS

\* What C code may leave in the registers.
LEMMA AfterCode ==
    ASSUME TrapsInv
    PROVE  /\ AfterC \in [REGISTERS -> WORD]
           /\ AfterC["cs"] = cpu["cs"] /\ AfterC["ss"] = cpu["ss"]
  BY Words, Registers DEF TrapsInv, AfterC, CALLER_SAVED

\* syscall_handler writes the slot of eax and nothing else.
LEMMA SyscallStep == TrapsInv /\ syscall_handler => TrapsInv'
<1> SUFFICES ASSUME TrapsInv, syscall_handler PROVE TrapsInv'
  OBVIOUS
<1>1. PICK t : t = Head(traps)
  OBVIOUS
<1>2. /\ at = "handler" /\ t.vector = 128 /\ at' = "leave"
      /\ result' \in Results(Arg("eax"), Arg("ebx"), Arg("edx"))
      /\ stack' = [stack EXCEPT ![12] = Word("eax", result')]
      /\ cpu' = AfterC /\ UNCHANGED <<esp0, traps>>
  BY ZenonT(30), <1>1, Offsets DEF syscall_handler, Vector
<1>3. /\ stack \in Seq(WORD) /\ Len(stack) >= 15 /\ Holds(t) /\ traps # <<>>
      /\ traps \in Seq(TRAP) /\ esp0 \in BOOLEAN
      /\ Len(traps) <= MAX_TRAPS /\ Len(stack) <= Len(traps) * 19
      /\ ~Ring3(cpu) /\ cpu["ss"] = KERNEL_DS
  BY Zenon, <1>1, <1>2 DEF TrapsInv, Holds
<1>4. result' \in Int
  <2>1. stack[9] \in WORD /\ stack[10] \in WORD /\ stack[12] \in WORD
    BY <1>3
  <2>2. Arg("eax") = stack[12][2] /\ Arg("ebx") = stack[9][2] /\ Arg("edx") = stack[10][2]
    BY RegsAt DEF Arg
  <2>3. Arg("eax") \in Int /\ Arg("ebx") \in Int /\ Arg("edx") \in Int
    BY <2>1, <2>2 DEF WORD
  <2> QED BY <1>2, <2>3, ResultsAreNumbers
<1>5. Word("eax", result') \in WORD
  BY <1>4, Words
<1>6. /\ stack' \in Seq(WORD) /\ Len(stack') = Len(stack) /\ stack'[12] = Word("eax", result')
      /\ \A i \in 1..Len(stack) : i # 12 => stack'[i] = stack[i]
  BY <1>2, <1>3, <1>5
<1>7. /\ cpu' \in [REGISTERS -> WORD] /\ cpu'["cs"] = cpu["cs"] /\ cpu'["ss"] = KERNEL_DS
  BY <1>2, <1>3, AfterCode
<1>8. Holds(t)'
  <2>1. /\ Regs("gs")' = stack'[1] /\ Regs("fs")' = stack'[2] /\ Regs("es")' = stack'[3]
        /\ Regs("ds")' = stack'[4] /\ Regs("edi")' = stack'[5] /\ Regs("esi")' = stack'[6]
        /\ Regs("ebp")' = stack'[7] /\ Regs("ebx")' = stack'[9] /\ Regs("edx")' = stack'[10]
        /\ Regs("ecx")' = stack'[11] /\ Regs("eax")' = stack'[12]
    BY Offsets DEF Regs
  <2>2. \A f \in {"gs", "fs", "es", "ds", "edi", "esi", "ebp", "ebx", "edx", "ecx"} :
            Regs(f)' = Regs(f)
    <3>1. \A i \in 1..11 : stack'[i] = stack[i]
      BY <1>3, <1>6
    <3> QED BY <2>1, <3>1, RegsAt
  <2>3. \A f \in {"gs", "fs", "es", "ds", "edi", "esi", "ebp", "ebx", "edx", "ecx"} :
            Regs(f)' = t.cpu[f]
    BY <1>3, <2>2 DEF Holds
  <2>4. /\ stack'[13] = stack[13] /\ stack'[14] = stack[14] /\ stack'[15] = stack[15]
        /\ Len(stack) = 17 => stack'[16] = stack[16] /\ stack'[17] = stack[17]
    BY <1>3, <1>6
  <2>5. Running(t.cpu, t.at)' <=> Running(t.cpu, t.at)
    BY <1>2 DEF Running
  <2>6. /\ Tail(traps) = <<>> /\ t.stack = <<>>
        /\ t.at \in {"run", "int", "ring3"} /\ Running(t.cpu, t.at)
        /\ stack[13] = t.cpu["eip"] /\ stack[14] = t.cpu["cs"] /\ stack[15] = t.cpu["eflags"]
        /\ IF Ring3(t.cpu)
           THEN Len(stack) = 17 /\ stack[16] = t.cpu["esp"] /\ stack[17] = t.cpu["ss"]
           ELSE Len(stack) = 15
    <3>1. t.vector >= 32
      BY <1>2
    <3> QED BY Zenon, <1>3, <3>1 DEF Holds
  <2>7. Regs("eax")' = Word("eax", result')
    BY <1>6, <2>1
  <2>8. /\ stack'[13] = t.cpu["eip"] /\ stack'[14] = t.cpu["cs"] /\ stack'[15] = t.cpu["eflags"]
        /\ IF Ring3(t.cpu)
           THEN Len(stack') = 17 /\ stack'[16] = t.cpu["esp"] /\ stack'[17] = t.cpu["ss"]
           ELSE Len(stack') = 15
    BY <1>6, <2>4, <2>6
  <2>9. Tail(traps') = <<>> /\ Len(stack') >= 15 /\ t.vector = 128 /\ at' = "leave"
    BY <1>2, <1>3, <1>6, <2>6
  <2>10. ~(t.vector < 32)
    BY <2>9
  <2> QED BY Zenon, <2>3, <2>5, <2>6, <2>7, <2>8, <2>9, <2>10 DEF Holds, Ring3
<1>9. /\ at' = "leave" /\ esp0' \in BOOLEAN /\ traps' \in Seq(TRAP) /\ traps' # <<>>
      /\ Head(traps') = t /\ Len(traps') <= MAX_TRAPS /\ Len(stack') <= Len(traps') * 19
      /\ ~Ring3(cpu')
  BY <1>1, <1>2, <1>3, <1>6, <1>7 DEF Ring3
<1> QED BY <1>4, <1>6, <1>7, <1>8, <1>9 DEF TrapsInv

\* The handler of the timer interrupt leaves the frame alone.
LEMMA TimerStep == TrapsInv /\ irq0_handler => TrapsInv'
<1> SUFFICES ASSUME TrapsInv, irq0_handler PROVE TrapsInv'
  OBVIOUS
<1>1. PICK t : t = Head(traps)
  OBVIOUS
<1>2. /\ at = "handler" /\ t.vector = 32 /\ at' = "leave"
      /\ cpu' = AfterC /\ UNCHANGED <<stack, esp0, result, traps>>
  BY <1>1 DEF irq0_handler, Vector
<1>3. Holds(t) /\ traps # <<>> /\ ~Ring3(cpu) /\ cpu["ss"] = KERNEL_DS
  BY <1>1, <1>2 DEF TrapsInv
<1>4. /\ cpu' \in [REGISTERS -> WORD] /\ cpu'["cs"] = cpu["cs"] /\ cpu'["ss"] = KERNEL_DS
  BY <1>2, <1>3, AfterCode
<1>5. Holds(t)'
  <2>1. Running(t.cpu, t.at)' <=> Running(t.cpu, t.at)
    BY <1>2 DEF Running
  <2>2. t.vector # 128 /\ ~(t.vector < 32)
    BY <1>2
  <2> QED BY Zenon, <1>2, <1>3, <2>1, <2>2 DEF Holds, Regs
<1> QED BY <1>1, <1>2, <1>3, <1>4, <1>5 DEF TrapsInv, Ring3

\* sys_exit and exception_handler end it.
LEMMA EndStep == TrapsInv /\ (sys_exit \/ exception_handler) => TrapsInv'
  BY DEF TrapsInv, sys_exit, exception_handler

\* cmd_ring3 names the stack, and enter_usermode leaves the kernel's.
LEMMA RingStep == TrapsInv /\ (tss_set_kernel_stack \/ enter_usermode) => TrapsInv'
<1> SUFFICES ASSUME TrapsInv, tss_set_kernel_stack \/ enter_usermode PROVE TrapsInv'
  OBVIOUS
<1>1. CASE tss_set_kernel_stack
  BY <1>1 DEF TrapsInv, tss_set_kernel_stack, Running
<1>2. CASE enter_usermode
  <2>1. /\ at = "ring3" /\ at' = "run" /\ stack' = <<>> /\ UNCHANGED <<esp0, result, traps>>
        /\ cpu' = [r \in REGISTERS |->
                     CASE r = "cs" -> USER_CS
                       [] r \in ToSet(SEGMENTS) \cup {"ss"} -> USER_DS
                       [] r = "eflags" -> Flags(FALSE)
                       [] r = "esp" -> Word("user", 0)
                       [] r = "eax" -> Junk
                       [] OTHER -> cpu[r]]
    BY <1>2 DEF enter_usermode
  <2>2. esp0 /\ traps = <<>> /\ cpu \in [REGISTERS -> WORD]
    BY <2>1 DEF TrapsInv, Running
  <2>3. \A r \in REGISTERS : cpu'[r] \in WORD
    <3>1. \A r \in REGISTERS :
             cpu'[r] \in {USER_CS, USER_DS, Flags(FALSE), Word("user", 0), Junk, cpu[r]}
      BY <2>1
    <3>2. /\ USER_CS \in WORD /\ USER_DS \in WORD /\ Flags(FALSE) \in WORD
          /\ Word("user", 0) \in WORD /\ Junk \in WORD
      <4>1. 0 \in Int
        OBVIOUS
      <4> QED BY <4>1, Words, Zenon
    <3>3. ASSUME NEW r \in REGISTERS PROVE cpu'[r] \in WORD
      <4>1. cpu[r] \in WORD
        BY <2>2
      <4>2. cpu'[r] \in {USER_CS, USER_DS, Flags(FALSE), Word("user", 0), Junk, cpu[r]}
        BY Zenon, <3>1
      <4> QED BY Zenon, <3>2, <4>1, <4>2
    <3> QED BY <3>3
  <2>4. cpu' \in [REGISTERS -> WORD] /\ cpu'["cs"] = USER_CS
    BY ZenonT(30), <2>1, <2>3, Registers
  <2>5. at' = "run" /\ stack' = <<>> /\ UNCHANGED <<esp0, result, traps>>
    BY <2>1
  <2>6. Running(cpu, at)'
    BY <2>2, <2>4, <2>5 DEF Running, Ring3
  <2>7. stack' \in Seq(WORD) /\ Len(stack') <= Len(traps') * 19
    BY <2>2, <2>5
  <2> QED BY <2>2, <2>4, <2>5, <2>6, <2>7 DEF TrapsInv
<1> QED BY <1>1, <1>2

-----------------------------------------------------------------------------
(* The theorems.                                                           *)

\* Every step keeps the invariant.
LEMMA TrapsInvStep == TrapsInv /\ [TrapsNext]_trapVars => TrapsInv'
<1> SUFFICES ASSUME TrapsInv, [TrapsNext]_trapVars PROVE TrapsInv'
  OBVIOUS
<1>1. ASSUME NEW nr \in CALLS, NEW fd \in FDS, NEW count \in COUNTS, SystemCall(nr, fd, count)
      PROVE  TrapsInv'
  BY <1>1, SystemCallStep
<1>2. at \in {"run", "int", "ring3"} => Len(traps) < MAX_TRAPS
  BY TrapsAssumption DEF TrapsInv
<1>3. CASE Int80
  <2>1. MayEnter(128, 0) /\ Enter(128, 0)
    BY <1>2, <1>3 DEF Int80, MayEnter
  <2> QED BY <2>1, EnterStep
<1>4. CASE irq0
  <2>1. MayEnter(32, 0) /\ Enter(32, 0)
    BY <1>2, <1>4 DEF irq0, MayEnter
  <2> QED BY <2>1, EnterStep
<1>5. ASSUME NEW v \in FAULTS, NEW err \in {0, 1}, Fault(v, err)
      PROVE  TrapsInv'
  <2>1. MayEnter(v, err) /\ Enter(v, err)
    BY <1>5, TrapsAssumption DEF Fault, MayEnter
  <2> QED BY <2>1, EnterStep
<1>6. CASE UNCHANGED trapVars
  BY ZenonT(30), <1>6 DEF TrapsInv, trapVars, Holds, Running, Regs
<1> QED BY <1>1, <1>3, <1>4, <1>5, <1>6, SyscallStep, TimerStep, EndStep, LeaveStep, RingStep
        DEF TrapsNext

\* The inductive invariant holds always.
LEMMA TrapsInvariant == TrapsSpec => []TrapsInv
<1>1. TrapsInit => TrapsInv
  BY InitTrapsInv
<1> QED BY <1>1, TrapsInvStep, PTL DEF TrapsSpec

\* A handler finds in its registers_t what the registers held when the trap
\* was taken, with or without an error code, from either ring and however
\* deep the faults of handlers nest; no trap is without a stack.
THEOREM FieldsReadAlways == TrapsSpec => []FieldsRead
<1>1. TrapsInv => FieldsRead
  <2> SUFFICES ASSUME TrapsInv PROVE FieldsRead
    OBVIOUS
  <2>1. Len(registers_t) = 17
    BY DEF registers_t
  <2>2. TrapsTypeOK
    BY <2>1 DEF TrapsInv, TrapsTypeOK
  <2>3. PICK t : t = Head(traps)
    OBVIOUS
  <2>4. at = "handler" => Holds(t)
    BY <2>3 DEF TrapsInv
  <2>5. at = "handler" /\ t.vector = 128 =>
            \A f \in {"eax", "ebx", "ecx", "edx", "esi", "edi"} : Regs(f) = t.cpu[f]
    BY <2>4 DEF Holds
  <2>6. at = "handler" /\ t.vector < 32 =>
            /\ Regs("int_no") = Word("int_no", t.vector)
            /\ Regs("err_code") = Word("err_code", t.err)
            /\ Regs("eip") = t.cpu["eip"]
    BY ZenonT(30), <2>4, RegsAt DEF Holds
  <2> QED BY <2>2, <2>3, <2>5, <2>6 DEF FieldsRead
<1> QED BY <1>1, TrapsInvariant, PTL

\* A trap is left with every register, the stack and the ring as they were
\* when it was taken, but for the result of a system call.
THEOREM ReturnExactAlways == TrapsSpec => ReturnExact
<1>1. TrapsInv /\ [TrapsNext]_trapVars =>
        [Leave => LET t == Head(traps) IN
                  /\ stack' = t.stack
                  /\ cpu' = IF t.vector = 128
                            THEN [t.cpu EXCEPT !["eax"] = Word("eax", result)]
                            ELSE t.cpu]_trapVars
  BY LeaveExact
<1> QED BY <1>1, TrapsInvariant, PTL DEF TrapsSpec, ReturnExact
=============================================================================
