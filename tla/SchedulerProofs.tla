-------------------------- MODULE SchedulerProofs --------------------------
(***************************************************************************)
(* The scheduler keeps its lists and its processes consistent, for any     *)
(* number of PCBs, priorities and pages: the inductive invariant, the      *)
(* steps of the code on the CPU (creation, fork, sleep, exit, the          *)
(* interrupt flag), the timer tick, and the theorems.                      *)
(***************************************************************************)
EXTENDS Scheduler, SequenceTheorems, WellFoundedInduction, TLAPS

\* Time for the provers.
USE SMTT(20), ZenonT(20)

-----------------------------------------------------------------------------
(* The list operations: which PCBs a list holds after an insertion, a      *)
(* removal or the walk of check_sleepers, and that none of them links a    *)
(* PCB twice.                                                              *)

\* The members of a list are the entries at its positions.
LEMMA Members ==
    ASSUME NEW X, NEW s \in Seq(X)
    PROVE  /\ DOMAIN s = 1..Len(s) /\ Len(s) \in Nat
           /\ \A i \in 1..Len(s) : s[i] \in Range(s) /\ s[i] \in X
           /\ \A x \in Range(s) : \E i \in 1..Len(s) : s[i] = x
           /\ Range(s) \subseteq X
BY LenProperties DEF Range

\* Adding at the tail, as enqueue_process does, adds exactly that PCB.
LEMMA AppendHolds ==
    ASSUME NEW X, NEW s \in Seq(X), NEW e \in X
    PROVE  /\ Append(s, e) \in Seq(X)
           /\ Range(Append(s, e)) = Range(s) \cup {e}
           /\ IsInjective(s) /\ e \notin Range(s) => IsInjective(Append(s, e))
<1> DEFINE t == Append(s, e)
<1>1. /\ t \in Seq(X)
      /\ Len(t) = Len(s) + 1 /\ Len(s) \in Nat
      /\ DOMAIN t = 1..(Len(s) + 1) /\ DOMAIN s = 1..Len(s)
      /\ t[Len(s) + 1] = e
      /\ \A i \in 1..Len(s) : t[i] = s[i]
  BY AppendProperties, LenProperties
<1> HIDE DEF t
<1>2. Range(t) = Range(s) \cup {e}
  BY <1>1 DEF Range
<1>3. ASSUME IsInjective(s), e \notin Range(s) PROVE IsInjective(t)
  BY <1>1, <1>3 DEF Range, IsInjective
<1> QED BY <1>1, <1>2, <1>3 DEF t

\* Adding at the head, as release_process and enqueue_sleep do.
LEMMA PushHolds ==
    ASSUME NEW X, NEW s \in Seq(X), NEW e \in X
    PROVE  /\ <<e>> \o s \in Seq(X)
           /\ Range(<<e>> \o s) = Range(s) \cup {e}
           /\ IsInjective(s) /\ e \notin Range(s) => IsInjective(<<e>> \o s)
<1> DEFINE t == <<e>> \o s
<1>1. /\ t \in Seq(X)
      /\ Len(t) = Len(s) + 1
      /\ t[1] = e
      /\ \A i \in 1..Len(s) : t[i+1] = s[i]
      /\ \A i \in 2..Len(t) : t[i] = s[i-1]
  OBVIOUS
<1> HIDE DEF t
<1>2. ASSUME NEW i \in 1..Len(t) PROVE t[i] \in Range(s) \cup {e}
  BY <1>1 DEF Range
<1>3. Range(s) \cup {e} \subseteq Range(t)
  <2>1. e \in Range(t)
    BY <1>1 DEF Range
  <2>2. ASSUME NEW x \in Range(s) PROVE x \in Range(t)
    <3>1. PICK i \in 1..Len(s) : s[i] = x
      BY DEF Range
    <3>2. t[i+1] = x /\ i+1 \in 1..Len(t)
      BY <1>1, <3>1
    <3> QED BY <1>1, <3>2 DEF Range
  <2> QED BY <2>1, <2>2
<1>4. ASSUME IsInjective(s), e \notin Range(s) PROVE IsInjective(t)
  BY <1>1, <1>4 DEF Range, IsInjective
<1>5. Range(t) \subseteq Range(s) \cup {e}
  BY <1>1, <1>2 DEF Range
<1> QED BY <1>1, <1>3, <1>4, <1>5 DEF t

\* Taking the head, as allocate_process and dequeue_process do, removes
\* exactly that PCB.
LEMMA PopHolds ==
    ASSUME NEW X, NEW s \in Seq(X), s # <<>>, IsInjective(s)
    PROVE  /\ Head(s) \in X
           /\ Head(s) \in Range(s)
           /\ Tail(s) \in Seq(X)
           /\ Range(Tail(s)) = Range(s) \ {Head(s)}
           /\ IsInjective(Tail(s))
<1>1. /\ Head(s) = s[1] /\ 1 \in 1..Len(s)
      /\ Tail(s) \in Seq(X)
      /\ Len(Tail(s)) = Len(s) - 1
      /\ \A i \in 1..(Len(s)-1) : Tail(s)[i] = s[i+1]
      /\ \A i \in 2..Len(s) : s[i] = Tail(s)[i-1]
  OBVIOUS
<1>2. Range(Tail(s)) \subseteq Range(s) \ {Head(s)}
  BY <1>1 DEF Range, IsInjective
<1>3. ASSUME NEW x \in Range(s), x # Head(s) PROVE x \in Range(Tail(s))
  <2>1. PICK i \in 1..Len(s) : s[i] = x
    BY DEF Range
  <2>2. i \in 2..Len(s) /\ i-1 \in 1..Len(Tail(s)) /\ Tail(s)[i-1] = x
    BY <1>1, <1>3, <2>1
  <2> QED BY Zenon, <1>1, <2>2, Members
<1>4. IsInjective(Tail(s))
  BY <1>1 DEF IsInjective
<1>5. Head(s) \in Range(s) /\ Head(s) \in X
  BY <1>1, Members
<1> QED BY <1>1, <1>2, <1>3, <1>4, <1>5

\* Appending one list to another, as check_sleepers does PCB by PCB.
LEMMA ConcatHolds ==
    ASSUME NEW X, NEW s \in Seq(X), NEW t \in Seq(X)
    PROVE  /\ s \o t \in Seq(X)
           /\ Range(s \o t) = Range(s) \cup Range(t)
           /\ IsInjective(s) /\ IsInjective(t) /\ Range(s) \cap Range(t) = {}
                => IsInjective(s \o t)
<1>1. s \o t \in Seq(X) /\ Range(s \o t) = Range(s) \cup Range(t)
  BY RangeConcatenation, ConcatProperties
<1>2. ASSUME IsInjective(s), IsInjective(t), Range(s) \cap Range(t) = {},
             NEW a \in 1..Len(s \o t), NEW b \in 1..Len(s \o t),
             (s \o t)[a] = (s \o t)[b]
      PROVE  a = b
  <2>1. /\ Len(s \o t) = Len(s) + Len(t) /\ Len(s) \in Nat /\ Len(t) \in Nat
        /\ \A i \in 1..(Len(s) + Len(t)) : (s \o t)[i] =
               IF i <= Len(s) THEN s[i] ELSE t[i - Len(s)]
    BY ConcatProperties
  <2>2. \A i \in 1..Len(s), j \in 1..Len(t) : s[i] # t[j]
    BY <1>2, Members
  <2>3. CASE a <= Len(s) /\ b <= Len(s)
    BY <1>2, <2>1, <2>3 DEF IsInjective
  <2>4. CASE a > Len(s) /\ b > Len(s)
    <3>1. a - Len(s) \in 1..Len(t) /\ b - Len(s) \in 1..Len(t)
      BY <2>1, <2>4
    <3>2. t[a - Len(s)] = t[b - Len(s)]
      BY <1>2, <2>1, <2>4
    <3>3. a - Len(s) = b - Len(s)
      BY <1>2, <3>1, <3>2 DEF IsInjective
    <3> QED BY <2>1, <3>3
  <2>5. CASE a <= Len(s) /\ b > Len(s)
    BY <1>2, <2>1, <2>2, <2>5
  <2>6. CASE a > Len(s) /\ b <= Len(s)
    BY <1>2, <2>1, <2>2, <2>6
  <2> QED BY <2>1, <2>3, <2>4, <2>5, <2>6
<1> QED BY <1>1, <1>2 DEF IsInjective

\* A nonempty set of naturals has a least element.
LEMMA LeastNatural ==
    ASSUME NEW T \in SUBSET Nat, T # {}
    PROVE  \E m \in T : \A n \in T : m <= n
<1> DEFINE R == OpToRel(<, Nat)
<1>1. \A x, y \in Nat : x < y => <<x, y>> \in R
  BY DEF OpToRel
<1>2. IsWellFoundedOn(R, Nat)
  BY Zenon, NatLessThanWellFounded
<1> HIDE DEF R
<1>3. PICK m \in T : \A n \in T : <<n, m>> \notin R
  BY Zenon, <1>2, WFMin
<1>4. \A n \in T : ~(n < m)
  BY Zenon, <1>1, <1>3
<1>5. \A n \in T : m <= n
  BY <1>4
<1> QED BY <1>5

\* Induction over the naturals, for a set instead of a predicate.
LEMMA SetInduction ==
    ASSUME NEW P, 0 \in P, \A n \in Nat : n \in P => n + 1 \in P
    PROVE  Nat \subseteq P
<1> SUFFICES ASSUME Nat \ P # {} PROVE FALSE
  OBVIOUS
<1>1. PICK m \in Nat \ P : \A n \in Nat \ P : m <= n
  BY Zenon, LeastNatural
<1>2. m # 0 /\ m - 1 \in Nat /\ m - 1 \in P
  BY <1>1
<1> QED BY <1>1, <1>2

\* The recursive function of Keep, up to position n.
KeptUpTo(s, S, n, f) ==
    f = [i \in 0..n |-> IF i = 0 THEN <<>>
                        ELSE IF s[i] \in S THEN Append(f[i-1], s[i])
                        ELSE f[i-1]]

\* It is well defined.
LEMMA KeptExists ==
    ASSUME NEW s, NEW S, NEW n \in Nat
    PROVE  \E f : KeptUpTo(s, S, n, f)
<1> DEFINE P == {m \in Nat : \E f : KeptUpTo(s, S, m, f)}
<1>1. 0 \in P
  <2>1. KeptUpTo(s, S, 0, [i \in 0..0 |-> <<>>])
    BY DEF KeptUpTo
  <2> QED BY <2>1
<1>2. ASSUME NEW m \in Nat, m \in P PROVE m + 1 \in P
  <2>1. PICK f : KeptUpTo(s, S, m, f)
    BY <1>2
  <2> DEFINE last == IF s[m+1] \in S THEN Append(f[m], s[m+1]) ELSE f[m]
             g == [i \in 0..(m+1) |-> IF i = m + 1 THEN last ELSE f[i]]
  <2>2. ASSUME NEW i \in 0..(m+1)
        PROVE  g[i] = IF i = 0 THEN <<>>
                      ELSE IF s[i] \in S THEN Append(g[i-1], s[i])
                      ELSE g[i-1]
    <3>1. CASE i = m + 1
      <4>1. g[i-1] = f[m] /\ g[i] = last
        BY <3>1
      <4> QED BY <3>1, <4>1
    <3>2. CASE i \in 0..m
      <4>1. f[i] = IF i = 0 THEN <<>>
                   ELSE IF s[i] \in S THEN Append(f[i-1], s[i])
                   ELSE f[i-1]
        BY Zenon, <2>1, <3>2 DEF KeptUpTo
      <4>2. g[i] = f[i] /\ (i # 0 => g[i-1] = f[i-1])
        BY <3>2
      <4> QED BY <4>1, <4>2
    <3> QED BY <3>1, <3>2
  <2>3. KeptUpTo(s, S, m+1, g)
    BY <2>2 DEF KeptUpTo
  <2> QED BY <2>3
<1> HIDE DEF P
<1>3. Nat \subseteq P
  BY <1>1, <1>2, SetInduction
<1> QED BY <1>3 DEF P

\* Keep obeys its recursive definition.
LEMMA KeepDefined ==
    ASSUME NEW X, NEW s \in Seq(X), NEW S
    PROVE  \E f : KeptUpTo(s, S, Len(s), f) /\ Keep(s, S) = f[Len(s)]
<1> DEFINE f == CHOOSE f : KeptUpTo(s, S, Len(s), f)
<1>1. KeptUpTo(s, S, Len(s), f)
  BY KeptExists, LenProperties
<1>2. Keep(s, S) = f[Len(s)]
  BY DEF Keep, KeptUpTo
<1> QED BY Zenon, <1>1, <1>2

\* What check_sleepers leaves on the sleep list and what it moves to a queue:
\* exactly the members it selects, none of them twice.
LEMMA KeepHolds ==
    ASSUME NEW X, NEW s \in Seq(X), NEW S
    PROVE  /\ Keep(s, S) \in Seq(X)
           /\ Range(Keep(s, S)) = Range(s) \cap S
           /\ IsInjective(s) => IsInjective(Keep(s, S))
<1>1. PICK f : KeptUpTo(s, S, Len(s), f) /\ Keep(s, S) = f[Len(s)]
  BY KeepDefined
<1> DEFINE Good(i) == /\ f[i] \in Seq(X)
                      /\ \A x : x \in Range(f[i]) <=>
                                   x \in S /\ \E j \in 1..i : s[j] = x
                      /\ IsInjective(s) => IsInjective(f[i])
           P == {i \in Nat : i <= Len(s) => Good(i)}
<1>2. Len(s) \in Nat /\ DOMAIN s = 1..Len(s)
  BY LenProperties
<1>3. 0 \in P
  <2>1. f[0] = <<>>
    BY <1>1, <1>2 DEF KeptUpTo
  <2>2. Range(<<>>) = {} /\ IsInjective(<<>>) /\ <<>> \in Seq(X)
    BY DEF Range, IsInjective
  <2>3. Good(0)
    BY <2>1, <2>2
  <2> QED BY <2>3
<1>4. ASSUME NEW m \in Nat, m \in P PROVE m + 1 \in P
  <2> SUFFICES ASSUME m + 1 <= Len(s) PROVE Good(m + 1)
    OBVIOUS
  <2>1. Good(m)
    BY <1>2, <1>4
  <2>2. m + 1 \in 1..Len(s) /\ s[m+1] \in X
    BY <1>2
  <2>3. f[m+1] = IF s[m+1] \in S THEN Append(f[m], s[m+1]) ELSE f[m]
    <3> DEFINE i == m + 1
    <3>1. i \in 0..Len(s) /\ i # 0 /\ i - 1 = m
      BY <2>2
    <3> HIDE DEF i
    <3>2. f[i] = IF i = 0 THEN <<>> ELSE IF s[i] \in S THEN Append(f[i-1], s[i]) ELSE f[i-1]
      BY Zenon, <1>1, <3>1 DEF KeptUpTo
    <3> QED BY <3>1, <3>2 DEF i
  <2>4. \A x : (\E j \in 1..(m+1) : s[j] = x) <=>
               ((\E j \in 1..m : s[j] = x) \/ s[m+1] = x)
    OBVIOUS
  <2>5. CASE s[m+1] \in S
    <3>1. f[m+1] = Append(f[m], s[m+1])
      BY <2>3, <2>5
    <3>2. /\ f[m+1] \in Seq(X)
          /\ Range(f[m+1]) = Range(f[m]) \cup {s[m+1]}
      BY <2>1, <2>2, <3>1, AppendHolds
    <3>3. ASSUME IsInjective(s) PROVE s[m+1] \notin Range(f[m])
      BY <1>2, <2>1, <2>2, <3>3 DEF IsInjective
    <3>4. IsInjective(s) => IsInjective(f[m+1])
      BY <2>1, <2>2, <3>1, <3>3, AppendHolds
    <3> QED BY <2>1, <2>4, <2>5, <3>2, <3>4
  <2>6. CASE s[m+1] \notin S
    BY <2>1, <2>3, <2>4, <2>6
  <2> QED BY <2>5, <2>6
<1>5. Good(Len(s))
  <2> HIDE DEF Good
  <2>1. \A n \in Nat : n \in P => n + 1 \in P
    BY <1>4
  <2>2. Nat \subseteq P
    <3> HIDE DEF P
    <3> QED BY <1>3, <2>1, SetInduction
  <2> QED BY <1>2, <2>2
<1>6. \A x : x \in Range(s) <=> \E j \in 1..Len(s) : s[j] = x
  BY <1>2 DEF Range
<1> QED BY <1>1, <1>5, <1>6

-----------------------------------------------------------------------------
(* The invariant, and the steps.                                           *)

\* The inductive invariant: PCBOwnedOnce needs the state and priority that go
\* with each list, and both need to know where the running process is.
Inv ==
    /\ TypeOK
    /\ PCBOwnedOnce
    /\ NoProcessLost
    /\ StateMatchesList
    /\ SavedBeforeResume
    /\ IdleRunnable
    /\ CpuMatchesScheduler

\* The constants and the sets built from them.
LEMMA Basics ==
    /\ idle_process \in Process /\ idle_process \notin process_pool
    /\ process_pool \subseteq Process
    /\ NULL \notin Process
    /\ PRIORITY_LOW \in Priority /\ 0 \in Priority
    /\ Priority \subseteq Nat
BY SchedulerAssumption DEF idle_process, process_pool, Process, NULL, PRIORITY_LOW, Priority

\* The state scheduler_init leaves satisfies the invariant.
LEMMA InitInv == Init => Inv
<1> SUFFICES ASSUME Init PROVE Inv
  OBVIOUS
<1> USE Basics
<1>1. /\ free_list \in Seq(Process)
      /\ Range(free_list) = process_pool
      /\ IsInjective(free_list)
  BY SchedulerAssumption DEF Init, process_pool, Process, Range, IsInjective
<1>2. <<>> \in Seq(Process) /\ <<>> \in Seq(process_pool) /\ Range(<<>>) = {} /\ IsInjective(<<>>)
  BY DEF Range, IsInjective
<1>3. TypeOK
  BY <1>1, <1>2, SchedulerAssumption
     DEF Init, TypeOK, process_state_t, Context, Location
<1>4. Queued = {} /\ Range(sleep_list) = {}
  BY <1>2 DEF Init, Queued
<1>5. PCBOwnedOnce
  BY <1>1, <1>2, <1>4 DEF Init, PCBOwnedOnce
<1>6. NoProcessLost
  BY <1>1 DEF Init, NoProcessLost, Process
<1>7. StateMatchesList /\ SavedBeforeResume /\ IdleRunnable
  BY <1>2, <1>4 DEF Init, StateMatchesList, SavedBeforeResume, IdleRunnable
<1>8. CpuMatchesScheduler
  BY <1>1, <1>4 DEF Init, CpuMatchesScheduler
<1> QED BY <1>3, <1>5, <1>6, <1>7, <1>8 DEF Inv

\* Steps that change no list.
LEMMA LocalStepInv ==
    ASSUME Inv, Cli \/ Sti \/ SleepSetWake \/ SleepSetState \/ SleepReturn \/ EntryReturns
    PROVE  Inv'
<1> USE Basics
<1>1. UNCHANGED <<lists, current_process, priority, stack_ptr, memory, tick_count, cpu>>
  BY DEF Cli, Sti, SleepSetWake, SleepSetState, SleepReturn, EntryReturns
<1>2. /\ Queued' = Queued
      /\ Range(free_list)' = Range(free_list)
      /\ Range(sleep_list)' = Range(sleep_list)
      /\ \A k \in Priority : Range(queues[k])' = Range(queues[k])
  BY <1>1 DEF lists, Queued
<1>3. /\ current_process = cpu /\ cpu \in Process
      /\ cpu \notin Queued /\ cpu \notin Range(sleep_list)
      /\ cpu \notin Range(free_list)
      /\ pc[cpu] # "halted"
  BY ZenonT(30) DEF Inv, TypeOK, CpuMatchesScheduler, PCBOwnedOnce, Stopped, Cli, Sti,
         SleepSetWake, SleepSetState, SleepReturn, EntryReturns
<1>4. \A p \in Process : p # cpu => state'[p] = state[p] /\ pc'[p] = pc[p]
  BY Zenon, <1>3 DEF Inv, TypeOK, Cli, Sti, SleepSetWake, SleepSetState, SleepReturn,
              EntryReturns
<1>5. TypeOK'
  <2> USE SchedulerAssumption
  <2>1. ASSUME Cli \/ Sti \/ SleepReturn PROVE TypeOK'
    BY Zenon, <2>1 DEF Inv, TypeOK, Cli, Sti, SleepReturn, Location, lists, memory
  <2>2. ASSUME SleepSetState \/ EntryReturns PROVE TypeOK'
    BY ZenonT(30), <2>2 DEF Inv, TypeOK, SleepSetState, EntryReturns, Location,
                process_state_t, lists, memory
  <2>3. ASSUME SleepSetWake PROVE TypeOK'
    <3>1. PICK ms \in SLEEP_MS :
             LET until == tick_count + SleepTicks(ms)
             IN  /\ until <= MAX_TICK
                 /\ wake_tick' = [wake_tick EXCEPT ![current_process] = until % WAKE_MOD]
                 /\ deadline' = [deadline EXCEPT ![cpu] = until]
      BY Zenon, <2>3 DEF SleepSetWake
    <3>2. SleepTicks(ms) \in Nat
      BY DEF SleepTicks
    <3>3. tick_count + SleepTicks(ms) \in 0..MAX_TICK
      <4>1. tick_count \in Nat
        BY DEF Inv, TypeOK
      <4>2. tick_count + SleepTicks(ms) <= MAX_TICK
        BY Zenon, <3>1
      <4>3. MAX_TICK \in Nat
        BY SchedulerAssumption
      <4> QED BY ONLY <3>2, <4>1, <4>2, <4>3
    <3>4. (tick_count + SleepTicks(ms)) % WAKE_MOD \in 0..(WAKE_MOD - 1)
      BY <3>3
    <3> QED BY Zenon, <2>3, <3>1, <3>3, <3>4 DEF Inv, TypeOK, SleepSetWake, Location, lists, memory
  <2> QED BY <2>1, <2>2, <2>3
<1>6. /\ pc'[cpu] \in {"run", "sleep_set"} => state'[cpu] = "RUNNING"
      /\ pc'[cpu] = "sleep_wait" => state'[cpu] \in {"RUNNING", "SLEEPING"}
      /\ pc'[cpu] = "halted" => state'[cpu] = "TERMINATED"
      /\ cpu = idle_process => pc'[cpu] = "run"
  <2>1. /\ pc[cpu] \in {"run", "sleep_set"} => state[cpu] = "RUNNING"
        /\ pc[cpu] = "sleep_wait" => state[cpu] \in {"RUNNING", "SLEEPING"}
        /\ cpu = idle_process => pc[cpu] = "run"
        /\ pc \in [Process -> Location] /\ state \in [Process -> process_state_t]
    BY Zenon, <1>3 DEF Inv, TypeOK, CpuMatchesScheduler, Stopped
  <2> QED BY ZenonT(30), <1>3, <2>1 DEF Cli, Sti, SleepSetWake, SleepSetState, SleepReturn,
          EntryReturns
<1>7. PCBOwnedOnce'
  BY Zenon, <1>1, <1>2, <1>3, <1>6 DEF Inv, PCBOwnedOnce, lists
<1>8. NoProcessLost'
  BY Zenon, <1>1, <1>2, <1>3, <1>4 DEF Inv, NoProcessLost
<1>9. StateMatchesList'
  <2>1. state'[cpu] \in {"RUNNING", "SLEEPING", "TERMINATED"}
    BY <1>3, <1>5, <1>6 DEF TypeOK, Location
  <2>2. ASSUME NEW k \in Priority, NEW p \in Range(queues[k])
        PROVE  p \in Queued /\ p \in Process
    BY ZenonT(30), Members DEF Inv, TypeOK, Queued
  <2>3. Range(sleep_list) \subseteq Process
    BY Zenon, Members DEF Inv, TypeOK
  <2>4. ASSUME NEW k \in Priority, NEW p \in Range(queues[k])
        PROVE  state'[p] = "READY" /\ priority'[p] = k
    <3>1. state[p] = "READY" /\ priority[p] = k
      BY Zenon DEF Inv, StateMatchesList
    <3>2. p # cpu /\ p \in Process
      BY Zenon, <1>3, <2>2
    <3> QED BY Zenon, <1>1, <1>4, <3>1, <3>2
  <2>5. ASSUME NEW p \in Range(sleep_list) PROVE state'[p] = "SLEEPING"
    <3>1. state[p] = "SLEEPING" /\ p # cpu /\ p \in Process
      BY Zenon, <1>3, <2>3 DEF Inv, StateMatchesList
    <3> QED BY Zenon, <1>4, <3>1
  <2> QED BY Zenon, <1>1, <1>2, <1>3, <2>1, <2>4, <2>5 DEF StateMatchesList
<1>10. SavedBeforeResume' /\ IdleRunnable'
  BY <1>1, <1>2 DEF Inv, SavedBeforeResume, IdleRunnable
<1>11. CpuMatchesScheduler'
  <2>1. Range(sleep_list) \subseteq Process /\ Range(free_list) \subseteq Process
        /\ Queued \subseteq Process
    BY Zenon, Members DEF Inv, TypeOK, Queued
  <2>2. pc'[idle_process] = "run"
    BY Zenon, <1>3, <1>4, <1>6 DEF Inv, CpuMatchesScheduler, Stopped
  <2>3. \A p \in Range(free_list) : pc'[p] = "run"
    BY Zenon, <1>3, <1>4, <2>1 DEF Inv, CpuMatchesScheduler
  <2>4. current_process' = cpu' /\ cpu' # NULL
    BY Zenon, <1>1, <1>3
  <2> QED BY ZenonT(30), <1>1, <1>2, <1>3, <1>4, <1>6, <2>1, <2>2, <2>3, <2>4
          DEF Inv, CpuMatchesScheduler
<1> QED BY <1>5, <1>7, <1>8, <1>9, <1>10, <1>11 DEF Inv

\* A step that changes nothing keeps the invariant.
LEMMA StutterInv == Inv /\ UNCHANGED vars => Inv'
<1> SUFFICES ASSUME Inv, UNCHANGED vars PROVE Inv'
  OBVIOUS
<1>1. UNCHANGED <<free_list, queues, sleep_list, current_process, state, priority,
                  wake_tick, page_directory, stack_ptr, tick_count, next_page, cr3,
                  iflag, cpu, pc, deadline>>
  BY DEF vars, lists, memory
<1>2. Queued' = Queued
  BY <1>1 DEF Queued
<1>3. TypeOK'
  BY <1>1 DEF Inv, TypeOK
<1>4. PCBOwnedOnce' /\ NoProcessLost' /\ StateMatchesList'
  BY Zenon, <1>1, <1>2 DEF Inv, PCBOwnedOnce, NoProcessLost, StateMatchesList, Stopped
<1>5. SavedBeforeResume' /\ IdleRunnable' /\ CpuMatchesScheduler'
  BY Zenon, <1>1, <1>2 DEF Inv, SavedBeforeResume, IdleRunnable, CpuMatchesScheduler, Stopped
<1> QED BY <1>3, <1>4, <1>5 DEF Inv

\* scheduler_create_process, called by code that is running normally, keeps
\* the invariant in each of its three outcomes.
LEMMA CreateInv ==
    ASSUME Inv, pc[cpu] = "run", NEW prio \in Priority, scheduler_create_process(prio),
           UNCHANGED <<current_process, wake_tick, tick_count, iflag, cpu, deadline>>
    PROVE  Inv'
<1> USE Basics
<1>1. /\ current_process = cpu /\ cpu \in Process
      /\ cpu \notin Queued /\ cpu \notin Range(sleep_list) /\ cpu \notin Range(free_list)
      /\ ~Stopped /\ pc[idle_process] = "run"
  BY DEF Inv, TypeOK, CpuMatchesScheduler, PCBOwnedOnce, Stopped
<1>2. CASE free_list = <<>>
  <2>1. UNCHANGED vars
    BY Zenon, <1>2 DEF scheduler_create_process, vars, lists, memory
  <2> QED BY <2>1, StutterInv
<1>3. CASE free_list # <<>>
  <2> DEFINE p == Head(free_list)
  <2>1. /\ p \in Process /\ p \in Range(free_list)
        /\ Tail(free_list) \in Seq(Process)
        /\ Range(Tail(free_list)) = Range(free_list) \ {p}
        /\ IsInjective(Tail(free_list))
    BY <1>3, PopHolds DEF Inv, TypeOK, PCBOwnedOnce
  <2>2. /\ state' = [state EXCEPT ![p] = "READY"]
        /\ priority' = [priority EXCEPT ![p] = prio]
        /\ page_directory' = [page_directory EXCEPT ![p] = NewDirectory]
        /\ cr3' = cr3 /\ sleep_list' = sleep_list
        /\ \/ /\ ~StackAvailable
              /\ next_page' = IF NewDirectory # 0 THEN next_page + 1 ELSE next_page
              /\ UNCHANGED <<lists, stack_ptr, pc>>
           \/ /\ StackAvailable
              /\ next_page' = next_page + 2
              /\ free_list' = Tail(free_list)
              /\ stack_ptr' = [stack_ptr EXCEPT ![p] = "entry"]
              /\ pc' = [pc EXCEPT ![p] = "run"]
              /\ queues' = enqueue_process(queues, prio, p)
    BY Zenon, <1>3 DEF scheduler_create_process, lists
  <2> HIDE DEF p
  <2>3. p # cpu /\ p # idle_process /\ p \in Process /\ p \notin Queued /\ p \notin Range(sleep_list)
    <3>1. p # cpu /\ p \notin Queued /\ p \notin Range(sleep_list)
      BY <1>1, <2>1 DEF Inv, PCBOwnedOnce
    <3>2. p # idle_process
      BY Zenon, <1>1, <2>1, <3>1 DEF Inv, IdleRunnable
    <3> QED BY <2>1, <3>1, <3>2
  <2>4. /\ Queued \subseteq Process /\ Range(sleep_list) \subseteq Process
        /\ Range(free_list) \subseteq Process
        /\ \A k \in Priority : Range(queues[k]) \subseteq Queued
    BY Zenon, Members DEF Inv, TypeOK, Queued
  <2>5. /\ page_directory' \in [Process -> 0..NUM_PAGES]
        /\ next_page' \in 1..(NUM_PAGES + 1)
        /\ state' \in [Process -> process_state_t]
        /\ priority' \in [Process -> Priority]
        /\ stack_ptr' \in [Process -> Context]
        /\ pc' \in [Process -> Location]
    <3>1. NewDirectory \in 0..NUM_PAGES
      BY SchedulerAssumption DEF Inv, TypeOK, NewDirectory
    <3>2. next_page' \in 1..(NUM_PAGES + 1)
      <4>1. next_page \in 1..(NUM_PAGES + 1) /\ NUM_PAGES \in Nat
        BY SchedulerAssumption DEF Inv, TypeOK
      <4>2. CASE StackAvailable
        BY <2>2, <4>1, <4>2 DEF StackAvailable
      <4>3. CASE ~StackAvailable /\ next_page <= NUM_PAGES
        BY <2>2, <4>1, <4>3 DEF NewDirectory
      <4>4. CASE ~StackAvailable /\ ~(next_page <= NUM_PAGES)
        BY <2>2, <4>1, <4>4 DEF NewDirectory
      <4> QED BY <4>2, <4>3, <4>4
    <3>3. page_directory' \in [Process -> 0..NUM_PAGES]
      BY <2>2, <2>3, <3>1 DEF Inv, TypeOK
    <3>4. /\ state' \in [Process -> process_state_t] /\ priority' \in [Process -> Priority]
          /\ stack_ptr' \in [Process -> Context] /\ pc' \in [Process -> Location]
      BY ZenonT(30), <2>2, <2>3 DEF Inv, TypeOK, process_state_t, Context, Location
    <3> QED BY <3>2, <3>3, <3>4
  <2>6. /\ \A q \in Process : q # p => state'[q] = state[q] /\ priority'[q] = priority[q]
                                      /\ stack_ptr'[q] = stack_ptr[q] /\ pc'[q] = pc[q]
        /\ state'[p] = "READY" /\ priority'[p] = prio
    BY Zenon, <2>2, <2>3 DEF Inv, TypeOK
  <2>7. CASE ~StackAvailable
    <3>1. /\ UNCHANGED <<free_list, queues, sleep_list, stack_ptr, pc>>
          /\ Queued' = Queued
      BY <2>2, <2>7 DEF lists, Queued
    <3>2. TypeOK'
      BY ZenonT(30), <2>2, <2>5, <3>1 DEF Inv, TypeOK
    <3>3. PCBOwnedOnce' /\ SavedBeforeResume' /\ IdleRunnable'
      BY Zenon, <3>1 DEF Inv, PCBOwnedOnce, SavedBeforeResume, IdleRunnable, Stopped
    <3>4. NoProcessLost'
      BY <2>1, <2>6, <3>1 DEF Inv, NoProcessLost
    <3>5. StateMatchesList'
      BY <1>1, <2>3, <2>4, <2>6, <3>1 DEF Inv, StateMatchesList
    <3>6. CpuMatchesScheduler'
      BY Zenon, <1>1, <2>3, <2>4, <2>6, <3>1 DEF Inv, CpuMatchesScheduler, Stopped
    <3> QED BY <3>2, <3>3, <3>4, <3>5, <3>6 DEF Inv
  <2>8. CASE StackAvailable
    <3>1. /\ free_list' = Tail(free_list)
          /\ stack_ptr' = [stack_ptr EXCEPT ![p] = "entry"]
          /\ pc' = [pc EXCEPT ![p] = "run"]
          /\ queues' = [queues EXCEPT ![prio] = Append(@, p)]
      BY <2>2, <2>8 DEF enqueue_process
    <3>2. /\ queues' \in [Priority -> Seq(Process)]
          /\ \A k \in Priority : k # prio => queues'[k] = queues[k]
          /\ queues'[prio] = Append(queues[prio], p)
      BY Zenon, <2>3, <3>1, AppendHolds DEF Inv, TypeOK
    <3>3. /\ Range(queues'[prio]) = Range(queues[prio]) \cup {p}
          /\ IsInjective(queues'[prio])
      <4>1. queues[prio] \in Seq(Process) /\ IsInjective(queues[prio]) /\ p \notin Range(queues[prio])
        BY <2>3, <2>4 DEF Inv, TypeOK, PCBOwnedOnce
      <4> QED BY <2>3, <3>2, <4>1, AppendHolds
    <3>4. Queued' = Queued \cup {p}
      BY ZenonT(30), <2>3, <3>2, <3>3 DEF Queued
    <3>5. TypeOK'
      BY Zenon, <2>1, <2>2, <2>5, <3>1, <3>2 DEF Inv, TypeOK
    <3>6. PCBOwnedOnce'
      <4>1. \A k \in Priority : IsInjective(queues'[k])
        BY Zenon, <3>2, <3>3 DEF Inv, PCBOwnedOnce
      <4>2. \A j, k \in Priority : j # k => Range(queues'[j]) \cap Range(queues'[k]) = {}
        <5>1. \A k \in Priority : Range(queues'[k]) \subseteq Range(queues[k]) \cup {p}
          BY ZenonT(30), <3>2, <3>3
        <5>2. \A k \in Priority : p \in Range(queues'[k]) => k = prio
          BY <2>3, <2>4, <3>2
        <5>3. \A j, k \in Priority : j # k => Range(queues[j]) \cap Range(queues[k]) = {}
          BY DEF Inv, PCBOwnedOnce
        <5> QED BY <5>1, <5>2, <5>3
      <4>3. Range(free_list') \cap (Queued' \cup Range(sleep_list')) = {}
        BY ZenonT(30), <2>1, <2>2, <3>1, <3>4 DEF Inv, PCBOwnedOnce
      <4>4. Queued' \cap Range(sleep_list') = {}
        BY ZenonT(30), <2>2, <2>3, <3>4 DEF Inv, PCBOwnedOnce
      <4> QED BY Zenon, <1>1, <2>1, <2>2, <2>3, <3>1, <3>4, <4>1, <4>2, <4>3, <4>4
              DEF Inv, PCBOwnedOnce
    <3>7. NoProcessLost'
      BY ZenonT(30), <2>1, <2>2, <2>6, <3>1, <3>4 DEF Inv, NoProcessLost
    <3>8. StateMatchesList'
      <4>1. ASSUME NEW k \in Priority, NEW q \in Range(queues'[k])
            PROVE  state'[q] = "READY" /\ priority'[q] = k
        <5>1. CASE q = p
          BY <2>3, <2>4, <2>6, <3>2, <4>1, <5>1
        <5>2. CASE q # p
          <6>1. q \in Range(queues[k]) /\ q \in Process
            BY ZenonT(30), <2>4, <3>2, <3>3, <4>1, <5>2
          <6> QED BY <2>6, <5>2, <6>1 DEF Inv, StateMatchesList
        <5> QED BY <5>1, <5>2
      <4>2. \A q \in Range(sleep_list') : state'[q] = "SLEEPING"
        BY ZenonT(30), <2>2, <2>3, <2>4, <2>6 DEF Inv, StateMatchesList
      <4>3. state'[cpu] = state[cpu]
        BY <1>1, <2>3, <2>6
      <4> QED BY Zenon, <1>1, <4>1, <4>2, <4>3 DEF Inv, StateMatchesList
    <3>9. SavedBeforeResume' /\ IdleRunnable'
      <4>1. stack_ptr'[p] = "entry"
        BY <2>3, <3>1 DEF Inv, TypeOK
      <4> QED BY <2>2, <2>4, <2>6, <3>4, <4>1 DEF Inv, SavedBeforeResume, IdleRunnable
    <3>10. CpuMatchesScheduler'
      <4>1. pc'[p] = "run"
        BY <2>3, <3>1 DEF Inv, TypeOK
      <4>2. /\ \A q \in Queued : pc'[q] \in {"run", "sleep_set", "sleep_wait"}
            /\ \A q \in Range(sleep_list) : pc'[q] = "sleep_wait"
            /\ \A q \in Range(free_list) \ {p} : pc'[q] = "run"
        BY ZenonT(30), <1>1, <2>2, <2>3, <2>4, <2>6 DEF Inv, CpuMatchesScheduler
      <4>3. pc'[cpu] = pc[cpu] /\ state'[cpu] = state[cpu] /\ pc'[idle_process] = pc[idle_process]
        BY Zenon, <1>1, <2>3, <2>6
      <4>4. /\ \A q \in Queued' : pc'[q] \in {"run", "sleep_set", "sleep_wait"}
            /\ \A q \in Range(sleep_list') : pc'[q] = "sleep_wait"
            /\ \A q \in Range(free_list') : pc'[q] = "run"
        BY Zenon, <2>1, <2>2, <3>1, <3>4, <4>1, <4>2
      <4>5. priority'[idle_process] = priority[idle_process] /\ cpu \notin Range(free_list')
        BY Zenon, <1>1, <2>1, <2>3, <2>6, <3>1
      <4> QED BY ZenonT(30), <1>1, <4>3, <4>4, <4>5 DEF Inv, CpuMatchesScheduler
    <3> QED BY <3>5, <3>6, <3>7, <3>8, <3>9, <3>10 DEF Inv
  <2> QED BY <2>7, <2>8
<1> QED BY <1>2, <1>3

\* sys_exit keeps the invariant, executed by a process of the pool, which leaves
\* no current process, and by the idle process, which stays the current one.
LEMMA ExitInv ==
    ASSUME Inv, sys_exit
    PROVE  Inv'
<1> USE Basics
<1>1. /\ current_process = cpu /\ cpu \in Process /\ cpu # NULL
      /\ cpu \notin Queued /\ cpu \notin Range(sleep_list) /\ cpu \notin Range(free_list)
      /\ \A p \in Range(free_list) : pc[p] = "run"
      /\ pc[idle_process] = "run"
  BY ZenonT(30) DEF sys_exit, Inv, TypeOK, CpuMatchesScheduler, PCBOwnedOnce, Stopped
<1>2. /\ Queued \subseteq Process /\ Range(sleep_list) \subseteq Process
      /\ Range(free_list) \subseteq Process
      /\ \A k \in Priority : Range(queues[k]) \subseteq Queued
  BY Zenon, Members DEF Inv, TypeOK, Queued
<1>3. /\ state' = [state EXCEPT ![cpu] = "TERMINATED"]
      /\ free_list' = <<cpu>> \o free_list
      /\ pc' = [pc EXCEPT ![cpu] = "halted"]
      /\ iflag' = FALSE
      /\ UNCHANGED <<sleep_list, priority, wake_tick, stack_ptr, memory, tick_count, cpu,
                     deadline>>
      /\ scheduler_yield(state')
  BY Zenon, <1>1 DEF sys_exit, release_process
<1>4. /\ state'[cpu] = "TERMINATED" /\ state' \in [Process -> process_state_t]
      /\ pc'[cpu] = "halted" /\ pc' \in [Process -> Location]
      /\ \A q \in Process : q # cpu => pc'[q] = pc[q] /\ state'[q] = state[q]
  <2>1. state \in [Process -> process_state_t] /\ pc \in [Process -> Location]
    BY Zenon DEF Inv, TypeOK
  <2>2. "TERMINATED" \in process_state_t /\ "halted" \in Location
    BY ONLY DEF process_state_t, Location
  <2>3. cpu \in Process /\ state' = [state EXCEPT ![cpu] = "TERMINATED"]
        /\ pc' = [pc EXCEPT ![cpu] = "halted"]
    BY Zenon, <1>1, <1>3
  <2> QED BY ONLY <2>1, <2>2, <2>3
<1>5. /\ queues' = queues /\ Queued' = Queued
      /\ current_process' = IF cpu = idle_process THEN cpu ELSE NULL
  <2>1. queues' = queues /\ current_process' = IF cpu = idle_process THEN cpu ELSE NULL
    BY ZenonT(30), <1>1, <1>3, <1>4 DEF scheduler_yield
  <2> QED BY <2>1 DEF Queued
<1>6. /\ free_list' \in Seq(Process)
      /\ Range(free_list') = Range(free_list) \cup {cpu}
      /\ IsInjective(free_list')
  <2>1. free_list \in Seq(Process) /\ IsInjective(free_list)
    BY Zenon DEF Inv, TypeOK, PCBOwnedOnce
  <2> QED BY ONLY <1>1, <1>3, <2>1, PushHolds
<1>7. Stopped' /\ cpu' = cpu
  BY Zenon, <1>3, <1>4 DEF Stopped
<1>8. TypeOK'
  BY ZenonT(30), <1>1, <1>3, <1>4, <1>5, <1>6 DEF Inv, TypeOK, memory
<1>9. PCBOwnedOnce'
  <2>1. /\ Range(free_list') \cap (Queued \cup Range(sleep_list)) = {}
        /\ NULL \notin Queued /\ NULL \notin Range(sleep_list) /\ NULL \notin Range(free_list')
    BY <1>1, <1>2, <1>6 DEF Inv, PCBOwnedOnce
  <2>2. current_process' \notin Queued \cup Range(sleep_list)
    BY Zenon, <1>1, <1>5, <2>1
  <2>3. current_process' \in Range(free_list') => current_process' = idle_process
    BY Zenon, <1>5, <2>1
  <2> QED BY Zenon, <1>3, <1>5, <1>6, <1>7, <2>1, <2>2, <2>3 DEF Inv, PCBOwnedOnce
<1>10. NoProcessLost'
  BY ZenonT(30), <1>1, <1>3, <1>4, <1>5, <1>6 DEF Inv, NoProcessLost
<1>11. StateMatchesList'
  <2>1. ASSUME NEW k \in Priority, NEW p \in Range(queues[k])
        PROVE  state'[p] = "READY" /\ priority'[p] = k
    <3>1. state[p] = "READY" /\ priority[p] = k
      BY Zenon DEF Inv, StateMatchesList
    <3>2. p \in Process /\ p # cpu
      BY Zenon, <1>1, <1>2
    <3> QED BY Zenon, <1>3, <1>4, <3>1, <3>2
  <2>2. ASSUME NEW p \in Range(sleep_list) PROVE state'[p] = "SLEEPING"
    <3>1. state[p] = "SLEEPING"
      BY Zenon DEF Inv, StateMatchesList
    <3> QED BY Zenon, <1>1, <1>2, <1>4, <3>1
  <2>3. current_process' # NULL => state'[current_process'] = "TERMINATED"
    BY Zenon, <1>4, <1>5
  <2> QED BY Zenon, <1>3, <1>5, <2>1, <2>2, <2>3 DEF StateMatchesList
<1>12. SavedBeforeResume' /\ IdleRunnable'
  BY ZenonT(30), <1>1, <1>3, <1>5 DEF Inv, SavedBeforeResume, IdleRunnable
<1>13. CpuMatchesScheduler'
  <2>1. /\ \A p \in Queued : pc'[p] \in {"run", "sleep_set", "sleep_wait"}
        /\ \A p \in Range(sleep_list) : pc'[p] = "sleep_wait"
    BY Zenon, <1>1, <1>2, <1>4 DEF Inv, CpuMatchesScheduler
  <2>2. \A p \in Range(free_list') : pc'[p] = "run" \/ p = cpu
    BY Zenon, <1>1, <1>2, <1>4, <1>6
  <2>3. pc'[idle_process] = "run" \/ cpu = idle_process
    BY Zenon, <1>1, <1>4
  <2>4. current_process' \in {NULL, cpu} /\ priority'[idle_process] = PRIORITY_LOW
    BY Zenon, <1>3, <1>5 DEF Inv, CpuMatchesScheduler
  <2> QED BY Zenon, <1>3, <1>4, <1>5, <1>7, <2>1, <2>2, <2>3, <2>4 DEF CpuMatchesScheduler
<1> QED BY <1>8, <1>9, <1>10, <1>11, <1>12, <1>13 DEF Inv

-----------------------------------------------------------------------------
(* The timer tick keeps the invariant: what scheduler_tick does to lists,  *)
(* read as sets, and then each conjunct of the invariant.                  *)

\* The queue pick_next_process takes from: nonempty, and all before it empty.
LEMMA HighestReadyHolds ==
    ASSUME NEW q, \E k \in Priority : q[k] # <<>>
    PROVE  /\ HighestReady(q) \in Priority
           /\ q[HighestReady(q)] # <<>>
           /\ \A j \in Priority : j < HighestReady(q) => q[j] = <<>>
<1> DEFINE T == {k \in Priority : q[k] # <<>>}
<1>1. PICK m \in T : \A n \in T : m <= n
  <2>1. T \in SUBSET Nat /\ T # {}
    BY Zenon, Basics
  <2> HIDE DEF T
  <2> QED BY ZenonT(30), <2>1, LeastNatural
<1>2. q[m] # <<>> /\ \A j \in 0..(m-1) : q[j] = <<>>
  BY <1>1, SchedulerAssumption DEF Priority
<1>3. /\ HighestReady(q) \in Priority /\ q[HighestReady(q)] # <<>>
      /\ \A j \in 0..(HighestReady(q)-1) : q[j] = <<>>
  BY <1>1, <1>2 DEF HighestReady
<1> QED BY <1>3, SchedulerAssumption DEF Priority

\* The processes a tick finds ready in queue k: those queued, those it wakes,
\* and the one it preempts.
TickReady(due, k) ==
    Range(queues[k]) \cup {p \in due : priority[p] = k}
        \cup {p \in {current_process} : Preempted(p) /\ priority[p] = k}

\* What scheduler_tick does to the lists, read as sets.
LEMMA TickLists ==
    ASSUME Inv, scheduler_tick
    PROVE  \E due \in SUBSET process_pool, next \in Process :
              /\ due = {p \in Range(sleep_list) : tick_count' >= wake_tick[p]}
              /\ queues' \in [Priority -> Seq(Process)]
              /\ sleep_list' \in Seq(process_pool)
              /\ IsInjective(sleep_list') /\ \A k \in Priority : IsInjective(queues'[k])
              /\ next \in TickReady(due, priority[next])
              /\ \A k \in Priority : Range(queues'[k]) = TickReady(due, k) \ {next}
              /\ \A k \in Priority : k < priority[next] => queues'[k] = <<>>
              /\ Range(sleep_list') = (Range(sleep_list) \ due) \cup
                    {p \in {current_process} : p # NULL /\ state[p] = "SLEEPING"}
              /\ current_process' = next
              /\ context_switch(current_process, next)
              /\ state' = [p \in Process |->
                              IF p = next THEN "RUNNING"
                              ELSE IF p \in due \/ (Preempted(current_process) /\ p = current_process)
                              THEN "READY" ELSE state[p]]
<1> USE Basics
<1> DEFINE prev == current_process
           due == Due(tick_count')
           woken == WakeInto(queues, due)
           ready == IF Preempted(prev) THEN enqueue_process(woken, priority[prev], prev)
                                       ELSE woken
           waiting == Keep(sleep_list, Process \ due)
           next == pick_next_process(ready)
           slept == prev # NULL /\ state[prev] = "SLEEPING"
           lowered(k) == {p \in due : priority[p] = k}
<1>1. /\ sleep_list' = IF slept THEN <<prev>> \o waiting ELSE waiting
      /\ queues' = IF next # NULL THEN dequeue_process(ready, priority[next]) ELSE ready
      /\ state' = [p \in Process |->
                      IF p = next THEN "RUNNING"
                      ELSE IF p \in due \/ (Preempted(prev) /\ p = prev) THEN "READY"
                      ELSE state[p]]
      /\ current_process' = IF next # NULL THEN next ELSE idle_process
      /\ context_switch(prev, current_process')
  BY ZenonT(30) DEF scheduler_tick, enqueue_sleep
<1>2. /\ due \subseteq Range(sleep_list) /\ Range(sleep_list) \subseteq process_pool
      /\ sleep_list \in Seq(process_pool) /\ IsInjective(sleep_list)
      /\ queues \in [Priority -> Seq(Process)]
      /\ \A k \in Priority : IsInjective(queues[k]) /\ Range(queues[k]) \subseteq Queued
      /\ Queued \cap Range(sleep_list) = {}
      /\ due = {p \in Range(sleep_list) : tick_count' >= wake_tick[p]}
  BY ZenonT(30), Members DEF Inv, TypeOK, PCBOwnedOnce, Queued, Due
<1>3. Preempted(prev) \/ slept => prev = cpu /\ prev \in Process
         /\ prev \notin Queued /\ prev \notin Range(sleep_list)
  BY Zenon DEF Inv, TypeOK, CpuMatchesScheduler, PCBOwnedOnce, Preempted
<1>4. slept => prev \in process_pool
  <2>1. prev = idle_process => state[prev] = "RUNNING"
    BY ZenonT(30) DEF Inv, CpuMatchesScheduler, Stopped, scheduler_tick
  <2> QED BY <1>3, <2>1 DEF Process
<1>5. /\ waiting \in Seq(process_pool) /\ IsInjective(waiting)
      /\ Range(waiting) = Range(sleep_list) \ due
  BY <1>2, KeepHolds
<1>6. ASSUME NEW k \in Priority
      PROVE  /\ woken[k] \in Seq(Process) /\ IsInjective(woken[k])
             /\ Range(woken[k]) = Range(queues[k]) \cup lowered(k)
  <2> DEFINE t == Keep(sleep_list, lowered(k))
  <2>1. t \in Seq(process_pool) /\ IsInjective(t) /\ Range(t) = lowered(k)
    BY <1>2, KeepHolds
  <2>2. t \in Seq(Process)
    BY <2>1, SeqMonotonic
  <2>3. woken[k] = queues[k] \o t
    BY DEF WakeInto
  <2>4. Range(queues[k]) \cap Range(t) = {}
    BY Zenon, <1>2, <2>1
  <2> HIDE DEF t, woken
  <2>5. queues[k] \in Seq(Process) /\ IsInjective(queues[k])
    BY Zenon, <1>2
  <2>6. /\ queues[k] \o t \in Seq(Process) /\ Range(queues[k] \o t) = Range(queues[k]) \cup Range(t)
        /\ IsInjective(queues[k] \o t)
    BY ONLY <2>1, <2>2, <2>4, <2>5, ConcatHolds
  <2> QED BY Zenon, <2>1, <2>3, <2>6
<1>7. woken \in [Priority -> Seq(Process)]
  BY <1>6 DEF WakeInto
<1> HIDE DEF due, woken, waiting
<1>8. /\ ready \in [Priority -> Seq(Process)]
      /\ \A k \in Priority : IsInjective(ready[k]) /\ Range(ready[k]) = TickReady(due, k)
  <2>1. CASE ~Preempted(prev)
    BY <1>6, <1>7, <2>1 DEF TickReady
  <2>2. CASE Preempted(prev)
    <3> DEFINE h == priority[prev]
    <3>1. h \in Priority /\ prev \in Process
      BY <1>3, <2>2 DEF Inv, TypeOK
    <3>2. prev \notin Range(woken[h])
      BY Zenon, <1>2, <1>3, <1>6, <2>2, <3>1
    <3>3. /\ ready = [woken EXCEPT ![h] = Append(woken[h], prev)]
          /\ Append(woken[h], prev) \in Seq(Process) /\ IsInjective(Append(woken[h], prev))
          /\ Range(Append(woken[h], prev)) = Range(woken[h]) \cup {prev}
      <4>1. ready = [woken EXCEPT ![h] = Append(woken[h], prev)]
        BY <2>2 DEF enqueue_process
      <4>2. woken[h] \in Seq(Process) /\ IsInjective(woken[h])
        BY Zenon, <1>6, <3>1
      <4> HIDE DEF ready, h
      <4> QED BY <3>1, <3>2, <4>1, <4>2, AppendHolds
    <3> HIDE DEF ready
    <3>4. ready \in [Priority -> Seq(Process)]
      BY <1>7, <3>1, <3>3
    <3>5. ASSUME NEW k \in Priority
          PROVE  IsInjective(ready[k]) /\ Range(ready[k]) = TickReady(due, k)
      <4>1. CASE k = h
        BY <1>6, <1>7, <2>2, <3>1, <3>3, <4>1 DEF TickReady
      <4>2. CASE k # h
        BY <1>6, <1>7, <2>2, <3>1, <3>3, <4>2 DEF TickReady
      <4> QED BY <4>1, <4>2
    <3> QED BY <3>4, <3>5
  <2> QED BY <2>1, <2>2
<1>9. \E k \in Priority : ready[k] # <<>>
  <2>1. idle_process \in TickReady(due, PRIORITY_LOW)
    <3>0. pc[idle_process] = "run" /\ priority[idle_process] = PRIORITY_LOW
      <4>1. ~Stopped
        BY Zenon DEF Stopped, scheduler_tick
      <4> QED BY Zenon, <4>1 DEF Inv, CpuMatchesScheduler
    <3>1. CASE idle_process \in Queued
      BY ZenonT(30), <3>0, <3>1 DEF Inv, Queued, StateMatchesList, TickReady
    <3>2. CASE idle_process = current_process
      <4>1. state[idle_process] = "RUNNING" /\ priority[idle_process] = PRIORITY_LOW
        BY Zenon, <3>0, <3>2 DEF Inv, CpuMatchesScheduler
      <4> QED BY Zenon, <3>2, <4>1 DEF TickReady, Preempted
    <3> QED BY <3>1, <3>2 DEF Inv, IdleRunnable
  <2>2. Range(<<>>) = {}
    BY DEF Range
  <2> HIDE DEF ready
  <2> QED BY <1>8, <2>1, <2>2
<1> DEFINE h == HighestReady(ready)
<1>10. /\ h \in Priority /\ ready[h] # <<>> /\ next = Head(ready[h])
       /\ \A j \in Priority : j < h => ready[j] = <<>>
  <2> HIDE DEF ready
  <2> QED BY Zenon, <1>9, HighestReadyHolds DEF pick_next_process
<1> HIDE DEF ready, h
<1>11. /\ next \in Process /\ next \in TickReady(due, h)
       /\ Tail(ready[h]) \in Seq(Process) /\ IsInjective(Tail(ready[h]))
       /\ Range(Tail(ready[h])) = Range(ready[h]) \ {next}
  BY <1>8, <1>10, PopHolds
<1> HIDE DEF next
<1>12. \A k \in Priority : \A p \in TickReady(due, k) : priority[p] = k
  BY Zenon DEF TickReady, Inv, StateMatchesList
<1>13. priority[next] = h /\ next # NULL
  BY Zenon, <1>10, <1>11, <1>12
<1>14. /\ queues' = [ready EXCEPT ![h] = Tail(ready[h])]
       /\ current_process' = next
  BY ZenonT(30), <1>1, <1>8, <1>10, <1>13 DEF dequeue_process
<1>15. queues' \in [Priority -> Seq(Process)]
  BY <1>8, <1>10, <1>11, <1>14
<1>16. \A k \in Priority : /\ IsInjective(queues'[k])
                           /\ Range(queues'[k]) = TickReady(due, k) \ {next}
                           /\ k < h => queues'[k] = <<>>
  <2> TAKE k \in Priority
  <2>1. CASE k = h
    BY <1>8, <1>10, <1>11, <1>14, <2>1, Basics
  <2>2. CASE k # h
    <3>1. queues'[k] = ready[k]
      BY <1>8, <1>10, <1>14, <2>2
    <3>2. next \notin TickReady(due, k)
      BY <1>12, <1>13, <2>2
    <3> QED BY <1>8, <1>10, <3>1, <3>2
  <2> QED BY <2>1, <2>2
<1>17. /\ sleep_list' \in Seq(process_pool) /\ IsInjective(sleep_list')
       /\ Range(sleep_list') = (Range(sleep_list) \ due) \cup {p \in {prev} : slept}
  <2>1. CASE slept
    <3>1. prev \notin Range(waiting)
      BY <1>3, <1>5, <2>1
    <3>2. prev \in process_pool /\ waiting \in Seq(process_pool) /\ IsInjective(waiting)
      BY Zenon, <1>4, <1>5, <2>1
    <3>3. /\ <<prev>> \o waiting \in Seq(process_pool) /\ IsInjective(<<prev>> \o waiting)
          /\ Range(<<prev>> \o waiting) = Range(waiting) \cup {prev}
      BY ONLY <3>1, <3>2, PushHolds
    <3>4. sleep_list' = <<prev>> \o waiting
      BY <1>1, <2>1
    <3>5. {p \in {prev} : slept} = {prev}
      BY Zenon, <2>1
    <3> QED BY Zenon, <1>5, <3>3, <3>4, <3>5
  <2>2. CASE ~slept
    BY Zenon, <1>1, <1>5, <2>2
  <2> QED BY <2>1, <2>2
<1>18. due \in SUBSET process_pool /\ context_switch(prev, next)
  BY Zenon, <1>1, <1>2, <1>14
<1> QED
  <2>1. due = {p \in Range(sleep_list) : tick_count' >= wake_tick[p]}
    BY <1>2
  <2>2. next \in TickReady(due, priority[next])
    BY <1>11, <1>13
  <2>3. \A k \in Priority : /\ IsInjective(queues'[k])
                            /\ Range(queues'[k]) = TickReady(due, k) \ {next}
                            /\ k < priority[next] => queues'[k] = <<>>
    BY ZenonT(30), <1>13, <1>16
  <2>4. Range(sleep_list') = (Range(sleep_list) \ due) \cup
                                {p \in {prev} : p # NULL /\ state[p] = "SLEEPING"}
    BY <1>17
  <2> USE <1>11, <1>18
  <2> WITNESS due \in SUBSET process_pool, next \in Process
  <2> QED BY ZenonT(30), <1>1, <1>14, <1>15, <1>17, <2>1, <2>2, <2>3, <2>4


\* A timer tick keeps the invariant.
LEMMA TickInv ==
    ASSUME Inv, scheduler_tick
    PROVE  Inv'
<1> USE Basics
<1> DEFINE prev == current_process
           slept == prev # NULL /\ state[prev] = "SLEEPING"
<1>1. PICK due \in SUBSET process_pool, next \in Process :
         /\ due = {p \in Range(sleep_list) : tick_count' >= wake_tick[p]}
         /\ queues' \in [Priority -> Seq(Process)]
         /\ sleep_list' \in Seq(process_pool)
         /\ IsInjective(sleep_list') /\ \A k \in Priority : IsInjective(queues'[k])
         /\ next \in TickReady(due, priority[next])
         /\ \A k \in Priority : Range(queues'[k]) = TickReady(due, k) \ {next}
         /\ \A k \in Priority : k < priority[next] => queues'[k] = <<>>
         /\ Range(sleep_list') = (Range(sleep_list) \ due) \cup
               {p \in {prev} : p # NULL /\ state[p] = "SLEEPING"}
         /\ current_process' = next
         /\ context_switch(prev, next)
         /\ state' = [p \in Process |->
                         IF p = next THEN "RUNNING"
                         ELSE IF p \in due \/ (Preempted(prev) /\ p = prev)
                         THEN "READY" ELSE state[p]]
  BY Zenon, TickLists
<1>queues. \A k \in Priority : Range(queues'[k]) = TickReady(due, k) \ {next}
  BY ONLY Zenon, <1>1
<1>sleepers. Range(sleep_list') = (Range(sleep_list) \ due) \cup {p \in {prev} : slept}
  <2>1. {p \in {prev} : p # NULL /\ state[p] = "SLEEPING"} = {p \in {prev} : slept}
    BY Zenon
  <2> QED BY ONLY Zenon, <1>1, <2>1
<1>states. /\ state'[next] = "RUNNING"
           /\ \A p \in Process : p # next =>
                 state'[p] = IF p \in due \/ (Preempted(prev) /\ p = prev)
                             THEN "READY" ELSE state[p]
  BY ONLY ZenonT(30), <1>1
<1>current. current_process' = next
  BY ONLY Zenon, <1>1
<1>2. /\ UNCHANGED <<free_list, priority, wake_tick, page_directory, next_page, pc, deadline>>
      /\ tick_count' \in 0..MAX_TICK
  <2>1. /\ UNCHANGED <<free_list, priority, wake_tick, page_directory, next_page, pc, deadline>>
        /\ tick_count' = IF tick_count < MAX_TICK THEN tick_count + 1 ELSE tick_count
    BY Zenon DEF scheduler_tick
  <2>2. tick_count \in 0..MAX_TICK /\ MAX_TICK \in Nat
    BY Zenon, SchedulerAssumption DEF Inv, TypeOK
  <2> QED BY ONLY <2>1, <2>2
<1>3. /\ cpu' = next
      /\ \A p \in Process : p # next => stack_ptr'[p] = IF p = prev THEN "irq" ELSE stack_ptr[p]
      /\ stack_ptr' \in [Process -> Context]
      /\ cr3' \in 0..NUM_PAGES
      /\ iflag' \in BOOLEAN
  <2>1. CASE prev = next
    BY Zenon, <1>1, <2>1 DEF context_switch, Inv, TypeOK, CpuMatchesScheduler
  <2>2. CASE prev # next
    <3>1. /\ cr3' = DirectoryFor(next) /\ cpu' = next
          /\ stack_ptr' = SavedContexts(prev, next)
          /\ iflag' = (stack_ptr[next] # "entry")
      BY Zenon, <1>1, <2>2 DEF context_switch
    <3>2. cr3' \in 0..NUM_PAGES
      BY <3>1 DEF DirectoryFor, Inv, TypeOK
    <3>3. iflag' \in BOOLEAN
      BY <3>1
    <3> QED BY Zenon, <3>1, <3>2, <3>3 DEF SavedContexts, Inv, TypeOK, Context
  <2> QED BY <2>1, <2>2
\* Where the members of the new lists come from.
<1>4. /\ due \subseteq Range(sleep_list) /\ Range(sleep_list) \subseteq process_pool
      /\ Queued \subseteq Process /\ Queued \cap Range(sleep_list) = {}
      /\ Range(free_list) \cap (Queued \cup Range(sleep_list)) = {}
      /\ \A p \in Queued : state[p] = "READY"
      /\ \A p \in Range(sleep_list) : state[p] = "SLEEPING"
      /\ \A k \in Priority : Range(queues[k]) \subseteq Queued
  <2>1. Range(sleep_list) \subseteq process_pool
    BY Zenon, Members DEF Inv, TypeOK
  <2>2. /\ Queued \cap Range(sleep_list) = {}
        /\ Range(free_list) \cap (Queued \cup Range(sleep_list)) = {}
    BY DEF Inv, PCBOwnedOnce
  <2>3. \A k \in Priority : Range(queues[k]) \subseteq Queued
    <3> SUFFICES ASSUME NEW k \in Priority PROVE Range(queues[k]) \subseteq Queued
      OBVIOUS
    <3>1. Range(queues[k]) \subseteq Process
      BY Zenon, Members DEF Inv, TypeOK
    <3> QED BY <3>1 DEF Queued
  <2>4. \A p \in Queued : state[p] = "READY"
    BY Zenon DEF Inv, StateMatchesList, Queued
  <2>5. \A p \in Range(sleep_list) : state[p] = "SLEEPING"
    BY ZenonT(30) DEF Inv, StateMatchesList
  <2>6. due \subseteq Range(sleep_list) /\ Queued \subseteq Process
    BY Zenon, <1>1 DEF Queued
  <2> QED BY <2>1, <2>2, <2>3, <2>4, <2>5, <2>6
<1>5. /\ prev # NULL /\ prev = cpu /\ prev \in Process
      /\ prev \notin Queued /\ prev \notin Range(sleep_list)
      /\ prev \notin Range(free_list)
      /\ \A p \in Range(free_list) : pc[p] = "run"
      /\ pc[idle_process] = "run"
      /\ cpu \notin Queued /\ cpu \notin Range(sleep_list)
      /\ Preempted(prev) => pc[prev] \in {"run", "sleep_set", "sleep_wait"}
      /\ slept => pc[prev] = "sleep_wait" /\ prev # idle_process
      /\ state[prev] \in {"RUNNING", "SLEEPING", "TERMINATED"}
  <2>0. ~Stopped
    BY Zenon DEF scheduler_tick, Stopped
  <2>1. /\ prev # NULL /\ prev = cpu /\ prev \in Process
        /\ prev \notin Queued /\ prev \notin Range(sleep_list)
        /\ prev \notin Range(free_list)
        /\ cpu \in Process /\ pc[cpu] \in Location
    BY Zenon, <2>0 DEF Inv, TypeOK, CpuMatchesScheduler, PCBOwnedOnce
  <2>2. (\A p \in Range(free_list) : pc[p] = "run") /\ pc[idle_process] = "run"
    BY Zenon, <2>0 DEF Inv, CpuMatchesScheduler
  <2>3. cpu \notin Queued /\ cpu \notin Range(sleep_list)
    BY Zenon, <2>1
  <2>4. Preempted(prev) => pc[prev] \in {"run", "sleep_set", "sleep_wait"}
    BY Zenon, <2>1 DEF Inv, CpuMatchesScheduler, Preempted, Location
  <2>5. slept => pc[prev] = "sleep_wait" /\ prev # idle_process
    BY ZenonT(30), <2>1, <2>2 DEF Inv, CpuMatchesScheduler, Location
  <2>6. state[prev] \in {"RUNNING", "SLEEPING", "TERMINATED"}
    BY ZenonT(30), <2>1 DEF Inv, StateMatchesList
  <2> QED BY Zenon, <2>1, <2>2, <2>3, <2>4, <2>5, <2>6
<1>6. ASSUME NEW k \in Priority, NEW p, p \in TickReady(due, k)
      PROVE  /\ priority[p] = k /\ p \in Process
             /\ p \notin Range(free_list)
             /\ p \in Queued \/ p \in due \/ (Preempted(prev) /\ p = prev)
             /\ pc[p] \in {"run", "sleep_set", "sleep_wait"}
  <2>1. CASE p \in Range(queues[k])
    <3>1. p \in Queued /\ p \in Process
      BY Zenon, <1>4, <2>1
    <3>2. p \notin Range(free_list)
      BY Zenon, <1>4, <3>1
    <3>3. priority[p] = k
      BY Zenon, <2>1 DEF Inv, StateMatchesList
    <3>4. pc[p] \in {"run", "sleep_set", "sleep_wait"}
      BY Zenon, <3>1 DEF Inv, CpuMatchesScheduler
    <3> QED BY Zenon, <3>1, <3>2, <3>3, <3>4
  <2>2. CASE p \in due /\ priority[p] = k
    BY Zenon, <1>4, <2>2 DEF Inv, CpuMatchesScheduler
  <2>3. CASE p = prev /\ Preempted(p) /\ priority[p] = k
    BY <1>5, <2>3 DEF Preempted
  <2> QED BY ZenonT(30), <1>6, <2>1, <2>2, <2>3 DEF TickReady
<1>7. \A p \in Process : p \in Queued' <=> (\E k \in Priority : p \in TickReady(due, k)) /\ p # next
  BY <1>queues DEF Queued
<1>8. /\ next \in Queued \/ next \in due \/ (Preempted(prev) /\ next = prev)
      /\ pc[next] \in {"run", "sleep_set", "sleep_wait"}
      /\ next \notin Range(free_list)
      /\ priority[next] \in Priority
  BY Zenon, <1>1, <1>6 DEF Inv, TypeOK
<1>9. next \notin Range(sleep_list')
  BY Zenon, <1>sleepers, <1>4, <1>5, <1>8 DEF Preempted
<1>10. TypeOK'
  <2>1. state' \in [Process -> process_state_t]
    BY Zenon, <1>1 DEF Inv, TypeOK, process_state_t
  <2> QED BY ZenonT(30), <1>1, <1>2, <1>3, <2>1 DEF Inv, TypeOK
<1>11. PCBOwnedOnce'
  <2>1. \A j, k \in Priority : j # k => Range(queues'[j]) \cap Range(queues'[k]) = {}
    <3> SUFFICES ASSUME NEW j \in Priority, NEW k \in Priority, j # k,
                        NEW p \in Range(queues'[j]), p \in Range(queues'[k])
                 PROVE  FALSE
      OBVIOUS
    <3>1. p \in TickReady(due, j) /\ p \in TickReady(due, k)
      BY <1>queues
    <3>2. priority[p] = j
      BY Zenon, <1>6, <3>1
    <3>3. priority[p] = k
      BY <1>6, <3>1
    <3> QED BY <3>2, <3>3
  <2>2. Range(free_list) \cap (Queued' \cup Range(sleep_list')) = {}
    <3>1. Queued' \subseteq Process
      BY DEF Queued
    <3>2. \A p \in Queued' : p \notin Range(free_list)
      BY <1>6, <1>7, <3>1
    <3>3. \A p \in Range(sleep_list') : p \notin Range(free_list)
      BY ZenonT(30), <1>sleepers, <1>4, <1>5
    <3> QED BY <3>2, <3>3
  <2>3. ASSUME NEW p \in Process, p \in Queued' PROVE p \notin Range(sleep_list')
    <3>1. p \in Queued \/ p \in due \/ (Preempted(prev) /\ p = prev)
      BY ZenonT(30), <1>6, <1>7, <2>3
    <3> QED BY ZenonT(30), <1>sleepers, <1>4, <1>5, <3>1 DEF Preempted
  <2>4. Queued' \cap Range(sleep_list') = {} /\ next \notin Queued'
    BY <1>7, <2>3 DEF Queued
  <2> QED BY Zenon, <1>1, <1>2, <1>8, <1>9, <2>1, <2>2, <2>4 DEF Inv, PCBOwnedOnce
<1>12. NoProcessLost'
  <2> SUFFICES ASSUME NEW p \in Process, p # next, p \notin Queued', p \notin Range(sleep_list'),
                      p \notin Range(free_list)
               PROVE  state'[p] = "TERMINATED"
    BY <1>current, <1>2 DEF NoProcessLost
  <2>1. \A k \in Priority : p \notin TickReady(due, k)
    BY <1>7
  <2>2. priority[p] \in Priority
    BY DEF Inv, TypeOK
  <2>3. p \notin Queued
    BY Zenon, <2>1 DEF Queued, TickReady
  <2>4. p \notin due /\ ~(Preempted(prev) /\ p = prev)
    BY ZenonT(30), <2>1, <2>2 DEF TickReady
  <2>5. p \notin Range(sleep_list)
    BY <1>sleepers, <2>4
  <2>6. p = prev => state[p] = "TERMINATED"
    BY Zenon, <1>sleepers, <1>5, <2>4 DEF Preempted
  <2>7. state[p] = "TERMINATED"
    BY <2>3, <2>5, <2>6 DEF Inv, NoProcessLost
  <2> QED BY <1>states, <2>4, <2>7
<1>13. StateMatchesList'
  <2>1. ASSUME NEW k \in Priority, NEW p \in Range(queues'[k])
        PROVE  state'[p] = "READY" /\ priority'[p] = k
    <3>1. p \in TickReady(due, k) /\ p # next
      BY <1>queues, <2>1
    <3>2. /\ priority[p] = k /\ p \in Process
          /\ p \in Queued \/ p \in due \/ (Preempted(prev) /\ p = prev)
      BY <1>6, <3>1
    <3>3. state'[p] = "READY"
      BY ZenonT(30), <1>states, <1>4, <3>1, <3>2
    <3> QED BY <1>2, <3>2, <3>3
  <2>2. ASSUME NEW p \in Range(sleep_list') PROVE state'[p] = "SLEEPING"
    <3>1. p # next /\ p \in Process
      BY ZenonT(30), <1>sleepers, <1>4, <1>5, <1>9, <2>2
    <3>2. p \notin due /\ ~(Preempted(prev) /\ p = prev) /\ state[p] = "SLEEPING"
      BY ZenonT(30), <1>sleepers, <1>4, <1>5, <2>2 DEF Preempted
    <3> QED BY ZenonT(30), <1>states, <3>1, <3>2
  <2> QED BY ZenonT(30), <1>current, <1>states, <2>1, <2>2 DEF StateMatchesList
<1>14. SavedBeforeResume'
  <2> SUFFICES ASSUME NEW p \in Process, p \in Queued' \/ p \in Range(sleep_list'), p # next
               PROVE  stack_ptr'[p] \in {"entry", "irq"}
    BY ZenonT(30), <1>current, <1>sleepers, <1>3, <1>4, <1>5 DEF SavedBeforeResume, Queued
  <2>1. CASE p = prev
    BY <1>3, <2>1
  <2>2. CASE p # prev
    <3>1. p \in Queued \/ p \in Range(sleep_list)
      BY ZenonT(30), <1>sleepers, <1>4, <1>6, <1>7, <2>2
    <3>2. stack_ptr[p] \in {"entry", "irq"}
      BY Zenon, <1>5, <3>1 DEF Inv, SavedBeforeResume
    <3> QED BY <1>3, <2>2, <3>2
  <2> QED BY <2>1, <2>2
<1>15. IdleRunnable'
  <2>1. idle_process \in TickReady(due, PRIORITY_LOW)
    <3>0. pc[idle_process] = "run" /\ priority[idle_process] = PRIORITY_LOW
      <4>1. ~Stopped
        BY Zenon DEF Stopped, scheduler_tick
      <4> QED BY Zenon, <4>1 DEF Inv, CpuMatchesScheduler
    <3>1. CASE idle_process \in Queued
      BY ZenonT(30), <3>0, <3>1 DEF Inv, Queued, StateMatchesList, TickReady
    <3>2. CASE idle_process = current_process
      <4>1. state[idle_process] = "RUNNING" /\ priority[idle_process] = PRIORITY_LOW
        BY Zenon, <3>0, <3>2 DEF Inv, CpuMatchesScheduler
      <4> QED BY <3>2, <4>1 DEF TickReady, Preempted
    <3> QED BY <3>1, <3>2 DEF Inv, IdleRunnable
  <2> QED BY <1>current, <1>7, <2>1 DEF IdleRunnable
<1>16. CpuMatchesScheduler'
  <2>1. \A p \in Queued' : pc[p] \in {"run", "sleep_set", "sleep_wait"}
    BY ZenonT(30), <1>6, <1>7 DEF Queued
  <2>2. \A p \in Range(sleep_list') : pc[p] = "sleep_wait"
    BY Zenon, <1>sleepers, <1>5 DEF Inv, CpuMatchesScheduler
  <2>3. pc' = pc /\ (\A p \in Range(free_list') : pc'[p] = "run") /\ pc'[idle_process] = "run"
    BY Zenon, <1>2, <1>5
  <2>4. current_process' = cpu' /\ current_process' # NULL /\ pc'[cpu'] # "halted"
    BY Zenon, <1>current, <1>3, <1>8, <2>3
  <2> QED BY ZenonT(30), <1>current, <1>states, <1>2, <1>3, <1>8, <2>1, <2>2, <2>3, <2>4
          DEF Inv, CpuMatchesScheduler
<1> QED BY <1>10, <1>11, <1>12, <1>13, <1>14, <1>15, <1>16 DEF Inv

-----------------------------------------------------------------------------
(* Every step keeps it, and what follows.                                  *)

\* Every step keeps the invariant.
LEMMA StepInv == Inv /\ [Next]_vars => Inv'
<1> SUFFICES ASSUME Inv, [Next]_vars PROVE Inv'
  OBVIOUS
<1>1. CASE Create
  <2>1. PICK prio \in Priority : scheduler_create_process(prio)
    BY <1>1 DEF Create
  <2> QED BY <1>1, <2>1, CreateInv DEF Create
<1>2. CASE sys_fork
  <2>1. priority[current_process] \in Priority
    BY <1>2 DEF sys_fork, Inv, TypeOK
  <2> QED BY <1>2, <2>1, CreateInv DEF sys_fork
<1>3. CASE Cli \/ Sti \/ SleepSetWake \/ SleepSetState \/ SleepReturn \/ EntryReturns
  BY <1>3, LocalStepInv
<1>4. CASE sys_exit
  BY <1>4, ExitInv
<1>5. CASE scheduler_tick
  BY <1>5, TickInv
<1>6. CASE UNCHANGED vars
  BY <1>6, StutterInv
<1> QED BY <1>1, <1>2, <1>3, <1>4, <1>5, <1>6 DEF Next, ProcessStep

\* The invariant holds in every reachable state.
THEOREM SchedulerInvariant == Spec => []Inv
BY InitInv, StepInv, PTL DEF Spec

\* Every variable of the scheduler keeps its type: its lists hold PCBs, its
\* fields the values of their C types.
THEOREM TypeCorrect == Spec => []TypeOK
<1>1. Inv => TypeOK
  BY DEF Inv
<1> QED BY <1>1, SchedulerInvariant, PTL

\* current_process is the process on whose stack the CPU is, and its state
\* goes with the place it has reached in its code.
THEOREM CurrentRuns == Spec => []CpuMatchesScheduler
<1>1. Inv => CpuMatchesScheduler
  BY DEF Inv
<1> QED BY <1>1, SchedulerInvariant, PTL

\* scheduler.c never links a PCB into two lists, or twice into one.
THEOREM OwnedOnce == Spec => []PCBOwnedOnce
<1>1. Inv => PCBOwnedOnce
  BY DEF Inv
<1> QED BY <1>1, SchedulerInvariant, PTL

\* The three lists of scheduler.c never lose a process that has not terminated.
THEOREM NoneLost == Spec => []NoProcessLost
<1>1. Inv => NoProcessLost
  BY DEF Inv
<1> QED BY <1>1, SchedulerInvariant, PTL

\* The state and priority fields of a PCB agree with the list that links it.
THEOREM StatesMatch == Spec => []StateMatchesList
<1>1. Inv => StateMatchesList
  BY DEF Inv
<1> QED BY <1>1, SchedulerInvariant, PTL

\* context_switch never loads the stack pointer of a process that has run past
\* the frame it leads to, as long as no runnable process calls scheduler_yield.
THEOREM ContextSaved == Spec => []SavedBeforeResume
<1>1. Inv => SavedBeforeResume
  BY DEF Inv
<1> QED BY <1>1, SchedulerInvariant, PTL

\* pick_next_process always finds a process in scheduler_tick.
THEOREM AlwaysRunnable == Spec => []IdleRunnable
<1>1. Inv => IdleRunnable
  BY DEF Inv
<1> QED BY <1>1, SchedulerInvariant, PTL

\* scheduler_tick leaves no ready process of a higher priority than the one it
\* starts or resumes.
THEOREM HighestRuns == Spec => TickRunsHighest
<1>1. Inv /\ [Next]_vars =>
        [scheduler_tick =>
            \A k \in Priority : queues'[k] # <<>> => priority'[current_process'] <= k]_vars
  <2> SUFFICES ASSUME Inv, scheduler_tick, NEW k \in Priority, queues'[k] # <<>>
               PROVE  priority'[current_process'] <= k
    OBVIOUS
  <2>1. PICK next \in Process :
           /\ \A j \in Priority : j < priority[next] => queues'[j] = <<>>
           /\ current_process' = next
    BY ZenonT(30), TickLists
  <2>2. priority' = priority /\ priority[next] \in Priority
    BY Zenon DEF scheduler_tick, Inv, TypeOK
  <2> QED BY <2>1, <2>2, Basics DEF Priority
<1> QED BY <1>1, SchedulerInvariant, PTL DEF Spec, TickRunsHighest

-----------------------------------------------------------------------------
(* Address spaces and sleep.                                               *)

\* A process that has its own directory runs in it.  The PCB that
\* scheduler_create_process overwrites is on the free list, so it is never
\* that of the process that creates another.
THEOREM OwnSpace == Spec => []OwnAddressSpaceLoaded
<1>1. Init => OwnAddressSpaceLoaded
  BY Basics DEF Init, OwnAddressSpaceLoaded
<1>2. Inv /\ OwnAddressSpaceLoaded /\ [Next]_vars => OwnAddressSpaceLoaded'
  <2> SUFFICES ASSUME Inv, OwnAddressSpaceLoaded, [Next]_vars PROVE OwnAddressSpaceLoaded'
    OBVIOUS
  <2> USE Basics
  <2>1. ASSUME NEW prio \in Priority, scheduler_create_process(prio), pc[cpu] = "run",
               UNCHANGED current_process
        PROVE  OwnAddressSpaceLoaded'
    <3>1. CASE free_list = <<>>
      BY ZenonT(30), <2>1, <3>1 DEF scheduler_create_process, memory, OwnAddressSpaceLoaded
    <3>2. CASE free_list # <<>>
      <4>1. page_directory' = [page_directory EXCEPT ![Head(free_list)] = NewDirectory]
            /\ cr3' = cr3
        BY Zenon, <2>1, <3>2 DEF scheduler_create_process
      <4>2. Head(free_list) \in Range(free_list)
        BY ZenonT(30), <3>2, PopHolds DEF Inv, TypeOK, PCBOwnedOnce
      <4>3. current_process # Head(free_list)
        BY Zenon, <2>1, <4>2 DEF Inv, PCBOwnedOnce, Stopped
      <4> QED BY <2>1, <4>1, <4>3 DEF Inv, TypeOK, OwnAddressSpaceLoaded
    <3> QED BY <3>1, <3>2
  <2>2. CASE Create
    BY <2>1, <2>2 DEF Create
  <2>3. CASE sys_fork
    <3>1. priority[current_process] \in Priority
      BY <2>3 DEF sys_fork, Inv, TypeOK
    <3> QED BY Zenon, <2>1, <2>3, <3>1 DEF sys_fork
  <2>4. CASE scheduler_tick
    <3>1. PICK next \in Process : current_process' = next /\ context_switch(current_process, next)
      BY ZenonT(30), <2>4, TickLists
    <3>2. page_directory' = page_directory
      BY Zenon, <2>4 DEF scheduler_tick
    <3> QED BY Zenon, <3>1, <3>2 DEF context_switch, DirectoryFor, OwnAddressSpaceLoaded
  <2>5. CASE Cli \/ Sti \/ SleepSetWake \/ SleepSetState \/ SleepReturn \/ EntryReturns
             \/ UNCHANGED vars
    <3>1. UNCHANGED <<current_process, page_directory, cr3>>
      BY Zenon, <2>5 DEF Cli, Sti, SleepSetWake, SleepSetState, SleepReturn, EntryReturns,
                  memory, vars
    <3> QED BY <3>1 DEF OwnAddressSpaceLoaded
  <2>6. CASE sys_exit
    <3>1. UNCHANGED <<page_directory, cr3>> /\ current_process' \in {NULL, current_process}
      BY Zenon, <2>6 DEF sys_exit, scheduler_yield, memory
    <3> QED BY <3>1 DEF OwnAddressSpaceLoaded
  <2> QED BY <2>2, <2>3, <2>4, <2>5, <2>6 DEF Next, ProcessStep
<1> QED BY <1>1, <1>2, SchedulerInvariant, PTL DEF Spec

\* Between the stores of scheduler_sleep_current and its return, wake_tick holds
\* the tick the process asked for.
SleepInv ==
    /\ NoEarlyWake
    /\ \A p \in Process : pc[p] \in {"sleep_set", "sleep_wait"} => wake_tick[p] = deadline[p]

\* A step of the running process keeps SleepInv.
LEMMA ProcessStepSleep ==
    ASSUME MAX_TICK < WAKE_MOD, Inv, SleepInv, ProcessStep
    PROVE  SleepInv'
<1> USE Basics
<1>1. tick_count' = tick_count
  BY Zenon DEF ProcessStep, Create, sys_fork, Cli, Sti, SleepSetWake, SleepSetState, SleepReturn,
         EntryReturns, sys_exit
<1>2. ASSUME NEW prio \in Priority, scheduler_create_process(prio), UNCHANGED <<wake_tick, deadline>>,
             pc[cpu] = "run"
      PROVE  SleepInv'
  <2>1. CASE free_list = <<>>
    BY ZenonT(30), <1>1, <1>2, <2>1 DEF scheduler_create_process, SleepInv, NoEarlyWake
  <2>2. CASE free_list # <<>>
    <3>1. PICK f \in Process :
            /\ f \in Range(free_list)
            /\ state' = [state EXCEPT ![f] = "READY"]
            /\ pc' = pc \/ pc' = [pc EXCEPT ![f] = "run"]
      <4>1. Head(free_list) \in Range(free_list) /\ Head(free_list) \in Process
        BY Zenon, <2>2, PopHolds DEF Inv, TypeOK, PCBOwnedOnce
      <4> QED BY Zenon, <1>2, <2>2, <4>1 DEF scheduler_create_process
    <3>2. pc[f] = "run"
      BY Zenon, <1>2, <3>1 DEF Inv, CpuMatchesScheduler, Stopped
    <3>3. \A p \in Process : /\ pc'[p] \in {"sleep_set", "sleep_wait"} => p # f /\ pc'[p] = pc[p]
                             /\ p # f => state'[p] = state[p]
      BY Zenon, <3>1, <3>2 DEF Inv, TypeOK
    <3> QED BY ZenonT(30), <1>1, <1>2, <3>3 DEF SleepInv, NoEarlyWake
  <2> QED BY <2>1, <2>2
<1>3. CASE Create
  BY <1>2, <1>3 DEF Create
<1>4. CASE sys_fork
  <2>1. priority[current_process] \in Priority
    BY <1>4 DEF sys_fork, Inv, TypeOK
  <2> QED BY Zenon, <1>2, <1>4, <2>1 DEF sys_fork
<1>5. CASE SleepSetWake
  <2>1. current_process = cpu /\ cpu \in Process
    BY Zenon, <1>5 DEF SleepSetWake, Inv, TypeOK, CpuMatchesScheduler
  <2>2. PICK until \in Nat : /\ until <= MAX_TICK
                             /\ wake_tick' = [wake_tick EXCEPT ![cpu] = until % WAKE_MOD]
                             /\ deadline' = [deadline EXCEPT ![cpu] = until]
    <3>1. PICK ms \in SLEEP_MS :
            /\ tick_count + SleepTicks(ms) <= MAX_TICK
            /\ wake_tick' = [wake_tick EXCEPT ![cpu] = (tick_count + SleepTicks(ms)) % WAKE_MOD]
            /\ deadline' = [deadline EXCEPT ![cpu] = tick_count + SleepTicks(ms)]
      BY Zenon, <1>5, <2>1 DEF SleepSetWake
    <3>2. ms \in Nat
      BY SchedulerAssumption
    <3>3. tick_count + SleepTicks(ms) \in Nat
      BY <3>2 DEF SleepTicks, Inv, TypeOK
    <3> QED BY Zenon, <3>1, <3>3
  <2>3. until % WAKE_MOD = until
    BY <2>2, SchedulerAssumption
  <2>4. pc' = [pc EXCEPT ![cpu] = "sleep_set"] /\ state' = state
    BY <1>5 DEF SleepSetWake
  <2> QED BY Zenon, <1>1, <2>1, <2>2, <2>3, <2>4 DEF SleepInv, NoEarlyWake, Inv, TypeOK
<1>6. CASE SleepSetState
  <2>1. current_process = cpu /\ cpu \in Process
    BY Zenon, <1>6 DEF Inv, TypeOK, SleepSetState, CpuMatchesScheduler, Stopped
  <2>2. /\ state' = [state EXCEPT ![cpu] = "SLEEPING"] /\ pc' = [pc EXCEPT ![cpu] = "sleep_wait"]
        /\ pc[cpu] = "sleep_set" /\ UNCHANGED <<wake_tick, deadline>>
    BY Zenon, <1>6, <2>1 DEF SleepSetState
  <2>3. state'[cpu] = "SLEEPING"
    BY Zenon, <2>1, <2>2 DEF Inv, TypeOK
  <2>4. \A p \in Process : p # cpu => state'[p] = state[p] /\ pc'[p] = pc[p]
    BY Zenon, <2>2 DEF Inv, TypeOK
  <2> QED BY ZenonT(30), <1>1, <2>1, <2>2, <2>3, <2>4 DEF SleepInv, NoEarlyWake
<1>7. CASE Cli \/ Sti \/ SleepReturn \/ EntryReturns \/ sys_exit
  <2>1. UNCHANGED <<wake_tick, deadline>>
    BY ZenonT(30), <1>7
    DEF Cli, Sti, SleepReturn, EntryReturns, sys_exit
  <2>2. cpu \in Process /\ current_process \in {NULL, cpu}
    BY Zenon DEF Inv, TypeOK, CpuMatchesScheduler
  <2>3. \A p \in Process : p # cpu => pc'[p] = pc[p] /\ state'[p] = state[p]
    BY ZenonT(30), <1>7, <2>2
    DEF Cli, Sti, SleepReturn, EntryReturns, sys_exit, Inv, TypeOK
  <2>4. pc'[cpu] \notin {"sleep_set", "sleep_wait"}
    BY Zenon, <1>7, <2>2 DEF Cli, Sti, SleepReturn, EntryReturns, sys_exit, Inv, TypeOK
  <2> QED BY Zenon, <1>1, <2>1, <2>2, <2>3, <2>4 DEF SleepInv, NoEarlyWake
<1> QED BY <1>3, <1>4, <1>5, <1>6, <1>7 DEF ProcessStep

\* irq0_handler never counts backwards.
LEMMA TickForward ==
    ASSUME Inv, scheduler_tick
    PROVE  tick_count \in Nat /\ tick_count' \in Nat /\ tick_count' >= tick_count
<1>1. tick_count \in Nat /\ MAX_TICK \in Nat
  BY SchedulerAssumption DEF Inv, TypeOK
<1>2. tick_count' = IF tick_count < MAX_TICK THEN tick_count + 1 ELSE tick_count
  BY Zenon DEF scheduler_tick
<1> QED BY <1>1, <1>2

\* A tick keeps SleepInv: it wakes a process only when its time has come.
LEMMA TickSleep ==
    ASSUME Inv, SleepInv, scheduler_tick
    PROVE  SleepInv'
<1> USE Basics
<1>1. PICK due \in SUBSET process_pool, next \in Process :
         /\ due = {p \in Range(sleep_list) : tick_count' >= wake_tick[p]}
         /\ next \in TickReady(due, priority[next])
         /\ state' = [p \in Process |->
                         IF p = next THEN "RUNNING"
                         ELSE IF p \in due \/ (Preempted(current_process) /\ p = current_process)
                         THEN "READY" ELSE state[p]]
  BY ZenonT(30), TickLists
<1>2. UNCHANGED <<wake_tick, deadline, pc>>
  BY Zenon DEF scheduler_tick
<1>3. ASSUME NEW p \in Process, pc[p] = "sleep_wait", state'[p] # "SLEEPING"
      PROVE  tick_count' >= deadline[p]
  <2>1. CASE state[p] # "SLEEPING"
    <3>1. tick_count >= deadline[p]
      BY <1>3, <2>1 DEF SleepInv, NoEarlyWake
    <3>2. deadline[p] \in Nat
      BY SchedulerAssumption DEF Inv, TypeOK
    <3> QED BY <3>1, <3>2, TickForward
  <2>2. CASE state[p] = "SLEEPING"
    <3>1. p \notin Range(queues[priority[p]]) /\ ~Preempted(p)
      BY Zenon, <2>2 DEF Inv, TypeOK, StateMatchesList, Preempted
    <3>2. p \in due
      BY Zenon, <1>1, <1>3, <2>2, <3>1 DEF TickReady, Preempted
    <3> QED BY ZenonT(30), <1>1, <1>3, <3>2 DEF SleepInv
  <2> QED BY Zenon, <2>1, <2>2
<1> QED BY Zenon, <1>2, <1>3 DEF SleepInv, NoEarlyWake

\* A sleeping process never runs on before its time, as long as the tick count
\* fits the 32 bits of wake_tick; without that assumption the property fails.
THEOREM SleepsLongEnough ==
    ASSUME MAX_TICK < WAKE_MOD
    PROVE  Spec => []NoEarlyWake
<1>1. Init => SleepInv
  BY DEF Init, SleepInv, NoEarlyWake
<1>2. Inv /\ SleepInv /\ [Next]_vars => SleepInv'
  <2> SUFFICES ASSUME Inv, SleepInv, [Next]_vars PROVE SleepInv'
    OBVIOUS
  <2>1. CASE UNCHANGED vars
    BY Zenon, <2>1 DEF vars, SleepInv, NoEarlyWake
  <2> QED BY <2>1, ProcessStepSleep, TickSleep DEF Next
<1>3. SleepInv => NoEarlyWake
  BY DEF SleepInv
<1> QED BY <1>1, <1>2, <1>3, SchedulerInvariant, PTL DEF Spec

=============================================================================
