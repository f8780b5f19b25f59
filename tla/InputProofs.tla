---------------------------- MODULE InputProofs ----------------------------
(***************************************************************************)
(* Proofs about Input: what getchar returns, and what the line holds and   *)
(* the screen shows, for any number of scan codes, any size of the line    *)
(* buffer and any screen.                                                  *)
(***************************************************************************)
EXTENDS Input, FiniteSetTheorems, SequenceTheorems, TLAPS

\* Time for the provers.
USE SMTT(20), ZenonT(20)

CELLS == COLS * ROWS

\* The driver: a flag that is set while it waits announces a code later than all
\* it has taken, and a code it has taken but not handled is the last one.
DriverInv ==
    /\ keyboard_scan_code = Len(sent)
    /\ keyboard_key_available_flag = 1 => Len(sent) > 0
    /\ pc \in {"read", "reset"} => keyboard_key_available_flag = 1
    /\ pc = "reset" => Len(taken) > 0 /\ scancode = taken[Len(taken)]
    /\ pc # "reset" /\ keyboard_key_available_flag = 1 =>
          \A i \in DOMAIN taken : taken[i] < Len(sent)
    /\ \A i, j \in DOMAIN taken : i < j => taken[i] < taken[j]

\* How many codes are handled, and which of them are characters.
HANDLED == IF pc = "reset" THEN Len(taken) - 1 ELSE Len(taken)
KeysUpTo(n) == {i \in 1..n : sent[taken[i]] \in CharCodes}

\* The shift codes before a code have a last one, if there are any.
ShiftCodes == {"shift", "unshift"}
HasLast(S) == S = {} \/ \E m \in S : \A k \in S : k <= m

\* The character of the i-th code taken.
Matches(c, i) ==
    /\ c[1] = sent[taken[i]]
    /\ c[1] = "letter" => (c[2] <=> ~(ShiftAt(i) <=> CapsAt(i)))
    /\ c[1] = "symbol" => (c[2] <=> ShiftAt(i))

\* The modifiers are those of the codes handled, and each character that was
\* returned is the one of its code.
CharsInv ==
    /\ shift_pressed <=> ShiftAt(HANDLED + 1)
    /\ caps_lock_on <=> CapsAt(HANDLED + 1)
    /\ \A i \in 1..(HANDLED + 1) : HasLast(Before(i, ShiftCodes))
    /\ Len(got) = Cardinality(KeysUpTo(HANDLED))
    /\ \A i \in KeysUpTo(HANDLED) : Matches(got[Cardinality(KeysUpTo(i))], i)

\* The line and its echo.
LineInv ==
    /\ Len(buffer) + 1 <= BUFFER_SIZE
    /\ wrapped \in BOOLEAN /\ line_start \in 0..(CELLS - 1)
    /\ wrapped \/ vga_index = line_start + Len(buffer)

InputInv == InputTypeOK /\ DriverInv /\ CharsInv /\ LineInv

-----------------------------------------------------------------------------
(* The screen.                                                             *)

LEMMA Cells == COLS \in Nat /\ COLS >= 1 /\ ROWS \in Nat /\ CELLS \in Nat /\ CELLS >= 1
<1>1. COLS \in Nat /\ COLS >= 1 /\ ROWS \in Nat /\ ROWS >= 1
  BY InputAssumption
<1>2. CELLS \in Nat /\ CELLS >= 1
  BY <1>1 DEF CELLS
<1> QED BY <1>1, <1>2

\* The three kinds of characters.
LEMMA Cursor ==
    ASSUME NEW i \in 0..(CELLS - 1), NEW c
    PROVE  /\ vga_putchar(i, c) \in 0..(CELLS - 1)
           /\ c = "backspace" => vga_putchar(i, c) = IF i > 0 THEN i - 1 ELSE i
           /\ c \notin {"enter", "backspace"} =>
                vga_putchar(i, c) = IF i + 1 = CELLS THEN 0 ELSE i + 1
<1>1. /\ c = "enter" => vga_putchar(i, c) = IF (i \div COLS + 1) * COLS >= COLS * ROWS THEN 0
                                            ELSE (i \div COLS + 1) * COLS
      /\ c = "backspace" => vga_putchar(i, c) = IF i > 0 THEN i - 1 ELSE i
      /\ c # "enter" /\ c # "backspace" => vga_putchar(i, c) = (i + 1) % (COLS * ROWS)
  BY Zenon DEF vga_putchar
<1>2. c = "enter" => vga_putchar(i, c) \in 0..(CELLS - 1)
  <2>1. i \div COLS \in Nat
    BY Cells
  <2>2. (i \div COLS + 1) * COLS \in Nat
    BY <2>1, Cells
  <2> QED BY <1>1, <2>2, Cells DEF CELLS
<1>3. c = "backspace" => vga_putchar(i, c) \in 0..(CELLS - 1)
  BY <1>1, Cells
<1>4. (i + 1) % CELLS = IF i + 1 = CELLS THEN 0 ELSE i + 1
  BY Cells
<1>5. c # "enter" /\ c # "backspace" =>
        /\ vga_putchar(i, c) = IF i + 1 = CELLS THEN 0 ELSE i + 1
        /\ vga_putchar(i, c) \in 0..(CELLS - 1)
  BY <1>1, <1>4, Cells DEF CELLS
<1> QED BY <1>1, <1>2, <1>3, <1>5

\* A string leaves the cursor on the screen, and erasing a character moves it back
\* by one.
LEMMA Puts ==
    ASSUME NEW i \in 0..(CELLS - 1), NEW s
    PROVE  vga_puts(i, s) \in 0..(CELLS - 1)
<1>1. vga_putchar(i, s[1]) \in 0..(CELLS - 1)
  BY Cursor
<1>2. vga_putchar(vga_putchar(i, s[1]), s[2]) \in 0..(CELLS - 1)
  BY <1>1, Cursor
<1> QED BY <1>2, Cursor DEF vga_puts

LEMMA Erased ==
    ASSUME NEW i \in 0..(CELLS - 1), i > 0
    PROVE  vga_puts(i, ERASE) = i - 1
<1>1. ERASE[1] = "backspace" /\ ERASE[2] = "space" /\ ERASE[3] = "backspace"
  BY DEF ERASE
<1>2. i - 1 \in 0..(CELLS - 1) /\ vga_putchar(i, "backspace") = i - 1
  BY Cursor, Cells
<1>3. vga_putchar(i - 1, "space") = i
  <2>1. vga_putchar(i - 1, "space") = IF (i - 1) + 1 = CELLS THEN 0 ELSE (i - 1) + 1
    BY <1>2, Cursor
  <2> QED BY <2>1, Cells
<1> QED BY <1>1, <1>2, <1>3 DEF vga_puts

-----------------------------------------------------------------------------
(* Codes.                                                                  *)

\* The modifiers before a code, and the characters up to it, with one more code.
LEMMA OneMore ==
    ASSUME NEW m \in Nat, m >= 1
    PROVE  /\ \A S : Before(m + 1, S) =
                       IF sent[taken[m]] \in S THEN Before(m, S) \cup {m} ELSE Before(m, S)
           /\ KeysUpTo(m) = IF sent[taken[m]] \in CharCodes THEN KeysUpTo(m - 1) \cup {m}
                            ELSE KeysUpTo(m - 1)
           /\ m \notin KeysUpTo(m - 1) /\ \A S : m \notin Before(m, S)
<1>1. 1..(m + 1 - 1) = (1..(m - 1)) \cup {m} /\ 1..m = (1..(m - 1)) \cup {m}
  OBVIOUS
<1>2. ASSUME NEW S
      PROVE  Before(m + 1, S) =
               IF sent[taken[m]] \in S THEN Before(m, S) \cup {m} ELSE Before(m, S)
  BY <1>1 DEF Before
<1>3. KeysUpTo(m) = IF sent[taken[m]] \in CharCodes THEN KeysUpTo(m - 1) \cup {m}
                    ELSE KeysUpTo(m - 1)
  BY <1>1 DEF KeysUpTo
<1>4. m \notin KeysUpTo(m - 1) /\ \A S : m \notin Before(m, S)
  BY DEF KeysUpTo, Before
<1> QED BY Zenon, <1>2, <1>3, <1>4

\* They are finite.
LEMMA Counts ==
    /\ \A n \in Nat : IsFiniteSet(KeysUpTo(n)) /\ Cardinality(KeysUpTo(n)) \in Nat
    /\ \A n \in Nat : \A S : IsFiniteSet(Before(n, S)) /\ Cardinality(Before(n, S)) \in Nat
<1>1. ASSUME NEW n \in Nat
      PROVE  IsFiniteSet(KeysUpTo(n)) /\ Cardinality(KeysUpTo(n)) \in Nat
  <2>1. IsFiniteSet(1..n)
    BY FS_Interval
  <2>2. KeysUpTo(n) \subseteq 1..n
    BY DEF KeysUpTo
  <2>3. IsFiniteSet(KeysUpTo(n))
    BY <2>1, <2>2, FS_Subset
  <2> QED BY <2>3, FS_CardinalityType
<1>2. ASSUME NEW n \in Nat, NEW S
      PROVE  IsFiniteSet(Before(n, S)) /\ Cardinality(Before(n, S)) \in Nat
  <2>1. IsFiniteSet(1..(n - 1))
    BY FS_Interval
  <2>2. Before(n, S) \subseteq 1..(n - 1)
    BY DEF Before
  <2>3. IsFiniteSet(Before(n, S))
    BY <2>1, <2>2, FS_Subset
  <2> QED BY <2>3, FS_CardinalityType
<1> QED BY <1>1, <1>2

\* Sequences with an element more or less.
LEMMA WithOne ==
    ASSUME NEW T, NEW s \in Seq(T), NEW e \in T
    PROVE  Append(s, e) \in Seq(T)
  OBVIOUS

LEMMA WithoutLast ==
    ASSUME NEW T, NEW s \in Seq(T), Len(s) > 0
    PROVE  SubSeq(s, 1, Len(s) - 1) \in Seq(T) /\ Len(SubSeq(s, 1, Len(s) - 1)) = Len(s) - 1
<1>1. PICK n \in Int : n = Len(s) - 1 /\ 0 <= n
  OBVIOUS
<1>2. 1 \in Int /\ \A i \in 1..n : s[i] \in T
  BY <1>1
<1>3. SubSeq(s, 1, n) \in Seq(T)
  BY <1>2, SubSeqProperties, ZenonT(30)
<1>4. CASE 1 <= n
  <2>1. Len(SubSeq(s, 1, n)) = n - 1 + 1
    BY <1>2, <1>4, SubSeqProperties, ZenonT(30)
  <2>2. n - 1 + 1 = n
    OBVIOUS
  <2> QED BY <1>1, <1>3, <2>1, <2>2, Zenon
<1>5. CASE n < 1
  <2>1. SubSeq(s, 1, n) = <<>> /\ Len(<<>>) = 0 /\ n = 0
    BY <1>1, <1>5, SubSeqEmpty
  <2> QED BY <1>1, <1>3, <2>1, Zenon
<1> QED BY <1>1, <1>4, <1>5

\* The last of a set.
LEMMA LastOf ==
    ASSUME NEW S, S \subseteq Int, NEW m \in S, \A k \in S : k <= m
    PROVE  Max(S) = m
<1>1. \E x \in S : \A y \in S : x >= y
  BY SMT
<1>2. Max(S) \in S /\ \A y \in S : Max(S) >= y
  BY <1>1, Zenon DEF Max
<1>3. Max(S) \in Int /\ m \in Int /\ Max(S) <= m /\ Max(S) >= m
  BY <1>2, Zenon
<1> QED BY <1>3

-----------------------------------------------------------------------------
(* The first state.                                                        *)

LEMMA InitInputInv == InputInit => InputInv
<1> SUFFICES ASSUME InputInit PROVE InputInv
  OBVIOUS
<1>1. /\ sent = <<>> /\ keyboard_scan_code = 0 /\ keyboard_key_available_flag = 0
      /\ pc = "check" /\ scancode = 0 /\ taken = <<>> /\ got = <<>>
      /\ buffer = <<>> /\ line_start = vga_index
  BY DEF InputInit
<1>2. shift_pressed = FALSE /\ caps_lock_on = FALSE /\ wrapped = FALSE
  BY Zenon DEF InputInit
<1>3. vga_index \in 0..(CELLS - 1)
  <2>1. 0 \in 0..(CELLS - 1)
    BY Cells
  <2>2. vga_putchar(0, "enter") \in 0..(CELLS - 1)
    BY <2>1, Cursor
  <2> QED BY <2>2, Puts DEF InputInit
<1>4. InputTypeOK
  <2>1. shift_pressed \in BOOLEAN /\ caps_lock_on \in BOOLEAN
    BY <1>2, Zenon
  <2>2. /\ sent \in Seq(CODES) /\ keyboard_scan_code \in 0..Len(sent)
        /\ keyboard_key_available_flag \in {0, 1}
        /\ pc \in {"check", "getchar", "read", "reset", "before_hlt", "hlt"}
        /\ scancode \in 0..Len(sent) /\ buffer \in Seq(Char)
        /\ taken \in Seq(1..Len(sent)) /\ got \in Seq(Char)
    BY <1>1
  <2> QED BY <1>3, <2>1, <2>2 DEF InputTypeOK, CELLS
<1>5. DriverInv
  BY <1>1 DEF DriverInv
<1>6. CharsInv
  <2>1. HANDLED = 0
    BY <1>1 DEF HANDLED
  <2>2. KeysUpTo(0) = {} /\ \A S : Before(1, S) = {}
    BY DEF KeysUpTo, Before
  <2>3. Cardinality({}) = 0
    BY FS_EmptySet
  <2>4. ~ShiftAt(1) /\ ~CapsAt(1)
    BY <2>2, <2>3 DEF ShiftAt, CapsAt
  <2>5. \A i \in 1..(HANDLED + 1) : HasLast(Before(i, ShiftCodes))
    BY <2>1, <2>2 DEF HasLast
  <2>6. (shift_pressed <=> ShiftAt(HANDLED + 1)) /\ (caps_lock_on <=> CapsAt(HANDLED + 1))
    <3>1. HANDLED + 1 = 1
      BY <2>1
    <3> QED BY <1>2, <2>4, <3>1, Zenon
  <2>7. Len(got) = Cardinality(KeysUpTo(HANDLED))
    BY Zenon, <1>1, <2>1, <2>2, <2>3
  <2> QED BY <2>1, <2>2, <2>5, <2>6, <2>7, Zenon DEF CharsInv
<1>7. LineInv
  <2>1. wrapped \in BOOLEAN
    BY <1>2, Zenon
  <2>2. Len(buffer) + 1 <= BUFFER_SIZE /\ vga_index = line_start + Len(buffer)
    BY <1>1, <1>3, Cells, InputAssumption
  <2> QED BY <1>1, <1>3, <2>1, <2>2, Zenon DEF LineInv
<1> QED BY <1>4, <1>5, <1>6, <1>7 DEF InputInv

-----------------------------------------------------------------------------
(* Steps that handle no code.                                              *)

\* What was said of the codes handled stays true while they stay the same.
LEMMA CharsKept ==
    ASSUME CharsInv, HANDLED \in Nat, HANDLED' = HANDLED,
           UNCHANGED <<got, shift_pressed, caps_lock_on>>,
           \A i \in 1..HANDLED : sent'[taken'[i]] = sent[taken[i]]
    PROVE  CharsInv'
<1>1. ASSUME NEW i \in 1..(HANDLED + 1), NEW S
      PROVE  Before(i, S)' = Before(i, S)
  BY <1>1 DEF Before
<1>2. ASSUME NEW i \in 0..HANDLED
      PROVE  KeysUpTo(i)' = KeysUpTo(i)
  BY <1>2 DEF KeysUpTo
<1>3. ASSUME NEW i \in 1..(HANDLED + 1)
      PROVE  HasLast(Before(i, ShiftCodes))' /\ (ShiftAt(i)' <=> ShiftAt(i))
  <2>1. Before(i, ShiftCodes)' = Before(i, ShiftCodes) /\ HasLast(Before(i, ShiftCodes))
    BY <1>1, <1>3 DEF CharsInv
  <2>2. HasLast(Before(i, ShiftCodes))'
    BY <2>1 DEF HasLast
  <2>3. CASE Before(i, ShiftCodes) = {}
    BY <2>1, <2>3, Zenon DEF ShiftAt, ShiftCodes
  <2>4. CASE Before(i, ShiftCodes) # {}
    <3>1. PICK m \in Before(i, ShiftCodes) : \A k \in Before(i, ShiftCodes) : k <= m
      BY <2>1, <2>4 DEF HasLast
    <3>2. Before(i, ShiftCodes) \subseteq Int /\ m \in 1..HANDLED
      BY <1>3, <3>1 DEF Before
    <3>3. Max(Before(i, ShiftCodes)) = m
      BY <3>1, <3>2, LastOf
    <3>4. sent'[taken'[m]] = sent[taken[m]]
      BY <3>2
    <3> QED BY <2>1, <2>2, <3>3, <3>4, Zenon DEF ShiftAt, ShiftCodes
  <2> QED BY <2>2, <2>3, <2>4
<1>4. ASSUME NEW i \in 1..(HANDLED + 1)
      PROVE  CapsAt(i)' <=> CapsAt(i)
  BY <1>1, <1>4, Zenon DEF CapsAt
<1>5. HANDLED + 1 \in 1..(HANDLED + 1) /\ HANDLED \in 0..HANDLED
  OBVIOUS
<1>6. (shift_pressed <=> ShiftAt(HANDLED + 1))' /\ (caps_lock_on <=> CapsAt(HANDLED + 1))'
  <2>1. shift_pressed <=> ShiftAt(HANDLED + 1)
    BY DEF CharsInv
  <2>2. caps_lock_on <=> CapsAt(HANDLED + 1)
    BY DEF CharsInv
  <2>3. PICK h : h = HANDLED + 1
    OBVIOUS
  <2>4. (ShiftAt(h)' <=> ShiftAt(h)) /\ (CapsAt(h)' <=> CapsAt(h)) /\ (HANDLED + 1)' = h
    BY <1>3, <1>4, <1>5, <2>3
  <2>5. ShiftAt(HANDLED + 1)' <=> ShiftAt(HANDLED + 1)
    BY <2>3, <2>4, Zenon DEF ShiftAt, Before
  <2>6. CapsAt(HANDLED + 1)' <=> CapsAt(HANDLED + 1)
    BY <2>3, <2>4, Zenon DEF CapsAt, Before
  <2> QED BY <2>1, <2>2, <2>5, <2>6, Zenon
<1>7. (Len(got) = Cardinality(KeysUpTo(HANDLED)))'
  <2>1. KeysUpTo(HANDLED)' = KeysUpTo(HANDLED)
    BY <1>2, <1>5 DEF KeysUpTo
  <2> QED BY <2>1 DEF CharsInv
<1>8. ASSUME NEW i \in KeysUpTo(HANDLED)
      PROVE  Matches(got[Cardinality(KeysUpTo(i))], i)'
  <2>1. i \in 1..HANDLED /\ i \in 0..HANDLED /\ i \in 1..(HANDLED + 1)
    BY <1>8 DEF KeysUpTo
  <2>2. /\ KeysUpTo(i)' = KeysUpTo(i) /\ sent'[taken'[i]] = sent[taken[i]]
        /\ ShiftAt(i)' <=> ShiftAt(i)
        /\ CapsAt(i)' <=> CapsAt(i)
    BY <1>2, <1>3, <1>4, <2>1
  <2>3. PICK c : c = got[Cardinality(KeysUpTo(i))]
    OBVIOUS
  <2>4. /\ c[1] = sent[taken[i]]
        /\ c[1] = "letter" => (c[2] <=> ~(ShiftAt(i) <=> CapsAt(i)))
        /\ c[1] = "symbol" => (c[2] <=> ShiftAt(i))
    BY <1>8, <2>3, Zenon DEF CharsInv, Matches
  <2> QED BY <2>2, <2>3, <2>4, Zenon DEF Matches
<1>9. (\A i \in KeysUpTo(HANDLED) : Matches(got[Cardinality(KeysUpTo(i))], i))'
  BY <1>2, <1>5, <1>8
<1>10. (\A i \in 1..(HANDLED + 1) : HasLast(Before(i, ShiftCodes)))'
  BY <1>3
<1> QED BY <1>6, <1>7, <1>9, <1>10, Zenon DEF CharsInv

\* The line is left alone.
LEMMA LineKept == LineInv /\ UNCHANGED lineVars => LineInv'
  BY DEF LineInv, lineVars

\* The interpreter and the timer interrupt only move on.
LEMMA MoveStep ==
    ASSUME InputInv,
           Check \/ Wait \/ Hlt \/ irq0_handler \/ UNCHANGED inputVars
    PROVE  InputInv'
<1>1. InputTypeOK /\ DriverInv /\ CharsInv /\ LineInv
  BY DEF InputInv
<1>2. /\ UNCHANGED <<irqVars, keyboard_key_available_flag, driverVars, lineVars>>
      /\ pc' = "reset" <=> pc = "reset"
      /\ pc' = "read" => keyboard_key_available_flag = 1
      /\ pc' \in {"check", "getchar", "read", "reset", "before_hlt", "hlt"}
  <2>1. pc = "read" => keyboard_key_available_flag = 1
    BY <1>1 DEF DriverInv
  <2>2. pc \in {"check", "getchar", "read", "reset", "before_hlt", "hlt"}
    BY <1>1 DEF InputTypeOK
  <2> QED BY <2>1, <2>2 DEF Check, Wait, Hlt, irq0_handler, Woken, inputVars
<1>3. /\ UNCHANGED <<sent, keyboard_scan_code, keyboard_key_available_flag, scancode, taken, got>>
      /\ UNCHANGED <<shift_pressed, caps_lock_on, buffer, vga_index>>
  BY <1>2 DEF irqVars, driverVars, lineVars
<1>4. InputTypeOK'
  BY <1>1, <1>2, <1>3, Zenon DEF InputTypeOK
<1>5. DriverInv'
  BY <1>1, <1>2, <1>3 DEF DriverInv
<1>6. CharsInv'
  <2>1. HANDLED' = HANDLED /\ HANDLED \in Nat
    BY <1>1, <1>2, <1>3 DEF HANDLED, InputTypeOK, DriverInv
  <2> QED BY <1>1, <1>3, <2>1, CharsKept
<1>7. LineInv'
  BY <1>1, <1>2, LineKept
<1> QED BY <1>4, <1>5, <1>6, <1>7 DEF InputInv

\* The keyboard interrupt: the new code comes after all others.
LEMMA KeyStep ==
    ASSUME InputInv, NEW code \in CODES, irq1_handler(code)
    PROVE  InputInv'
<1>1. InputTypeOK /\ DriverInv /\ CharsInv /\ LineInv
  BY DEF InputInv
<1>2. /\ sent' = Append(sent, code) /\ keyboard_scan_code' = Len(sent')
      /\ keyboard_key_available_flag' = 1
      /\ UNCHANGED <<scancode, taken, got, shift_pressed, caps_lock_on, buffer, vga_index>>
      /\ UNCHANGED lineVars
  BY DEF irq1_handler, driverVars, lineVars
<1>3. /\ pc' \in {"check", "getchar", "read", "reset", "before_hlt", "hlt"}
      /\ pc' = "reset" <=> pc = "reset"
  BY <1>1 DEF irq1_handler, Woken, InputTypeOK
<1>4. /\ sent \in Seq(CODES) /\ taken \in Seq(1..Len(sent)) /\ scancode \in 0..Len(sent)
      /\ got \in Seq(Char) /\ buffer \in Seq(Char) /\ vga_index \in 0..(COLS * ROWS - 1)
  BY <1>1 DEF InputTypeOK
<1>5. shift_pressed \in BOOLEAN /\ caps_lock_on \in BOOLEAN
  BY <1>1, Zenon DEF InputTypeOK
<1>6. /\ sent' \in Seq(CODES) /\ Len(sent') = Len(sent) + 1 /\ Len(sent) \in Nat
      /\ \A i \in 1..Len(sent) : sent'[i] = sent[i]
  BY <1>2, <1>4
<1>7. /\ taken \in Seq(1..Len(sent')) /\ scancode \in 0..Len(sent') /\ Len(sent') \in 0..Len(sent')
      /\ \A i \in DOMAIN taken : taken[i] \in 1..Len(sent)
      /\ Len(taken) \in Nat /\ DOMAIN taken = 1..Len(taken)
  BY <1>4, <1>6
<1>8. InputTypeOK'
  BY <1>2, <1>3, <1>4, <1>5, <1>6, <1>7, Zenon DEF InputTypeOK
<1>9. DriverInv'
  <2>1. \A i \in DOMAIN taken : taken[i] < Len(sent')
    BY <1>6, <1>7
  <2> QED BY <1>1, <1>2, <1>3, <1>6, <2>1 DEF DriverInv
<1>10. CharsInv'
  <2>1. HANDLED' = HANDLED /\ HANDLED \in Nat /\ HANDLED <= Len(taken)
    BY <1>1, <1>2, <1>3, <1>7 DEF HANDLED, DriverInv
  <2>2. \A i \in 1..HANDLED : sent'[taken'[i]] = sent[taken[i]]
    BY <1>2, <1>6, <1>7, <2>1
  <2> QED BY Zenon, <1>1, <1>2, <2>1, <2>2, CharsKept
<1>11. LineInv'
  BY <1>1, <1>2, LineKept
<1> QED BY <1>8, <1>9, <1>10, <1>11 DEF InputInv

\* read_scancode takes a code that was not taken before.
LEMMA ReadStep ==
    ASSUME InputInv, Read
    PROVE  InputInv'
<1>1. InputTypeOK /\ DriverInv /\ CharsInv /\ LineInv
  BY DEF InputInv
<1>2. /\ pc = "read" /\ pc' = "reset" /\ scancode' = keyboard_scan_code
      /\ taken' = Append(taken, keyboard_scan_code)
      /\ UNCHANGED <<sent, keyboard_scan_code, keyboard_key_available_flag>>
      /\ UNCHANGED <<got, shift_pressed, caps_lock_on, buffer, vga_index>>
      /\ UNCHANGED lineVars
  BY DEF Read, irqVars, lineVars
<1>3. /\ sent \in Seq(CODES) /\ taken \in Seq(1..Len(sent))
      /\ got \in Seq(Char) /\ buffer \in Seq(Char) /\ vga_index \in 0..(COLS * ROWS - 1)
      /\ keyboard_key_available_flag \in {0, 1}
  BY <1>1 DEF InputTypeOK
<1>4. shift_pressed \in BOOLEAN /\ caps_lock_on \in BOOLEAN
  BY <1>1, Zenon DEF InputTypeOK
<1>5. /\ keyboard_scan_code = Len(sent) /\ Len(sent) > 0 /\ keyboard_key_available_flag = 1
      /\ \A i \in DOMAIN taken : taken[i] < Len(sent)
      /\ \A i, j \in DOMAIN taken : i < j => taken[i] < taken[j]
  BY <1>1, <1>2 DEF DriverInv
<1>6. /\ taken' \in Seq(1..Len(sent)) /\ Len(taken') = Len(taken) + 1 /\ Len(taken) \in Nat
      /\ \A i \in 1..Len(taken) : taken'[i] = taken[i]
      /\ taken'[Len(taken) + 1] = Len(sent)
      /\ DOMAIN taken = 1..Len(taken) /\ DOMAIN taken' = 1..(Len(taken) + 1)
  BY <1>2, <1>3, <1>5
<1>7. InputTypeOK'
  <2>1. scancode' \in 0..Len(sent) /\ keyboard_scan_code \in 0..Len(sent)
    BY <1>2, <1>3, <1>5
  <2> QED BY <1>2, <1>3, <1>4, <1>6, <2>1, Zenon DEF InputTypeOK
<1>8. DriverInv'
  <2>1. \A i, j \in DOMAIN taken' : i < j => taken'[i] < taken'[j]
    <3> SUFFICES ASSUME NEW i \in DOMAIN taken', NEW j \in DOMAIN taken', i < j
                 PROVE  taken'[i] < taken'[j]
      OBVIOUS
    <3>1. i \in 1..Len(taken) /\ taken'[i] = taken[i] /\ (j \in 1..Len(taken) \/ j = Len(taken) + 1)
      BY <1>6
    <3>2. CASE j \in 1..Len(taken)
      BY <1>5, <1>6, <3>1, <3>2
    <3>3. CASE j = Len(taken) + 1
      BY <1>5, <1>6, <3>1, <3>3
    <3> QED BY <3>1, <3>2, <3>3
  <2> QED BY <1>2, <1>5, <1>6, <2>1 DEF DriverInv
<1>9. CharsInv'
  <2>1. HANDLED' = HANDLED /\ HANDLED = Len(taken)
    BY <1>2, <1>6 DEF HANDLED
  <2>2. \A i \in 1..HANDLED : sent'[taken'[i]] = sent[taken[i]]
    BY <1>2, <1>6, <2>1
  <2> QED BY <1>1, <1>2, <1>6, <2>1, <2>2, CharsKept
<1>10. LineInv'
  BY <1>1, <1>2, LineKept
<1> QED BY <1>7, <1>8, <1>9, <1>10 DEF InputInv

-----------------------------------------------------------------------------
(* Handling a code.                                                        *)

\* Shift and caps lock after one more code.
LEMMA ModifiersStep ==
    ASSUME NEW m \in Nat, m >= 1, HasLast(Before(m, ShiftCodes)),
           shift_pressed <=> ShiftAt(m), caps_lock_on <=> CapsAt(m),
           Modifiers(sent[taken[m]])
    PROVE  /\ HasLast(Before(m + 1, ShiftCodes))
           /\ shift_pressed' <=> ShiftAt(m + 1)
           /\ caps_lock_on' <=> CapsAt(m + 1)
<1>1. PICK code : code = sent[taken[m]]
  OBVIOUS
<1>2. /\ \A S : Before(m + 1, S) = IF code \in S THEN Before(m, S) \cup {m} ELSE Before(m, S)
      /\ \A S : m \notin Before(m, S)
  BY <1>1, OneMore
<1>3. \A k \in Before(m, ShiftCodes) : k \in Int /\ k <= m
  BY DEF Before
<1>4. ASSUME code \in ShiftCodes
      PROVE  HasLast(Before(m + 1, ShiftCodes)) /\ (shift_pressed' <=> ShiftAt(m + 1))
  <2>1. Before(m + 1, ShiftCodes) = Before(m, ShiftCodes) \cup {m}
    BY <1>2, <1>4, Zenon
  <2>2. /\ m \in Before(m + 1, ShiftCodes) /\ Before(m + 1, ShiftCodes) \subseteq Int
        /\ \A k \in Before(m + 1, ShiftCodes) : k <= m
    BY <1>3, <2>1
  <2>3. Max(Before(m + 1, ShiftCodes)) = m
    BY <2>2, LastOf
  <2>4. HasLast(Before(m + 1, ShiftCodes))
    BY <2>2, Zenon DEF HasLast
  <2>5. ShiftAt(m + 1) <=> code = "shift"
    BY <1>1, <2>2, <2>3, Zenon DEF ShiftAt, ShiftCodes
  <2>6. shift_pressed' <=> code = "shift"
    <3>1. shift_pressed' <=> (code = "shift" \/ (code # "unshift" /\ shift_pressed))
      BY <1>1, Zenon DEF Modifiers
    <3> QED BY <1>4, <3>1, Zenon DEF ShiftCodes
  <2> QED BY <2>4, <2>5, <2>6, Zenon
<1>5. ASSUME code \notin ShiftCodes
      PROVE  HasLast(Before(m + 1, ShiftCodes)) /\ (shift_pressed' <=> ShiftAt(m + 1))
  <2>1. Before(m + 1, ShiftCodes) = Before(m, ShiftCodes)
    BY <1>2, <1>5, Zenon
  <2>2. ShiftAt(m + 1) <=> ShiftAt(m)
    BY <2>1, Zenon DEF ShiftAt, ShiftCodes
  <2>3. shift_pressed' <=> shift_pressed
    <3>1. shift_pressed' <=> (code = "shift" \/ (code # "unshift" /\ shift_pressed))
      BY <1>1, Zenon DEF Modifiers
    <3> QED BY <1>5, <3>1, Zenon DEF ShiftCodes
  <2> QED BY <2>1, <2>2, <2>3, Zenon
<1>6. /\ HasLast(Before(m + 1, ShiftCodes))
      /\ shift_pressed' <=> ShiftAt(m + 1)
  BY <1>4, <1>5
<1>7. caps_lock_on' <=> CapsAt(m + 1)
  <2>1. IsFiniteSet(Before(m, {"caps"})) /\ Cardinality(Before(m, {"caps"})) \in Nat
    BY Counts
  <2>2. CASE code = "caps"
    <3>1. Before(m + 1, {"caps"}) = Before(m, {"caps"}) \cup {m}
      BY <1>2, <2>2, Zenon
    <3>2. Cardinality(Before(m + 1, {"caps"})) = Cardinality(Before(m, {"caps"})) + 1
      BY <1>2, <2>1, <3>1, FS_AddElement
    <3>3. Cardinality(Before(m + 1, {"caps"})) % 2 = 1 <=> Cardinality(Before(m, {"caps"})) % 2 # 1
      BY <2>1, <3>2
    <3>4. CapsAt(m + 1) <=> ~CapsAt(m)
      BY <3>3, Zenon DEF CapsAt
    <3>5. caps_lock_on' <=> ~caps_lock_on
      BY <1>1, <2>2, Zenon DEF Modifiers
    <3> QED BY <3>4, <3>5, Zenon
  <2>3. CASE code # "caps"
    <3>1. Before(m + 1, {"caps"}) = Before(m, {"caps"})
      BY <1>2, <2>3, Zenon
    <3>2. CapsAt(m + 1) <=> CapsAt(m)
      BY <3>1, Zenon DEF CapsAt
    <3>3. caps_lock_on' <=> caps_lock_on
      BY <1>1, <2>3, Zenon DEF Modifiers
    <3> QED BY <3>2, <3>3, Zenon
  <2> QED BY <2>2, <2>3
<1> QED BY <1>6, <1>7

\* The character of a code.
LEMMA Translation ==
    ASSUME NEW code \in CharCodes, shift_pressed \in BOOLEAN, caps_lock_on \in BOOLEAN
    PROVE  /\ Translated(code) \in Char /\ Translated(code)[1] = code
           /\ code = "letter" => (Translated(code)[2] <=> ~(shift_pressed <=> caps_lock_on))
           /\ code = "symbol" => (Translated(code)[2] <=> shift_pressed)
<1>1. CASE code = "letter"
  <2>1. PICK b \in BOOLEAN : b = (caps_lock_on # shift_pressed)
    BY Zenon
  <2>2. b <=> ~(shift_pressed <=> caps_lock_on)
    BY <2>1, Zenon
  <2>3. Translated(code) = <<code, b>>
    BY <1>1, <2>1, Zenon DEF Translated
  <2>4. Translated(code) \in Char /\ Translated(code)[1] = code /\ Translated(code)[2] = b
    <3>1. <<code, b>> \in {"letter", "symbol"} \X BOOLEAN
      BY <1>1
    <3>2. Translated(code)[1] = code /\ Translated(code)[2] = b
      BY <2>3
    <3> QED BY <2>3, <3>1, <3>2, Zenon DEF Char
  <2> QED BY <1>1, <2>2, <2>4, Zenon
<1>2. CASE code = "symbol"
  <2>1. PICK b \in BOOLEAN : b = shift_pressed
    BY Zenon
  <2>2. Translated(code) = <<code, b>>
    BY <1>2, <2>1, Zenon DEF Translated
  <2>3. Translated(code) \in Char /\ Translated(code)[1] = code /\ Translated(code)[2] = b
    <3>1. <<code, b>> \in {"letter", "symbol"} \X BOOLEAN
      BY <1>2
    <3>2. Translated(code)[1] = code /\ Translated(code)[2] = b
      BY <2>2
    <3> QED BY <2>2, <3>1, <3>2, Zenon DEF Char
  <2>4. code # "letter"
    BY <1>2
  <2>5. b <=> shift_pressed
    BY <2>1, Zenon
  <2> QED BY <2>3, <2>4, <2>5, Zenon
<1>3. CASE code \in {"space", "tab", "enter", "backspace"}
  <2>1. code # "letter" /\ code # "symbol"
    BY <1>3
  <2>2. PICK b \in BOOLEAN : b = FALSE
    BY Zenon
  <2>3. Translated(code) = <<code, b>>
    BY <2>1, <2>2, Zenon DEF Translated
  <2>4. <<code, b>> \in Char
    BY <1>3, <2>2, Zenon DEF Char
  <2>5. Translated(code)[1] = code
    BY <2>3
  <2> QED BY <2>1, <2>3, <2>4, <2>5, Zenon
<1> QED BY <1>1, <1>2, <1>3 DEF CharCodes

\* The interpreter: the cursor follows the line.
LEMMA InterpretStep ==
    ASSUME LineInv, buffer \in Seq(Char), vga_index \in 0..(CELLS - 1), NEW c \in Char, Interpret(c)
    PROVE  LineInv' /\ buffer' \in Seq(Char) /\ vga_index' \in 0..(CELLS - 1)
<1>1. /\ Len(buffer) + 1 <= BUFFER_SIZE /\ Len(buffer) \in Nat /\ BUFFER_SIZE \in Nat
      /\ line_start \in 0..(CELLS - 1)
      /\ BUFFER_SIZE >= 1
  BY InputAssumption DEF LineInv
<1>2. wrapped \in BOOLEAN /\ (wrapped \/ vga_index = line_start + Len(buffer))
  BY Zenon DEF LineInv
<1>3. CASE c[1] = "enter"
  <2>1. ~Accepts(c) /\ c[1] # "backspace"
    BY <1>3 DEF Accepts
  <2>2. /\ buffer' = <<>>
        /\ \E i \in {vga_putchar(vga_index, "enter"), COLS * ROWS - 1} :
              vga_index' = vga_puts(i, PROMPT)
        /\ line_start' = vga_index' /\ wrapped' = FALSE
    BY <1>3, <2>1, Zenon DEF Interpret
  <2>3. /\ vga_putchar(vga_index, "enter") \in 0..(CELLS - 1)
        /\ COLS * ROWS - 1 \in 0..(CELLS - 1)
    BY Cursor, Cells DEF CELLS
  <2>4. vga_index' \in 0..(CELLS - 1)
    BY <2>2, <2>3, Puts
  <2>5. Len(buffer') = 0 /\ buffer' \in Seq(Char) /\ vga_index' = line_start' + Len(buffer')
    BY <2>2, <2>4, Cells
  <2>6. wrapped' \in BOOLEAN
    BY <2>2, Zenon
  <2>7. Len(buffer') + 1 <= BUFFER_SIZE /\ line_start' \in 0..(CELLS - 1)
    BY <1>1, <2>2, <2>4, <2>5
  <2> QED BY <2>4, <2>5, <2>6, <2>7, Zenon DEF LineInv
<1>4. CASE c[1] = "backspace" /\ buffer # <<>>
  <2>1. ~Accepts(c) /\ c[1] # "enter"
    BY <1>4 DEF Accepts
  <2>2. EraseChar
    BY <1>4, <2>1, Zenon DEF Interpret
  <2>3. /\ buffer' = SubSeq(buffer, 1, Len(buffer) - 1) /\ vga_index' = vga_puts(vga_index, ERASE)
        /\ wrapped' = (wrapped \/ vga_index = 0) /\ line_start' = line_start
    BY <2>2, Zenon DEF EraseChar
  <2>4. buffer' \in Seq(Char) /\ Len(buffer') = Len(buffer) - 1 /\ Len(buffer) > 0
    <3>1. buffer # <<>> /\ buffer' = SubSeq(buffer, 1, Len(buffer) - 1)
      BY <1>4, <2>3, Zenon
    <3>2. Len(buffer) > 0
      BY <3>1
    <3> QED BY <3>1, <3>2, WithoutLast
  <2>5. vga_index' \in 0..(CELLS - 1)
    BY <2>3, Puts
  <2>6. vga_index > 0 => vga_index' = vga_index - 1
    BY <2>3, Erased
  <2>7. wrapped' \in BOOLEAN /\ (wrapped' <=> (wrapped \/ vga_index = 0))
    BY <2>3, Zenon
  <2>8. vga_index = line_start + Len(buffer) => vga_index' = line_start' + Len(buffer')
    BY <1>1, <2>3, <2>4, <2>6, Cells
  <2>9. wrapped' \/ vga_index' = line_start' + Len(buffer')
    BY <1>2, <2>7, <2>8, Zenon
  <2>10. Len(buffer') + 1 <= BUFFER_SIZE /\ line_start' \in 0..(CELLS - 1)
    BY <1>1, <2>3, <2>4
  <2> QED BY <2>4, <2>5, <2>7, <2>9, <2>10, Zenon DEF LineInv
<1>5. CASE Accepts(c)
  <2>1. c[1] # "enter" /\ c[1] # "backspace" /\ Len(buffer) < BUFFER_SIZE - 1
    BY <1>5 DEF Accepts
  <2>2. /\ buffer' = Append(buffer, c) /\ vga_index' = vga_putchar(vga_index, c[1])
        /\ wrapped' = (wrapped \/ vga_index' = 0) /\ line_start' = line_start
    BY <1>5, <2>1, Zenon DEF Interpret
  <2>3. buffer' \in Seq(Char) /\ Len(buffer') = Len(buffer) + 1
    BY <2>2
  <2>4. /\ vga_index' \in 0..(CELLS - 1)
        /\ vga_index' = IF vga_index + 1 = CELLS THEN 0 ELSE vga_index + 1
    BY <2>1, <2>2, Cursor
  <2>5. wrapped' \in BOOLEAN /\ (wrapped' <=> (wrapped \/ vga_index' = 0))
    BY <2>2, Zenon
  <2>6. vga_index = line_start + Len(buffer) =>
          vga_index' = 0 \/ vga_index' = line_start' + Len(buffer')
    BY <1>1, <2>2, <2>3, <2>4, Cells
  <2>7. wrapped' \/ vga_index' = line_start' + Len(buffer')
    BY <1>2, <2>5, <2>6, Zenon
  <2>8. Len(buffer') + 1 <= BUFFER_SIZE /\ line_start' \in 0..(CELLS - 1)
    BY <1>1, <2>1, <2>2, <2>3
  <2> QED BY <2>3, <2>4, <2>5, <2>7, <2>8, Zenon DEF LineInv
<1>6. CASE c[1] # "enter" /\ ~(c[1] = "backspace" /\ buffer # <<>>) /\ ~Accepts(c)
  <2>1. UNCHANGED lineVars
    BY <1>6, Zenon DEF Interpret
  <2> QED BY <2>1, LineKept DEF lineVars
<1> QED BY <1>3, <1>4, <1>5, <1>6

\* read_scancode resets the flag and getchar handles the code.
LEMMA ResetStep ==
    ASSUME InputInv, Reset
    PROVE  InputInv'
<1>1. InputTypeOK /\ DriverInv /\ CharsInv /\ LineInv
  BY DEF InputInv
<1>2. PICK code : code = sent[scancode]
  OBVIOUS
<1>3. /\ pc = "reset" /\ keyboard_key_available_flag' = 0 /\ Modifiers(code)
      /\ UNCHANGED <<sent, keyboard_scan_code, scancode, taken>>
  BY <1>2, Zenon DEF Reset, ResetFlag, irqVars
<1>4. /\ sent \in Seq(CODES) /\ taken \in Seq(1..Len(sent)) /\ scancode \in 0..Len(sent)
      /\ keyboard_scan_code \in 0..Len(sent) /\ got \in Seq(Char) /\ buffer \in Seq(Char)
      /\ vga_index \in 0..(CELLS - 1)
  BY <1>1 DEF InputTypeOK, CELLS
<1>5. shift_pressed \in BOOLEAN /\ caps_lock_on \in BOOLEAN
  BY <1>1, Zenon DEF InputTypeOK
<1>6. PICK m \in Nat : m = Len(taken) /\ m >= 1
  BY <1>1, <1>3, <1>4 DEF DriverInv
<1>7. code = sent[taken[m]] /\ code \in CODES
  BY <1>1, <1>2, <1>3, <1>4, <1>6 DEF DriverInv
<1>8. \/ /\ code \notin CharCodes /\ pc' = "getchar" /\ got' = got
         /\ UNCHANGED <<buffer, vga_index, line_start, wrapped, dispatched>>
      \/ /\ code \in CharCodes /\ pc' = "before_hlt"
         /\ got' = Append(got, Translated(code)) /\ Interpret(Translated(code))
  <2>1. code \in {"shift", "unshift", "caps", "break", "unknown"} <=> code \notin CharCodes
    BY <1>7, InputAssumption DEF CharCodes
  <2>2. IF code \in {"shift", "unshift", "caps", "break", "unknown"}
        THEN pc' = "getchar" /\ UNCHANGED <<got, lineVars>>
        ELSE /\ got' = Append(got, Translated(code)) /\ Interpret(Translated(code))
             /\ pc' = "before_hlt"
    BY <1>2, Zenon DEF Reset
  <2>3. CASE code \notin CharCodes
    BY <2>1, <2>2, <2>3, Zenon DEF lineVars
  <2>4. CASE code \in CharCodes
    BY <2>1, <2>2, <2>4, Zenon
  <2> QED BY <2>3, <2>4
<1>9. code \in CharCodes => Translated(code) \in Char
  BY <1>5, Translation
<1>10. LineInv' /\ buffer' \in Seq(Char) /\ vga_index' \in 0..(CELLS - 1)
  <2>1. CASE code \in CharCodes
    BY <1>1, <1>4, <1>8, <1>9, <2>1, InterpretStep
  <2>2. CASE code \notin CharCodes
    <3>1. UNCHANGED <<buffer, vga_index, line_start, wrapped, dispatched>>
      BY <1>8, <2>2, Zenon
    <3> QED BY <1>1, <1>4, <3>1, LineKept DEF lineVars
  <2> QED BY <2>1, <2>2
<1>11. InputTypeOK'
  <2>1. got' \in Seq(Char)
    <3>1. got' = got \/ (got' = Append(got, Translated(code)) /\ Translated(code) \in Char)
      BY <1>8, <1>9, Zenon
    <3>2. got \in Seq(Char)
      BY <1>4, Zenon
    <3>3. CASE got' = got
      BY <3>2, <3>3
    <3>4. CASE got' = Append(got, Translated(code)) /\ Translated(code) \in Char
      BY <3>2, <3>4, WithOne, Zenon
    <3> QED BY <3>1, <3>3, <3>4
  <2>2. pc' = "getchar" \/ pc' = "before_hlt"
    BY <1>8, Zenon
  <2>3. shift_pressed' \in BOOLEAN /\ caps_lock_on' \in BOOLEAN
    BY <1>3, <1>5, Zenon DEF Modifiers
  <2> QED BY <1>3, <1>4, <1>10, <2>1, <2>2, <2>3, Zenon DEF InputTypeOK, CELLS
<1>12. DriverInv'
  <2>1. pc' = "getchar" \/ pc' = "before_hlt"
    BY <1>8, Zenon
  <2> QED BY <1>1, <1>3, <2>1 DEF DriverInv
<1>13. HANDLED = m - 1 /\ HANDLED' = m
  <2>1. pc' # "reset"
    BY <1>8
  <2> QED BY <1>3, <1>6, <2>1 DEF HANDLED
<1>14. /\ HasLast(Before(m + 1, ShiftCodes))
       /\ shift_pressed' <=> ShiftAt(m + 1)
       /\ caps_lock_on' <=> CapsAt(m + 1)
  <2>1. HANDLED + 1 = m /\ m \in 1..m
    BY <1>6, <1>13
  <2>2. /\ HasLast(Before(m, ShiftCodes))
        /\ shift_pressed <=> ShiftAt(m)
        /\ caps_lock_on <=> CapsAt(m)
    BY <1>1, <2>1, Zenon DEF CharsInv
  <2> QED BY <1>3, <1>6, <1>7, <2>2, ModifiersStep
<1>15. /\ \A i : ShiftAt(i)' = ShiftAt(i) /\ CapsAt(i)' = CapsAt(i)
       /\ \A i, S : Before(i, S)' = Before(i, S)
       /\ \A i : KeysUpTo(i)' = KeysUpTo(i)
  BY <1>3, Zenon DEF ShiftAt, CapsAt, Before, KeysUpTo
<1>16. Len(got) = Cardinality(KeysUpTo(m - 1)) /\ Len(got) \in Nat
  BY <1>1, <1>4, <1>13 DEF CharsInv
<1>17. \A i \in KeysUpTo(m - 1) : Matches(got[Cardinality(KeysUpTo(i))], i)
  BY <1>1, <1>13 DEF CharsInv
<1>18. /\ KeysUpTo(m) = IF code \in CharCodes THEN KeysUpTo(m - 1) \cup {m} ELSE KeysUpTo(m - 1)
       /\ m \notin KeysUpTo(m - 1)
  BY <1>6, <1>7, OneMore
<1>19. /\ Len(got') = Cardinality(KeysUpTo(m))
       /\ \A i \in KeysUpTo(m) : Matches(got'[Cardinality(KeysUpTo(i))], i)
  <2>1. CASE code \notin CharCodes
    <3>1. KeysUpTo(m) = KeysUpTo(m - 1) /\ got' = got
      BY <1>8, <1>18, <2>1, Zenon
    <3> QED BY <1>16, <1>17, <3>1, Zenon
  <2>2. CASE code \in CharCodes
    <3>1. KeysUpTo(m) = KeysUpTo(m - 1) \cup {m} /\ got' = Append(got, Translated(code))
      BY <1>8, <1>18, <2>2, Zenon
    <3>2. m - 1 \in Nat /\ IsFiniteSet(KeysUpTo(m - 1))
      BY <1>6, Counts
    <3>3. Cardinality(KeysUpTo(m)) = Len(got) + 1
      <4>1. m \notin KeysUpTo(m - 1)
        BY <1>18, Zenon
      <4>2. Cardinality(KeysUpTo(m - 1) \cup {m}) = Cardinality(KeysUpTo(m - 1)) + 1
        BY <3>2, <4>1, FS_AddElement
      <4> QED BY <1>16, <3>1, <4>2
    <3>4. /\ Len(got') = Len(got) + 1
          /\ got'[Len(got) + 1] = Translated(code)
          /\ \A k \in 1..Len(got) : got'[k] = got[k]
      BY <1>4, <1>9, <2>2, <3>1
    <3>5. ASSUME NEW i \in KeysUpTo(m - 1)
          PROVE  Matches(got'[Cardinality(KeysUpTo(i))], i)
      <4>1. /\ i \in Nat /\ i \in KeysUpTo(i)
            /\ KeysUpTo(i) \subseteq KeysUpTo(m - 1)
        BY <1>6, <3>5 DEF KeysUpTo
      <4>2. Cardinality(KeysUpTo(i)) <= Len(got)
        BY <1>16, <3>2, <4>1, FS_Subset
      <4>3. IsFiniteSet(KeysUpTo(i)) /\ Cardinality(KeysUpTo(i)) \in Nat
        BY <4>1, Counts
      <4>4. Cardinality(KeysUpTo(i)) # 0
        BY <4>1, <4>3, FS_EmptySet
      <4>5. got'[Cardinality(KeysUpTo(i))] = got[Cardinality(KeysUpTo(i))]
        BY <1>16, <3>4, <4>2, <4>3, <4>4
      <4> QED BY <1>17, <3>5, <4>5, Zenon
    <3>6. Matches(got'[Cardinality(KeysUpTo(m))], m)
      <4>1. got'[Cardinality(KeysUpTo(m))] = Translated(code)
        BY <3>3, <3>4, Zenon
      <4>2. (shift_pressed <=> ShiftAt(m)) /\ (caps_lock_on <=> CapsAt(m))
        <5>1. HANDLED + 1 = m
          BY <1>13
        <5> QED BY <1>1, <5>1, Zenon DEF CharsInv
      <4>3. /\ Translated(code)[1] = code
            /\ code = "letter" => (Translated(code)[2] <=> ~(shift_pressed <=> caps_lock_on))
            /\ code = "symbol" => (Translated(code)[2] <=> shift_pressed)
        BY <1>5, <2>2, Translation
      <4>4. Matches(Translated(code), m)
        BY <1>7, <4>2, <4>3, Zenon DEF Matches
      <4> QED BY <4>1, <4>4, Zenon
    <3> QED BY <3>1, <3>3, <3>4, <3>5, <3>6, Zenon
  <2> QED BY <2>1, <2>2
<1>20. CharsInv'
  <2>1. PICK n : n = m + 1
    OBVIOUS
  <2>2. (HANDLED + 1)' = n
    BY <1>13, <2>1
  <2>3. (shift_pressed <=> ShiftAt(HANDLED + 1))' /\ (caps_lock_on <=> CapsAt(HANDLED + 1))'
    <3>1. ShiftAt(HANDLED + 1)' <=> ShiftAt(n)
      BY <1>3, <2>2, Zenon DEF ShiftAt, Before
    <3>2. CapsAt(HANDLED + 1)' <=> CapsAt(n)
      BY <1>3, <2>2, Zenon DEF CapsAt, Before
    <3> QED BY <1>14, <2>1, <3>1, <3>2, Zenon
  <2>4. (\A i \in 1..(HANDLED + 1) : HasLast(Before(i, ShiftCodes)))'
    <3>1. \A i \in 1..m : HasLast(Before(i, ShiftCodes))
      BY <1>1, <1>13 DEF CharsInv
    <3>2. \A i \in 1..n : HasLast(Before(i, ShiftCodes))
      BY <1>14, <2>1, <3>1
    <3>3. \A i : Before(i, ShiftCodes)' = Before(i, ShiftCodes)
      BY <1>15, Zenon
    <3> QED BY <2>2, <3>2, <3>3, Zenon DEF HasLast
  <2>5. (Len(got) = Cardinality(KeysUpTo(HANDLED)))'
    <3>1. KeysUpTo(HANDLED)' = KeysUpTo(m)
      BY <1>3, <1>13, Zenon DEF KeysUpTo
    <3> QED BY <1>19, <3>1
  <2>6. (\A i \in KeysUpTo(HANDLED) : Matches(got[Cardinality(KeysUpTo(i))], i))'
    <3>1. KeysUpTo(HANDLED)' = KeysUpTo(m)
      BY <1>3, <1>13, Zenon DEF KeysUpTo
    <3>2. ASSUME NEW i \in KeysUpTo(m)
          PROVE  Matches(got[Cardinality(KeysUpTo(i))], i)'
      <4>1. PICK c : c = got'[Cardinality(KeysUpTo(i))]
        OBVIOUS
      <4>2. Matches(c, i)
        BY <1>19, <3>2, <4>1, Zenon
      <4>3. Matches(c, i)'
        BY <1>3, <1>15, <4>2, Zenon DEF Matches
      <4>4. (got[Cardinality(KeysUpTo(i))])' = c
        BY <1>15, <4>1, Zenon
      <4> QED BY <4>3, <4>4, Zenon DEF Matches
    <3> QED BY <3>1, <3>2, Zenon
  <2> QED BY <2>3, <2>4, <2>5, <2>6, Zenon DEF CharsInv
<1> QED BY <1>10, <1>11, <1>12, <1>20 DEF InputInv

-----------------------------------------------------------------------------
(* The invariant, and what follows from it.                                *)

LEMMA InputInvariant == InputSpec => []InputInv
<1>1. InputInv /\ [InputNext]_inputVars => InputInv'
  <2> SUFFICES ASSUME InputInv, [InputNext]_inputVars PROVE InputInv'
    OBVIOUS
  <2>1. CASE Check \/ Wait \/ Hlt \/ irq0_handler \/ UNCHANGED inputVars
    BY <2>1, MoveStep
  <2>2. CASE Read
    BY <2>2, ReadStep
  <2>3. CASE Reset
    BY <2>3, ResetStep
  <2>4. CASE \E code \in CODES : irq1_handler(code)
    BY <2>4, KeyStep
  <2> QED BY <2>1, <2>2, <2>3, <2>4 DEF InputNext, Interpreter
<1> QED BY <1>1, InitInputInv, PTL DEF InputSpec

\* Codes are taken at most once and in order, and getchar returns their characters,
\* with the shift and caps lock of the codes taken before (read_scancode and
\* hal_keyboard_getchar against irq1_handler), for any number of codes.
THEOREM CharsMatchCodesAlways == InputSpec => []CharsMatchCodes
<1>1. ASSUME InputInv PROVE CharsMatchCodes
  <2>1. InputTypeOK /\ DriverInv /\ CharsInv
    BY <1>1 DEF InputInv
  <2>2. taken \in Seq(1..Len(sent)) /\ Len(taken) \in Nat /\ DOMAIN taken = 1..Len(taken)
    BY <2>1 DEF InputTypeOK
  <2>3. DOMAIN Handled = 1..HANDLED /\ HANDLED \in Nat
    <3>1. CASE pc = "reset"
      <4>1. Len(taken) > 0
        BY <2>1, <3>1 DEF DriverInv
      <4>2. /\ SubSeq(taken, 1, Len(taken) - 1) \in Seq(1..Len(sent))
            /\ Len(SubSeq(taken, 1, Len(taken) - 1)) = Len(taken) - 1
        BY <2>2, <4>1, WithoutLast
      <4>3. DOMAIN SubSeq(taken, 1, Len(taken) - 1) = 1..(Len(taken) - 1)
        BY <4>2
      <4> QED BY <2>2, <3>1, <4>1, <4>3 DEF Handled, HANDLED
    <3>2. CASE pc # "reset"
      BY <2>2, <3>2 DEF Handled, HANDLED
    <3> QED BY <3>1, <3>2
  <2>4. {i \in DOMAIN Handled : sent[taken[i]] \in CharCodes} = KeysUpTo(HANDLED)
    BY <2>3, Zenon DEF KeysUpTo
  <2>5. \A i, j \in DOMAIN taken : i < j => taken[i] < taken[j]
    BY <2>1 DEF DriverInv
  <2>6. Len(got) = Cardinality(KeysUpTo(HANDLED))
    BY <2>1 DEF CharsInv
  <2>7. ASSUME NEW i \in KeysUpTo(HANDLED)
        PROVE  LET c == got[Cardinality({j \in KeysUpTo(HANDLED) : j <= i})]
               IN  /\ c[1] = sent[taken[i]]
                   /\ c[1] = "letter" => (c[2] <=> ~(ShiftAt(i) <=> CapsAt(i)))
                   /\ c[1] = "symbol" => (c[2] <=> ShiftAt(i))
    <3>1. {j \in KeysUpTo(HANDLED) : j <= i} = KeysUpTo(i)
      BY <2>3, <2>7 DEF KeysUpTo
    <3>2. Matches(got[Cardinality(KeysUpTo(i))], i)
      BY <2>1, <2>7, Zenon DEF CharsInv
    <3> QED BY <3>1, <3>2, Zenon DEF Matches
  <2> QED BY <2>4, <2>5, <2>6, <2>7, Zenon DEF CharsMatchCodes
<1>2. InputInv => CharsMatchCodes
  BY <1>1
<1> QED BY <1>2, InputInvariant, PTL

\* The line fits its buffer, and the echo on the screen matches it
\* (run_command_interpreter and vga_putchar), for a buffer and a screen of any size.
THEOREM EchoMatchesLineAlways == InputSpec => []EchoMatchesLine
<1>1. InputInv => EchoMatchesLine
  BY Zenon DEF InputInv, LineInv, EchoMatchesLine
<1> QED BY <1>1, InputInvariant, PTL

=============================================================================
