------------------------------- MODULE Input -------------------------------
(***************************************************************************)
(* From the keyboard interrupt to a command line: irq1_handler (idt.c),    *)
(* hal_keyboard_getchar (keyboard.c), run_command_interpreter and          *)
(* vga_putchar (main.c), shell_dispatch (commands.c).  The interpreter and *)
(* the interrupt handlers interleave between any two accesses of the       *)
(* shared scan code and flag; a handler runs with interrupts off.          *)
(***************************************************************************)
EXTENDS Integers, Sequences, FiniteSets, FiniteSetsExt

CONSTANTS
    CODES,              \* kinds of scan codes the keyboard sends
    MAX_CODES,          \* bound on the number of scan codes
    BUFFER_SIZE,        \* size of the line buffer
    COLS, ROWS          \* the screen

ASSUME InputAssumption ==
    /\ CODES \subseteq {"letter", "symbol", "space", "tab", "enter", "backspace",
                        "shift", "unshift", "caps", "break", "unknown"}
    /\ MAX_CODES \in Nat
    /\ BUFFER_SIZE \in Nat \ {0}
    /\ COLS \in Nat \ {0} /\ ROWS \in Nat \ {0}

VARIABLES
    sent,               \* the codes that raised an interrupt so far
    keyboard_scan_code, \* position in sent of the code stored last, 0 at first
    keyboard_key_available_flag,
    pc,                 \* where the interpreter is
    scancode,           \* its copy of the stored position
    shift_pressed, caps_lock_on,
    buffer,             \* the line; its length is pos
    vga_index,          \* the cursor
    taken,              \* history: positions of the codes read, in order
    got,                \* history: characters returned by getchar
    line_start,         \* history: cursor after the last prompt
    wrapped,            \* history: the cursor went back to the top since then
    dispatched          \* history: number of lines given to shell_dispatch

irqVars == <<sent, keyboard_scan_code>>
driverVars == <<scancode, shift_pressed, caps_lock_on, taken, got>>
lineVars == <<buffer, vga_index, line_start, wrapped, dispatched>>
inputVars == <<irqVars, keyboard_key_available_flag, pc, driverVars, lineVars>>

Char == {"letter", "symbol"} \X BOOLEAN
          \cup {<<k, FALSE>> : k \in {"space", "tab", "enter", "backspace"}}

InputTypeOK ==
    /\ sent \in Seq(CODES)
    /\ keyboard_scan_code \in 0..Len(sent)
    /\ keyboard_key_available_flag \in {0, 1}
    /\ pc \in {"check", "getchar", "read", "reset", "before_hlt", "hlt"}
    /\ scancode \in 0..Len(sent)
    /\ shift_pressed \in BOOLEAN /\ caps_lock_on \in BOOLEAN
    /\ buffer \in Seq(Char)
    /\ taken \in Seq(1..Len(sent))
    /\ got \in Seq(Char)
    /\ vga_index \in 0..(COLS * ROWS - 1)

-----------------------------------------------------------------------------
(* The screen: characters only move the cursor.                            *)

\* vga_putchar: the cursor after a character.
vga_putchar(i, c) ==
    CASE c = "enter" -> IF (i \div COLS + 1) * COLS >= COLS * ROWS THEN 0
                        ELSE (i \div COLS + 1) * COLS
      [] c = "backspace" -> IF i > 0 THEN i - 1 ELSE i
      [] OTHER -> (i + 1) % (COLS * ROWS)

\* vga_puts: the characters of a string, one after the other; those the
\* interpreter prints have three.
vga_puts(i, s) == vga_putchar(vga_putchar(vga_putchar(i, s[1]), s[2]), s[3])

PROMPT == <<"space", "symbol", "space">>
ERASE == <<"backspace", "space", "backspace">>

InputInit ==
    /\ sent = <<>> /\ keyboard_scan_code = 0 /\ keyboard_key_available_flag = 0
    /\ pc = "check"
    /\ scancode = 0 /\ taken = <<>> /\ got = <<>>
    /\ shift_pressed = FALSE /\ caps_lock_on = FALSE
    /\ buffer = <<>> /\ dispatched = 0
    /\ vga_index = vga_puts(vga_putchar(0, "enter"), PROMPT)
    /\ line_start = vga_index /\ wrapped = FALSE

-----------------------------------------------------------------------------
(* Interrupts.  Any of them ends a hlt.                                    *)

Woken == IF pc = "hlt" THEN "check" ELSE pc

irq1_handler(code) ==
    /\ Len(sent) < MAX_CODES
    /\ sent' = Append(sent, code)
    /\ keyboard_scan_code' = Len(sent')
    /\ keyboard_key_available_flag' = 1
    /\ pc' = Woken
    /\ UNCHANGED <<driverVars, lineVars>>

\* Faulty variant: the timer interrupt stays masked.
Irq0Masked == UNCHANGED inputVars

\* The timer interrupt, as far as the interpreter can tell.
irq0_handler ==
    /\ pc' = Woken
    /\ UNCHANGED <<irqVars, keyboard_key_available_flag, driverVars, lineVars>>

-----------------------------------------------------------------------------
(* The interpreter.                                                        *)

\* The loop of the interpreter looks at the flag.
Check ==
    /\ pc = "check"
    /\ pc' = IF keyboard_key_available_flag = 1 THEN "getchar" ELSE "before_hlt"
    /\ UNCHANGED <<irqVars, keyboard_key_available_flag, driverVars, lineVars>>

\* getchar and read_scancode wait for the flag.
Wait ==
    /\ pc = "getchar"
    /\ keyboard_key_available_flag = 1
    /\ pc' = "read"
    /\ UNCHANGED <<irqVars, keyboard_key_available_flag, driverVars, lineVars>>

\* read_scancode copies the scan code, and resets the flag one step later.
Read ==
    /\ pc = "read"
    /\ scancode' = keyboard_scan_code
    /\ taken' = Append(taken, keyboard_scan_code)
    /\ pc' = "reset"
    /\ UNCHANGED <<irqVars, keyboard_key_available_flag, shift_pressed,
                   caps_lock_on, got, lineVars>>

\* The character for a code that has one: letters follow caps lock and shift,
\* which invert each other; symbols follow shift.
Translated(code) ==
    CASE code = "letter" -> <<code, caps_lock_on # shift_pressed>>
      [] code = "symbol" -> <<code, shift_pressed>>
      [] OTHER -> <<code, FALSE>>

\* Faulty variant: one character too many.
AcceptsFull(c) == c[1] \in {"letter", "symbol", "space"} /\ Len(buffer) < BUFFER_SIZE

\* Printable characters are kept while there is room for them and the final 0.
Accepts(c) == c[1] \in {"letter", "symbol", "space"} /\ Len(buffer) < BUFFER_SIZE - 1

\* Faulty variant: the cursor stays behind the erased character.
EraseCharShort ==
    /\ buffer' = SubSeq(buffer, 1, Len(buffer) - 1)
    /\ vga_index' = vga_putchar(vga_putchar(vga_index, "backspace"), "space")
    /\ wrapped' = (wrapped \/ vga_index = 0)
    /\ UNCHANGED <<line_start, dispatched>>

EraseChar ==
    /\ buffer' = SubSeq(buffer, 1, Len(buffer) - 1)
    /\ vga_index' = vga_puts(vga_index, ERASE)
    /\ wrapped' = (wrapped \/ vga_index = 0)
    /\ UNCHANGED <<line_start, dispatched>>

\* The interpreter's use of the character c that getchar returns.  What the
\* command of a line prints leaves the cursor at the start of a row or at the end
\* of the screen.
Interpret(c) ==
    CASE c[1] = "enter" ->
            /\ buffer' = <<>>
            /\ dispatched' = dispatched + 1
            /\ \E i \in {vga_putchar(vga_index, "enter"), COLS * ROWS - 1} :
                  vga_index' = vga_puts(i, PROMPT)
            /\ line_start' = vga_index' /\ wrapped' = FALSE
      [] c[1] = "backspace" /\ buffer # <<>> -> EraseChar
      [] Accepts(c) ->
            /\ buffer' = Append(buffer, c)
            /\ vga_index' = vga_putchar(vga_index, c[1])
            /\ wrapped' = (wrapped \/ vga_index' = 0)
            /\ UNCHANGED <<line_start, dispatched>>
      [] OTHER -> UNCHANGED lineVars

\* Faulty variant: releasing shift is ignored like any other release.
ModifiersStuck(code) ==
    /\ shift_pressed' = (code = "shift" \/ shift_pressed)
    /\ caps_lock_on' = (IF code = "caps" THEN ~caps_lock_on ELSE caps_lock_on)

Modifiers(code) ==
    /\ shift_pressed' = (code = "shift" \/ (code # "unshift" /\ shift_pressed))
    /\ caps_lock_on' = (IF code = "caps" THEN ~caps_lock_on ELSE caps_lock_on)

\* Faulty variant: the flag stays set.
FlagKept == UNCHANGED keyboard_key_available_flag

ResetFlag == keyboard_key_available_flag' = 0

\* read_scancode resets the flag; getchar then handles its copy of the code:
\* modifiers, releases and unknown codes make it wait for the next one.
Reset ==
    /\ pc = "reset"
    /\ ResetFlag
    /\ LET code == sent[scancode]
       IN  /\ Modifiers(code)
           /\ IF code \in {"shift", "unshift", "caps", "break", "unknown"}
              THEN pc' = "getchar" /\ UNCHANGED <<got, lineVars>>
              ELSE /\ got' = Append(got, Translated(code))
                   /\ Interpret(Translated(code))
                   /\ pc' = "before_hlt"
    /\ UNCHANGED <<irqVars, scancode, taken>>

Hlt ==
    /\ pc = "before_hlt"
    /\ pc' = "hlt"
    /\ UNCHANGED <<irqVars, keyboard_key_available_flag, driverVars, lineVars>>

Interpreter == Check \/ Wait \/ Read \/ Reset \/ Hlt

InputNext == Interpreter \/ irq0_handler \/ \E code \in CODES : irq1_handler(code)
InputSpec == InputInit /\ [][InputNext]_inputVars
InputFairSpec == InputSpec /\ WF_inputVars(Interpreter) /\ WF_inputVars(irq0_handler)

-----------------------------------------------------------------------------
(* Properties.                                                             *)

\* Every scan code is taken at most once and in the order of the interrupts,
\* wherever they fall between the accesses of the driver, and the characters
\* getchar returned are those of the codes taken: shift counts if the last shift
\* code before a key was a press, caps lock if an odd number of its presses came
\* before.
Before(i, codes) == {j \in 1..(i - 1) : sent[taken[j]] \in codes}
ShiftAt(i) ==
    LET b == Before(i, {"shift", "unshift"})
    IN  b # {} /\ sent[taken[Max(b)]] = "shift"
CapsAt(i) == Cardinality(Before(i, {"caps"})) % 2 = 1
CharCodes == {"letter", "symbol", "space", "tab", "enter", "backspace"}
Handled == IF pc = "reset" THEN SubSeq(taken, 1, Len(taken) - 1) ELSE taken
CharsMatchCodes ==
    LET keys == {i \in DOMAIN Handled : sent[taken[i]] \in CharCodes}
    IN  /\ \A i, j \in DOMAIN taken : i < j => taken[i] < taken[j]
        /\ Len(got) = Cardinality(keys)
        /\ \A i \in keys :
              LET c == got[Cardinality({j \in keys : j <= i})]
              IN  /\ c[1] = sent[taken[i]]
                  /\ c[1] = "letter" => (c[2] <=> ~(ShiftAt(i) <=> CapsAt(i)))
                  /\ c[1] = "symbol" => (c[2] <=> ShiftAt(i))

\* The line and its final 0 fit the buffer, and the cursor is as many cells
\* behind the prompt as the line has characters, until the line wraps to the top
\* of the screen.
EchoMatchesLine ==
    /\ InputTypeOK
    /\ Len(buffer) + 1 <= BUFFER_SIZE
    /\ wrapped \/ vga_index = line_start + Len(buffer)

\* A key that is signalled is taken: the interpreter may look at the flag just
\* before it is set and then halt, but the next timer interrupt wakes it.
KeyTaken == keyboard_key_available_flag = 1 ~> keyboard_key_available_flag = 0

-----------------------------------------------------------------------------
(* What comments in the source say and the code does not do.               *)

\* "Signal that a key is available": the flag is set while the code stored last
\* has not been read.
SignalledUntilRead ==
    keyboard_scan_code # 0 /\ (taken = <<>> \/ taken[Len(taken)] # keyboard_scan_code)
        => keyboard_key_available_flag = 1

\* "Store the scan code in a buffer for the keyboard driver": no code is
\* stored over one the driver has not read.
NoneOverwritten == \A i \in DOMAIN taken : taken[i] = i

\* "Non-blocking keyboard check": the interpreter is in getchar only while a
\* key is available.
NonBlocking == pc = "getchar" => keyboard_key_available_flag = 1

=============================================================================
