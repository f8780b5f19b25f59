------------------------------ MODULE Registry ------------------------------
(***************************************************************************)
(* Things that are found by name: the device list of                       *)
(* kernel/drivers/driver.c and the command table of                        *)
(* kernel/shell/commands.c.  Names and input lines are strings in memory,  *)
(* compared with strcmp of Strings.  Nothing in the repository registers a *)
(* device; callers here register, unregister and look up in any order.     *)
(***************************************************************************)
EXTENDS Strings

CONSTANTS
    RODATA,             \* the memory with the names and the lines
    DEVICES,            \* device_t structures
    DEV_NAME,           \* the address of a device's name, or NULLP
    DEV_OPS,            \* the operations a device has; {"none"} if it has no table
    COMMANDS,           \* commands that are registered, as addresses of names
    MAX_COMMANDS,
    LINES,              \* input lines, as addresses
    NAME_LENGTH,        \* characters of a command name that are looked at
    SPACE               \* the value of ' '

ASSUME RegistryAssumption ==
    /\ NULLP \notin DEVICES
    /\ \A c \in ToSet(COMMANDS) : Len(Text(RODATA, c)) < NAME_LENGTH

VARIABLES
    device_list, next,  \* the head of the list and the links
    command_table,      \* addresses of the names that are registered
    registered,         \* history: devices whose registration is in force
    ran                 \* history: [line, command, args] of the last dispatch

regVars == <<device_list, next, command_table, registered, ran>>

RegInit ==
    /\ device_list = NULLP /\ next = [d \in DEVICES |-> NULLP]
    /\ command_table = <<>>
    /\ registered = {} /\ ran = [line |-> NULLP]

\* The devices in the order of the list.
Listed ==
    LET follow(c, i) ==
            LET n == IF c = <<>> THEN device_list ELSE next[Last(c)]
            IN  IF n = NULLP THEN c ELSE Append(c, n)
    IN  FoldLeft(follow, <<>>, [i \in 1..(Cardinality(DEVICES) + 1) |-> i])

\* The position of a name in the list, 0 if there is none.
Position(name) == SelectInSeq(Listed, LAMBDA d : strcmp(mem, DEV_NAME[d], name) = 0)
driver_lookup(name) ==
    IF name = NULLP \/ Position(name) = 0 THEN NULLP ELSE Listed[Position(name)]

\* driver_read, driver_write and driver_ioctl: the device whose operation is called.
driver_call(op, name) ==
    LET dev == driver_lookup(name)
    IN  IF dev = NULLP \/ op \notin DEV_OPS[dev] THEN NULLP ELSE dev

\* Faulty variant: a name may be registered again.
RegisterAgain(d) ==
    /\ DEV_NAME[d] # NULLP /\ DEV_OPS[d] # {"none"}
    /\ next' = [next EXCEPT ![d] = device_list]
    /\ device_list' = d
    /\ registered' = registered \cup {d}
    /\ UNCHANGED <<command_table, ran>>

\* A device without a name or without a table of operations is refused.
driver_register(d) ==
    /\ DEV_NAME[d] # NULLP /\ DEV_OPS[d] # {"none"}
    /\ driver_lookup(DEV_NAME[d]) = NULLP
    /\ next' = [next EXCEPT ![d] = device_list]
    /\ device_list' = d
    /\ registered' = registered \cup {d}
    /\ UNCHANGED <<command_table, ran>>

driver_unregister(name) ==
    LET i == IF name = NULLP THEN 0 ELSE Position(name)
    IN  /\ i # 0
        /\ IF i > 1 THEN /\ next' = [next EXCEPT ![Listed[i - 1]] = next[Listed[i]]]
                         /\ UNCHANGED device_list
           ELSE device_list' = next[Listed[i]] /\ UNCHANGED next
        /\ registered' = registered \ {Listed[i]}
        /\ UNCHANGED <<command_table, ran>>

shell_register_command(name) ==
    /\ Len(command_table) < MAX_COMMANDS
    /\ command_table' = Append(command_table, name)
    /\ UNCHANGED <<device_list, next, registered, ran>>

\* Faulty variant: the name is compared only as far as the word goes.
MatchesPrefix(name, word, n) == strncmp(mem, name, word, n) = 0

\* strcmp with the copy of the word, n characters and a 0.
Matches(name, word, n) ==
    strncmp(mem, name, word, n) = 0 /\ mem[name + n] = 0

\* The word up to the first space, cut to what the array name holds, and the
\* arguments behind one space; the first command of that name is run.
shell_dispatch(line) ==
    LET n == Rounds(NAME_LENGTH, LAMBDA i : mem[line + i] \in {0, SPACE})
        j == SelectInSeq(command_table, LAMBDA c : Matches(c, line, n))
    IN  /\ ran' = [line |-> line,
                   command |-> IF j = 0 THEN NULLP ELSE command_table[j],
                   args |-> IF mem[line + n] = SPACE THEN line + n + 1 ELSE line + n]
        /\ UNCHANGED <<device_list, next, command_table, registered>>

\* kernel_main registers the commands before the first line is read.
RegNext ==
    /\ \/ \E d \in DEVICES : driver_register(d) \/ driver_unregister(DEV_NAME[d])
       \/ /\ Len(command_table) < Len(COMMANDS)
          /\ shell_register_command(COMMANDS[Len(command_table) + 1])
       \/ /\ Len(command_table) = Len(COMMANDS)
          /\ \E line \in LINES : shell_dispatch(line)
    /\ UNCHANGED strVars

\* The string functions on small memories, the registries on their own.
LibInit == StrInit([Address -> CHARS] \cup TEXTS \cup {RODATA}) /\ RegInit
LibNext == IF mem = RODATA THEN RegNext ELSE StrNext /\ UNCHANGED regVars
LibSpec == LibInit /\ [][LibNext]_<<strVars, regVars>>

-----------------------------------------------------------------------------
(* Properties.                                                             *)

\* The links lead to devices, the table holds names of commands.
RegTypeOK ==
    /\ StrTypeOK
    /\ device_list \in DEVICES \cup {NULLP} /\ next \in [DEVICES -> DEVICES \cup {NULLP}]
    /\ command_table \in Seq(ToSet(COMMANDS)) /\ Len(command_table) <= MAX_COMMANDS
    /\ registered \subseteq DEVICES /\ ran.line \in LINES \cup {NULLP}

\* After any registrations and removals the list holds each registered device
\* once, no two of one name, and an operation on a name reaches the device that was
\* registered under it, if it has the operation, and no other.
DevicesFound ==
    /\ RegTypeOK
    /\ IsInjective(Listed) /\ ToSet(Listed) = registered
    /\ mem = RODATA => \A d \in DEVICES, op \in {"read", "ioctl"} :
          {driver_call(op, DEV_NAME[d])} \ {NULLP} =
              {e \in registered : /\ DEV_NAME[d] # NULLP
                                  /\ Text(mem, DEV_NAME[e]) = Text(mem, DEV_NAME[d])
                                  /\ op \in DEV_OPS[e]}

\* A line runs the command whose name is its first word, whichever other names
\* begin with that word or it with them, and gives it the rest of the line;
\* a line whose first word is no command runs nothing.
Word(t) == SubSeq(t, 1, Min({i \in 1..(Len(t) + 1) : i = Len(t) + 1 \/ t[i] = SPACE}) - 1)
RunsFirstWord ==
    ran.line # NULLP =>
        LET t == Text(mem, ran.line)
            named == {c \in ToSet(COMMANDS) : Text(mem, c) = Word(t)}
        IN  /\ IF named = {} THEN ran.command = NULLP ELSE ran.command \in named
            /\ ran.command # NULLP =>
                  Text(mem, ran.args) = SubSeq(t, Len(Word(t)) + 2, Len(t))

=============================================================================
