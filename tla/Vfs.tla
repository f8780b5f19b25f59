-------------------------------- MODULE Vfs --------------------------------
(***************************************************************************)
(* The virtual file system and its ramfs: kernel/fs/vfs.c.  Nodes are      *)
(* numbers, handed out by kmalloc in order and never given back; a path is *)
(* the sequence of its components.  An allocation may fail at any time.    *)
(*                                                                         *)
(* Nothing in the repository calls vfs_dir_add_child and                   *)
(* vfs_dir_remove_child; they are called here the way the comment in       *)
(* ramfs_open describes for O_CREAT (look the name up in the parent, then  *)
(* vfs_create_node and vfs_dir_add_child), and to take a node out of its   *)
(* directory and put it into another.                                      *)
(***************************************************************************)
EXTENDS Integers, Sequences, FiniteSetsExt

CONSTANTS
    KINDS,              \* the nodes that are created, as <<name, type>>
    INITIAL_CAPACITY,   \* 256 in the code
    BYTES,              \* values of bytes that are written
    Junk,               \* what a byte of fresh memory holds
    COUNTS,             \* sizes of reads and writes
    StatSizes,          \* what the word at address 4 may hold
    MAX_NODES,          \* bound: nodes, the root included
    MAX_OPEN_FILES,
    BOUNDS              \* bounds on the nodes, descriptors and sizes of files; a
                        \* behaviour has one of them

NULL == -1
NAMES == {k[1] : k \in KINDS}
TYPES == {"FILE", "DIRECTORY"}
Root == 0
Byte == BYTES \cup {Junk}

ASSUME VfsAssumption ==
    /\ INITIAL_CAPACITY \in Nat \ {0} /\ MAX_NODES \in Nat /\ MAX_OPEN_FILES \in Nat
    /\ \A b \in BOUNDS : /\ b.nodes \in 1..MAX_NODES /\ b.fds \in 1..MAX_OPEN_FILES
                         /\ b.size \in Nat
    /\ \A k \in KINDS : k[2] \in TYPES
    /\ COUNTS \subseteq Nat /\ StatSizes \subseteq Nat
    /\ "." \notin NAMES /\ ".." \notin NAMES

VARIABLES
    nodes,              \* the vfs_node_t records by address
    fd_table,
    out,                \* the last call, what it returned, and the caller's buffer
    bound

vfsVars == <<nodes, fd_table, out, bound>>

NoData == [content |-> <<>>, size |-> NULL]
NodeId == 0..(MAX_NODES - 1)
Fd == 0..(MAX_OPEN_FILES - 1)

\* vfs_create_node: everything but the arguments is zero.
vfs_create_node(name, type, parent) ==
    [type |-> type, name |-> name, parent |-> parent, child_head |-> NULL,
     child_tail |-> NULL, next_sibling |-> NULL, prev_sibling |-> NULL, data |-> NoData]

ClosedFd == [node |-> NULL, offset |-> 0]

vfs_init ==
    /\ nodes = [n \in {Root} |-> vfs_create_node("/", "DIRECTORY", NULL)]
    /\ fd_table = [d \in Fd |-> ClosedFd]
    /\ out = [call |-> <<"init">>, ret |-> 0, buf |-> <<>>]
    /\ bound \in BOUNDS

-----------------------------------------------------------------------------
(* Directories.                                                            *)

\* The nodes that a walk along a link meets from one node on, ending at the first
\* node of stop: the least set with that node and, for each of its nodes where the
\* walk goes on, the next one.
Leads(ns, from, link, stop, met) ==
    /\ from # NULL => from \in met
    /\ \A m \in met \ stop : ns[m][link] \in met \cup {NULL}
Met(ns, from, link, stop) ==
    {n \in DOMAIN ns : \A met \in SUBSET DOMAIN ns :
                          Leads(ns, from, link, stop, met) => n \in met}

Children(dir) == Met(nodes, nodes[dir].child_head, "next_sibling", {})

\* The first child of that name.
vfs_dir_find_child(dir, name) ==
    LET named == {n \in DOMAIN nodes : nodes[n].name = name}
        found == Met(nodes, nodes[dir].child_head, "next_sibling", named) \cap named
    IN  IF nodes[dir].type # "DIRECTORY" \/ found = {} THEN NULL
        ELSE CHOOSE n \in found : TRUE

\* Faulty variant: the new child does not point back at the old tail.
AddWithoutPrev(ns, dir, child) ==
    LET tail == ns[dir].child_tail
    IN  IF ns[dir].type # "DIRECTORY" THEN ns
        ELSE IF ns[dir].child_head = NULL
        THEN [ns EXCEPT ![dir].child_head = child, ![dir].child_tail = child,
                        ![child].parent = dir]
        ELSE [ns EXCEPT ![tail].next_sibling = child, ![dir].child_tail = child,
                        ![child].parent = dir]

vfs_dir_add_child(ns, dir, child) ==
    LET tail == ns[dir].child_tail
    IN  IF ns[dir].type # "DIRECTORY" THEN ns
        ELSE IF ns[dir].child_head = NULL
        THEN [ns EXCEPT ![dir].child_head = child, ![dir].child_tail = child,
                        ![child].parent = dir,
                        ![child].next_sibling = NULL, ![child].prev_sibling = NULL]
        ELSE [ns EXCEPT ![tail].next_sibling = child, ![dir].child_tail = child,
                        ![child].parent = dir,
                        ![child].prev_sibling = tail, ![child].next_sibling = NULL]

vfs_dir_remove_child(ns, dir, child) ==
    LET prev == ns[child].prev_sibling
        next == ns[child].next_sibling
        ahead == IF prev # NULL THEN [ns EXCEPT ![prev].next_sibling = next]
                 ELSE [ns EXCEPT ![dir].child_head = next]
        behind == IF next # NULL THEN [ahead EXCEPT ![next].prev_sibling = prev]
                  ELSE [ahead EXCEPT ![dir].child_tail = prev]
    IN  IF ns[dir].type # "DIRECTORY" THEN ns
        ELSE [behind EXCEPT ![child].parent = NULL, ![child].next_sibling = NULL,
                            ![child].prev_sibling = NULL]

\* Faulty variant: ".." of the root leaves the tree.
StepOut(current, token) ==
    IF current = NULL THEN NULL
    ELSE IF token = "." THEN current
    ELSE IF token = ".." THEN nodes[current].parent
    ELSE vfs_dir_find_child(current, token)

\* One round of the loop of resolve_path.
Step(current, token) ==
    IF current = NULL THEN NULL
    ELSE IF token = "." THEN current
    ELSE IF token = ".." THEN IF nodes[current].parent # NULL THEN nodes[current].parent
                              ELSE current
    ELSE vfs_dir_find_child(current, token)

\* vfs_cwd is the root for ever, so that a relative path starts where an
\* absolute one does.  The copy of an absolute path is given back through a
\* pointer that kmalloc did not return, so paths are relative here.
resolve_path(path) ==
    LET at[i \in 0..Len(path)] == IF i = 0 THEN Root ELSE Step(at[i - 1], path[i])
    IN  at[Len(path)]

vfs_lookup(path) == resolve_path(path)
vfs_mount(path) ==
    LET n == resolve_path(path)
    IN  IF n = NULL \/ nodes[n].type # "DIRECTORY" THEN -1 ELSE 0

\* The nodes that hang on the root, the least set with the root and all nodes whose
\* parent is in it, and their paths.
Hang(S) == Root \in S /\ \A n \in DOMAIN nodes : nodes[n].parent \in S => n \in S
Tree == {n \in DOMAIN nodes : \A S \in SUBSET DOMAIN nodes : Hang(S) => n \in S}
Directories == {n \in Tree : nodes[n].type = "DIRECTORY"}
PathTo(n) ==
    LET path[m \in Tree] == IF m = Root THEN <<>>
                            ELSE Append(path[nodes[m].parent], nodes[m].name)
    IN  path[n]

-----------------------------------------------------------------------------
(* The ramfs.  Memory that kmalloc returns holds Junk.                     *)

Fresh(n) == [i \in 1..n |-> Junk]

ramfs_read(node, count, offset) ==
    LET data == nodes[node].data
        n == IF offset + count > data.size THEN data.size - offset ELSE count
    IN  IF nodes[node].type # "FILE" THEN [ret |-> -1, buf |-> <<>>]
        ELSE IF data = NoData \/ offset >= data.size THEN [ret |-> 0, buf |-> <<>>]
        ELSE [ret |-> n, buf |-> SubSeq(data.content, offset + 1, offset + n)]

\* The capacity is doubled until it is enough.
Doubled(capacity, size) ==
    LET new_capacity[c \in 1..(capacity + 2 * size)] ==
            IF c < size THEN new_capacity[2 * c] ELSE c
    IN  new_capacity[capacity]

Capacity(content, size) ==
    Doubled(IF content = <<>> THEN INITIAL_CAPACITY ELSE Len(content), size)

\* Faulty variant: what the file held is not copied.
GrownEmpty(content, size) == Fresh(Capacity(content, size))

\* krealloc: the old bytes, then those of fresh memory.
Grown(content, size) == content \o Fresh(Capacity(content, size) - Len(content))

\* memcpy into the content, then the size.
Stored(data, buf, offset) ==
    [content |-> [i \in 1..Len(data.content) |->
                     IF i > offset /\ i <= offset + Len(buf) THEN buf[i - offset]
                     ELSE data.content[i]],
     size |-> IF offset + Len(buf) > data.size THEN offset + Len(buf) ELSE data.size]

\* The node's data and the result, for a write whose allocations of the file's
\* data and of its content do (or do not) succeed.
ramfs_write(node, buf, offset, gotData, gotContent) ==
    LET data == IF nodes[node].data = NoData THEN [content |-> <<>>, size |-> 0]
                ELSE nodes[node].data
        new_size == offset + Len(buf)
        grows == new_size > Len(data.content)
        room == IF grows THEN [data EXCEPT !.content = Grown(@, new_size)] ELSE data
    IN  IF nodes[node].type # "FILE" \/ (nodes[node].data = NoData /\ ~gotData)
        THEN [ret |-> -1, data |-> nodes[node].data]
        ELSE IF grows /\ ~gotContent THEN [ret |-> -1, data |-> NoData]
        ELSE [ret |-> Len(buf), data |-> Stored(room, buf, offset)]

\* The size of a file without data is read through a null pointer.
ramfs_stat(node) ==
    IF nodes[node].type # "FILE" THEN {0}
    ELSE IF nodes[node].data = NoData THEN StatSizes ELSE {nodes[node].data.size}

-----------------------------------------------------------------------------
(* The calls.                                                              *)

Return(call, n, bytes) == out' = [call |-> call, ret |-> n, buf |-> bytes]
Buffers == UNION {[1..n -> BYTES] : n \in COUNTS}
FreeFds == {d \in Fd : d < bound.fds /\ fd_table[d].node = NULL}

\* Opening the node a path leads to; NULL also if there is no memory for the
\* copy of the path.
vfs_open(node) ==
    /\ IF node = NULL \/ FreeFds = {}
       THEN Return(<<"open">>, -1, <<>>) /\ UNCHANGED fd_table
       ELSE /\ fd_table' = [fd_table EXCEPT ![Min(FreeFds)] = [node |-> node, offset |-> 0]]
            /\ Return(<<"open">>, Min(FreeFds), <<>>)
    /\ UNCHANGED nodes

vfs_close(d) ==
    /\ IF fd_table[d].node = NULL
       THEN Return(<<"close">>, -1, <<>>) /\ UNCHANGED fd_table
       ELSE Return(<<"close">>, 0, <<>>) /\ fd_table' = [fd_table EXCEPT ![d] = ClosedFd]
    /\ UNCHANGED nodes

\* A result that is positive moves the descriptor.
Advanced(d, n) == IF n > 0 THEN [fd_table EXCEPT ![d].offset = @ + n] ELSE fd_table

vfs_read(d, count) ==
    LET r == IF fd_table[d].node = NULL THEN [ret |-> -1, buf |-> <<>>]
             ELSE ramfs_read(fd_table[d].node, count, fd_table[d].offset)
    IN  /\ Return(<<"read">>, r.ret, r.buf)
        /\ fd_table' = Advanced(d, r.ret)
        /\ UNCHANGED nodes

vfs_write(d, buf, gotData, gotContent) ==
    IF fd_table[d].node = NULL
    THEN Return(<<"write", d>>, -1, <<>>) /\ UNCHANGED <<nodes, fd_table>>
    ELSE LET n == fd_table[d].node
             w == ramfs_write(n, buf, fd_table[d].offset, gotData, gotContent)
         IN  /\ fd_table[d].offset + Len(buf) <= bound.size
             /\ nodes' = [nodes EXCEPT ![n].data = w.data]
             /\ fd_table' = Advanced(d, w.ret)
             /\ Return(<<"write", d>>, w.ret, <<>>)

vfs_stat(node) ==
    /\ IF node = NULL THEN Return(<<"stat">>, -1, <<>>)
       ELSE \E size \in ramfs_stat(node) : Return(<<"stat">>, 0, <<size>>)
    /\ UNCHANGED <<nodes, fd_table>>

-----------------------------------------------------------------------------
(* Creating, removing and moving nodes, in directories of the tree.        *)

Create == \E new \in 1..(bound.nodes - 1), dir \in Directories, kind \in KINDS :
    LET node == vfs_create_node(kind[1], kind[2], dir)
    IN  /\ DOMAIN nodes = 0..(new - 1)
        /\ vfs_dir_find_child(dir, kind[1]) = NULL
        /\ nodes' = vfs_dir_add_child([n \in DOMAIN nodes \cup {new} |->
                                          IF n = new THEN node ELSE nodes[n]], dir, new)
        /\ UNCHANGED <<fd_table, out>>

TakeOut == \E dir \in Directories : \E child \in Children(dir) :
    /\ nodes' = vfs_dir_remove_child(nodes, dir, child)
    /\ UNCHANGED <<fd_table, out>>

PutBack == \E dir \in Directories, child \in DOMAIN nodes :
    /\ child \notin Tree /\ nodes[child].parent = NULL
    /\ vfs_dir_find_child(dir, nodes[child].name) = NULL
    /\ nodes' = vfs_dir_add_child(nodes, dir, child)
    /\ UNCHANGED <<fd_table, out>>

Call ==
    \/ \E node \in {resolve_path(PathTo(n)) : n \in Tree} \cup {NULL} :
          vfs_open(node) \/ vfs_stat(node)
    \/ \E d \in 0..(bound.fds - 1) :
        \/ vfs_close(d)
        \/ \E count \in COUNTS : vfs_read(d, count)
        \/ \E buf \in Buffers, gotData, gotContent \in BOOLEAN :
              vfs_write(d, buf, gotData, gotContent)

VfsNext == (Call \/ Create \/ TakeOut \/ PutBack) /\ UNCHANGED bound

VfsSpec == vfs_init /\ [][VfsNext]_vfsVars

-----------------------------------------------------------------------------
(* Properties.                                                             *)

\* Links lead to nodes that exist, and sizes stay within what was allocated.
VfsTypeOK ==
    LET Link == DOMAIN nodes \cup {NULL}
    IN  /\ \E k \in 1..bound.nodes : DOMAIN nodes = 0..(k - 1)
        /\ \A n \in DOMAIN nodes :
              /\ nodes[n].type \in TYPES
              /\ {nodes[n].parent, nodes[n].child_head, nodes[n].child_tail,
                  nodes[n].next_sibling, nodes[n].prev_sibling} \subseteq Link
              /\ nodes[n].data.content \in Seq(Byte)
              /\ nodes[n].data.size \in {NULL} \cup 0..Len(nodes[n].data.content)
        /\ \A d \in Fd : fd_table[d].node \in Link /\ fd_table[d].offset \in Nat
        /\ out.ret \in Nat \cup {-1} /\ bound \in BOUNDS

\* The two lists of a directory that vfs_dir_add_child and
\* vfs_dir_remove_child maintain agree after any sequence of them: from
\* child_head along next_sibling and from child_tail along prev_sibling exactly the
\* nodes are met whose parent it is, and each link undoes the other.
DirectoryLists ==
    \A dir \in DOMAIN nodes :
        LET children == {n \in DOMAIN nodes : nodes[n].parent = dir}
        IN  /\ Children(dir) = children
            /\ Met(nodes, nodes[dir].child_tail, "prev_sibling", {}) = children
            /\ \A n \in children :
                  LET next == nodes[n].next_sibling
                      prev == nodes[n].prev_sibling
                  IN  /\ next = NULL <=> n = nodes[dir].child_tail
                      /\ prev = NULL <=> n = nodes[dir].child_head
                      /\ next # NULL => nodes[next].prev_sibling = n
                      /\ prev # NULL => nodes[prev].next_sibling = n

\* resolve_path finds every node of the tree under the names on the way to it
\* from the root and no other node, leads back to its directory with "..", never
\* leaves the root that way, and vfs_mount accepts just the directories.
PathsResolve ==
    \A n \in Tree :
        LET path == PathTo(n)
        IN  /\ vfs_lookup(path) = n
            /\ vfs_lookup(path \o <<"..">>) = (IF n = Root THEN Root ELSE nodes[n].parent)
            /\ (vfs_mount(path) = 0) = (n \in Directories)
            /\ \A name \in NAMES : vfs_lookup(path \o <<".", name>>) \in
                  {m \in Tree : nodes[m].parent = n /\ nodes[m].name = name} \cup
                  {NULL}

\* The tree of nodes stays a tree that resolve_path finds its way in.
TreeConsistent == VfsTypeOK /\ DirectoryLists /\ PathsResolve

\* Every call does to the files and descriptors what FileStore allows: bytes
\* written through one descriptor are read through any other, wherever the node
\* was moved meanwhile, while contents grow and allocations fail; a call that
\* fails changes nothing, except that a write that was to make its file longer may
\* empty that file.
FileOf(n) ==
    IF n \notin DOMAIN nodes \/ nodes[n].data = NoData THEN <<>>
    ELSE SubSeq(nodes[n].data.content, 1, nodes[n].data.size)
Files == INSTANCE FileStore WITH
    Node <- NodeId,
    file <- [n \in NodeId |-> FileOf(n)],
    fd <- [d \in {d \in Fd : fd_table[d].node # NULL} |-> fd_table[d]]
ImplementsFiles == Files!FsSpec

-----------------------------------------------------------------------------
(* What a reader might expect and the code does not do.                    *)

\* A write that fails leaves the file as it was.
FailedWriteKeepsFile ==
    [][out'.ret = -1 => \A n \in DOMAIN nodes : FileOf(n)' = FileOf(n)]_vfsVars

\* Only bytes that were written are read.
NoJunkRead == \A i \in DOMAIN out.buf : out.buf[i] # Junk

=============================================================================
