----------------------------- MODULE VfsProofs -----------------------------
(***************************************************************************)
(* The tree of the file system stays consistent and its files are          *)
(* sequences of bytes, for any number of nodes, descriptors and bytes.     *)
(***************************************************************************)
EXTENDS Vfs, TLAPS

\* Time for the provers.
USE SMTT(20), ZenonT(20)

-----------------------------------------------------------------------------
(* The invariant, of the nodes as a value.                                 *)

Links(ns) == DOMAIN ns \cup {NULL}
Data == [content : Seq(Byte), size : Int]
Record(L) == [type : TYPES, name : NAMES \cup {"/"}, parent : L, child_head : L,
              child_tail : L, next_sibling : L, prev_sibling : L, data : Data]

\* Nodes are numbered in the order of their creation.
Numbered(S) == \E k \in Nat : S = 0..(k - 1)

\* Links lead to nodes; the root is a directory without a parent.
Typed(ns) ==
    /\ Numbered(DOMAIN ns)
    /\ Root \in DOMAIN ns /\ ns \in [DOMAIN ns -> Record(Links(ns))]
    /\ ns[Root].parent = NULL /\ ns[Root].type = "DIRECTORY"
    /\ \A n \in DOMAIN ns : n # Root => ns[n].name \in NAMES

Kids(ns, d) == {n \in DOMAIN ns : ns[n].parent = d}

\* Nodes of K that contain the first and are closed under a link are all of K.
Reaches(ns, from, link, K) ==
    \A met \in SUBSET K : Leads(ns, from, link, {}, met) => met = K

\* A child and its neighbours.
Linked(ns, K, d, n) ==
    /\ ns[n].next_sibling \in K \cup {NULL} /\ ns[n].prev_sibling \in K \cup {NULL}
    /\ ns[n].next_sibling = NULL <=> n = ns[d].child_tail
    /\ ns[n].prev_sibling = NULL <=> n = ns[d].child_head
    /\ ns[n].next_sibling # NULL => ns[ns[n].next_sibling].prev_sibling = n
    /\ ns[n].prev_sibling # NULL => ns[ns[n].prev_sibling].next_sibling = n

\* The list of a directory's children.
Listed(ns, d) ==
    LET K == Kids(ns, d)
    IN  /\ ns[d].child_head \in K \cup {NULL} /\ ns[d].child_tail \in K \cup {NULL}
        /\ \A n \in K : Linked(ns, K, d, n)
        /\ Reaches(ns, ns[d].child_head, "next_sibling", K)
        /\ Reaches(ns, ns[d].child_tail, "prev_sibling", K)

\* Only directories have children, and of each name one.
Named(ns) ==
    /\ \A n \in DOMAIN ns : ns[n].parent # NULL => ns[ns[n].parent].type = "DIRECTORY"
    /\ \A m, n \in DOMAIN ns :
          ns[m].parent = ns[n].parent /\ ns[m].parent # NULL /\ ns[m].name = ns[n].name
             => m = n

\* The content has room for the size, and behind it nobody wrote.
Filled(data) ==
    /\ data.size \in 0..Len(data.content)
    /\ \A i \in 1..Len(data.content) : i > data.size => data.content[i] = Junk

\* Files are filled that way; a directory has no data.
Sized(ns) ==
    \A n \in DOMAIN ns :
        /\ ns[n].data # NoData => Filled(ns[n].data)
        /\ ns[n].type = "DIRECTORY" => ns[n].data = NoData

TreeInv(ns) ==
    /\ Typed(ns) /\ Named(ns) /\ Sized(ns)
    /\ \A d \in DOMAIN ns : Listed(ns, d)

-----------------------------------------------------------------------------
(* The lists.                                                              *)

\* NULL is no node.
LEMMA NotNull == ASSUME NEW ns, Typed(ns) PROVE NULL \notin DOMAIN ns
<1>1. PICK k \in Nat : DOMAIN ns = 0..(k - 1)
  BY Zenon DEF Typed, Numbered
<1> QED BY ONLY <1>1 DEF NULL

\* What the fields of a node are.
LEMMA FieldsOf ==
    ASSUME NEW ns, Typed(ns), NEW n \in DOMAIN ns
    PROVE  /\ ns[n] \in Record(Links(ns)) /\ ns[n].type \in TYPES
           /\ ns[n].parent \in Links(ns) /\ ns[n].child_head \in Links(ns)
           /\ ns[n].child_tail \in Links(ns) /\ ns[n].next_sibling \in Links(ns)
           /\ ns[n].prev_sibling \in Links(ns) /\ ns[n].data \in Data
<1>1. ns[n] \in Record(Links(ns))
  BY Zenon DEF Typed
<1> QED BY ONLY <1>1 DEF Record

\* The walk along the list of a directory meets its children.
LEMMA WalkMeets ==
    ASSUME NEW ns, NEW from, NEW K \in SUBSET DOMAIN ns, from \in K \cup {NULL},
           NEW link, \A n \in K : ns[n][link] \in K \cup {NULL},
           Reaches(ns, from, link, K)
    PROVE  Met(ns, from, link, {}) = K
<1>1. Leads(ns, from, link, {}, K)
  BY Zenon DEF Leads
<1>2. ASSUME NEW n \in Met(ns, from, link, {}) PROVE n \in K
  BY Zenon, <1>1, <1>2 DEF Met
<1>3. ASSUME NEW n \in K, NEW met \in SUBSET DOMAIN ns, Leads(ns, from, link, {}, met)
      PROVE  n \in met
  <2>1. Leads(ns, from, link, {}, met \cap K)
    <3>1. from # NULL => from \in met \cap K
      BY Zenon, <1>3 DEF Leads
    <3>2. ASSUME NEW m \in met \cap K PROVE ns[m][link] \in (met \cap K) \cup {NULL}
      <4>1. ns[m][link] \in met \cup {NULL}
        BY Zenon, <1>3 DEF Leads
      <4>2. ns[m][link] \in K \cup {NULL}
        BY Zenon
      <4> QED BY Zenon, <4>1, <4>2
    <3> QED BY Zenon, <3>1, <3>2 DEF Leads
  <2>2. met \cap K = K
    <3>1. met \cap K \in SUBSET K
      BY Zenon
    <3> QED BY Zenon, <2>1, <3>1 DEF Reaches
  <2> QED BY Zenon, <1>3, <2>2
<1>4. ASSUME NEW n \in K PROVE n \in Met(ns, from, link, {})
  BY Zenon, <1>3, <1>4 DEF Met
<1> QED BY Zenon, <1>2, <1>4

\* TreeInv says of every directory what DirectoryLists does.
LEMMA ListsAgree == ASSUME TreeInv(nodes) PROVE DirectoryLists
<1> SUFFICES ASSUME NEW d \in DOMAIN nodes
             PROVE  /\ Children(d) = Kids(nodes, d)
                    /\ Met(nodes, nodes[d].child_tail, "prev_sibling", {}) = Kids(nodes, d)
                    /\ \A n \in Kids(nodes, d) : Linked(nodes, Kids(nodes, d), d, n)
  BY Zenon DEF DirectoryLists, Kids, Linked
<1> DEFINE K == Kids(nodes, d)
<1>1. K \in SUBSET DOMAIN nodes
  BY Zenon DEF Kids
<1>2. Listed(nodes, d)
  BY Zenon DEF TreeInv
<1>3. \A n \in K : Linked(nodes, K, d, n)
  BY Zenon, <1>2 DEF Listed
<1>4. \A n \in K : nodes[n]["next_sibling"] \in K \cup {NULL}
                   /\ nodes[n]["prev_sibling"] \in K \cup {NULL}
  BY Zenon, <1>3 DEF Linked
<1> HIDE DEF K
<1>5. Children(d) = K
  BY Zenon, <1>1, <1>2, <1>4, WalkMeets DEF Children, Listed, K
<1>6. Met(nodes, nodes[d].child_tail, "prev_sibling", {}) = K
  BY Zenon, <1>1, <1>2, <1>4, WalkMeets DEF Listed, K
<1> QED BY Zenon, <1>3, <1>5, <1>6 DEF K

\* A list stays one if its children and their links do.
LEMMA ListKept ==
    ASSUME NEW ns, NEW new, NEW d, Listed(ns, d), Kids(new, d) = Kids(ns, d),
           new[d].child_head = ns[d].child_head, new[d].child_tail = ns[d].child_tail,
           \A n \in Kids(ns, d) : /\ new[n].next_sibling = ns[n].next_sibling
                                  /\ new[n].prev_sibling = ns[n].prev_sibling
    PROVE  Listed(new, d)
<1> DEFINE K == Kids(ns, d)
<1>1. ASSUME NEW n \in K PROVE Linked(new, K, d, n)
  <2>1. Linked(ns, K, d, n)
    BY Zenon DEF Listed
  <2>2. ns[n].next_sibling # NULL => ns[n].next_sibling \in K
    BY Zenon, <2>1 DEF Linked
  <2>3. ns[n].prev_sibling # NULL => ns[n].prev_sibling \in K
    BY Zenon, <2>1 DEF Linked
  <2> QED BY Zenon, <2>1, <2>2, <2>3 DEF Linked
<1>2. \A n \in K : new[n]["next_sibling"] = ns[n]["next_sibling"]
                   /\ new[n]["prev_sibling"] = ns[n]["prev_sibling"]
  BY Zenon
<1>3. Reaches(new, new[d].child_head, "next_sibling", K)
  <2> SUFFICES ASSUME NEW met \in SUBSET K,
                      Leads(new, new[d].child_head, "next_sibling", {}, met)
               PROVE  met = K
    BY Zenon DEF Reaches
  <2>1. Leads(ns, ns[d].child_head, "next_sibling", {}, met)
    BY Zenon, <1>2 DEF Leads
  <2> QED BY Zenon, <2>1 DEF Listed, Reaches
<1>4. Reaches(new, new[d].child_tail, "prev_sibling", K)
  <2> SUFFICES ASSUME NEW met \in SUBSET K,
                      Leads(new, new[d].child_tail, "prev_sibling", {}, met)
               PROVE  met = K
    BY Zenon DEF Reaches
  <2>1. Leads(ns, ns[d].child_tail, "prev_sibling", {}, met)
    BY Zenon, <1>2 DEF Leads
  <2> QED BY Zenon, <2>1 DEF Listed, Reaches
<1>5. new[d].child_head \in K \cup {NULL} /\ new[d].child_tail \in K \cup {NULL}
  BY Zenon DEF Listed
<1> QED BY Zenon, <1>1, <1>3, <1>4, <1>5 DEF Listed

\* A directory without children has no first and no last one; others have both.
LEMMA EndsOf ==
    ASSUME NEW ns, NEW d, Listed(ns, d), NULL \notin Kids(ns, d)
    PROVE  /\ ns[d].child_head = NULL <=> Kids(ns, d) = {}
           /\ ns[d].child_tail = NULL <=> Kids(ns, d) = {}
<1> DEFINE K == Kids(ns, d)
<1>1. ASSUME ns[d].child_head = NULL PROVE K = {}
  <2>1. Leads(ns, ns[d].child_head, "next_sibling", {}, {})
    BY Zenon, <1>1 DEF Leads
  <2>2. {} \in SUBSET K
    BY Zenon
  <2> QED BY Zenon, <2>1, <2>2 DEF Listed, Reaches
<1>2. ASSUME ns[d].child_tail = NULL PROVE K = {}
  <2>1. Leads(ns, ns[d].child_tail, "prev_sibling", {}, {})
    BY Zenon, <1>2 DEF Leads
  <2>2. {} \in SUBSET K
    BY Zenon
  <2> QED BY Zenon, <2>1, <2>2 DEF Listed, Reaches
<1>3. ns[d].child_head \in K \cup {NULL} /\ ns[d].child_tail \in K \cup {NULL}
  BY Zenon DEF Listed
<1> QED BY Zenon, <1>1, <1>2, <1>3

\* The search of a directory finds the child of that name, if there is one.
LEMMA FindIs ==
    ASSUME TreeInv(nodes), NEW d \in DOMAIN nodes, NEW name
    PROVE  /\ \A k \in Kids(nodes, d) :
                 nodes[k].name = name => vfs_dir_find_child(d, name) = k
           /\ (\A k \in Kids(nodes, d) : nodes[k].name # name)
                 => vfs_dir_find_child(d, name) = NULL
<1> DEFINE K == Kids(nodes, d)
           named == {n \in DOMAIN nodes : nodes[n].name = name}
           found == Met(nodes, nodes[d].child_head, "next_sibling", named) \cap named
<1>1. K \in SUBSET DOMAIN nodes /\ Listed(nodes, d) /\ NULL \notin DOMAIN nodes
  BY Zenon, NotNull DEF Kids, TreeInv
<1>2. \A n \in K : nodes[n]["next_sibling"] \in K \cup {NULL}
  BY Zenon, <1>1 DEF Listed, Linked
<1>3. nodes[d].child_head \in K \cup {NULL}
  BY Zenon, <1>1 DEF Listed
<1>4. found \subseteq K
  <2>1. Leads(nodes, nodes[d].child_head, "next_sibling", named, K)
    BY Zenon, <1>2, <1>3 DEF Leads
  <2> QED BY Zenon, <1>1, <2>1 DEF Met
<1>5. ASSUME NEW k \in K, nodes[k].name = name
      PROVE  vfs_dir_find_child(d, name) = k
  <2>1. \A n \in K : n \in named => n = k
    BY Zenon, <1>1, <1>5 DEF Kids, TreeInv, Named
  <2>2. ASSUME NEW met \in SUBSET DOMAIN nodes,
               Leads(nodes, nodes[d].child_head, "next_sibling", named, met),
               k \notin met
        PROVE  FALSE
    <3>1. nodes[d].child_head # NULL => nodes[d].child_head \in met \cap K
      BY Zenon, <1>3, <2>2 DEF Leads
    <3>2. ASSUME NEW m \in met \cap K
          PROVE  nodes[m]["next_sibling"] \in (met \cap K) \cup {NULL}
      <4>1. m \notin named
        BY Zenon, <2>1, <2>2
      <4>2. nodes[m]["next_sibling"] \in met \cup {NULL}
        BY Zenon, <2>2, <4>1 DEF Leads
      <4>3. nodes[m]["next_sibling"] \in K \cup {NULL}
        BY Zenon, <1>2
      <4> QED BY Zenon, <4>2, <4>3
    <3>3. Leads(nodes, nodes[d].child_head, "next_sibling", {}, met \cap K)
      BY Zenon, <3>1, <3>2 DEF Leads
    <3>4. met \cap K \in SUBSET K
      BY Zenon
    <3>5. met \cap K = K
      BY Zenon, <1>1, <3>3, <3>4 DEF Listed, Reaches
    <3> QED BY Zenon, <1>5, <2>2, <3>5
  <2>3. k \in found
    BY Zenon, <1>1, <1>5, <2>2 DEF Met
  <2>4. found = {k}
    BY Zenon, <1>4, <2>1, <2>3
  <2>5. nodes[d].type = "DIRECTORY"
    BY Zenon, <1>1, <1>5 DEF Kids, TreeInv, Named
  <2> HIDE DEF found
  <2>6. (CHOOSE n \in found : TRUE) = k
    BY Zenon, <2>4
  <2> QED BY Zenon, <2>3, <2>5, <2>6 DEF vfs_dir_find_child, found
<1>6. ASSUME \A k \in K : nodes[k].name # name
      PROVE  vfs_dir_find_child(d, name) = NULL
  <2>1. found = {}
    BY Zenon, <1>4, <1>6
  <2> QED BY Zenon, <2>1 DEF vfs_dir_find_child
<1> QED BY Zenon, <1>5, <1>6

\* A node that was in no directory becomes the last child of dir.
Joins(ns, new, dir, child) ==
    /\ DOMAIN new = DOMAIN ns \cup {child}
    /\ \A n \in DOMAIN ns \ {child} :
          /\ new[n].parent = ns[n].parent
          /\ new[n].child_head = (IF n = dir /\ ns[n].child_head = NULL THEN child
                                  ELSE ns[n].child_head)
          /\ new[n].child_tail = (IF n = dir THEN child ELSE ns[n].child_tail)
          /\ new[n].next_sibling = (IF n = ns[dir].child_tail THEN child
                                    ELSE ns[n].next_sibling)
          /\ new[n].prev_sibling = ns[n].prev_sibling
    /\ new[child].parent = dir /\ new[child].next_sibling = NULL
    /\ new[child].prev_sibling = ns[dir].child_tail
    /\ child \in DOMAIN ns => /\ ns[child].parent = NULL
                              /\ new[child].child_head = ns[child].child_head
                              /\ new[child].child_tail = ns[child].child_tail
    /\ child \notin DOMAIN ns => /\ new[child].child_head = NULL
                                 /\ new[child].child_tail = NULL

\* A child leaves its directory.
Leaves(ns, new, dir, child) ==
    /\ DOMAIN new = DOMAIN ns
    /\ \A n \in DOMAIN ns :
          /\ new[n].parent = (IF n = child THEN NULL ELSE ns[n].parent)
          /\ new[n].child_head = (IF n = dir /\ ns[child].prev_sibling = NULL
                                  THEN ns[child].next_sibling ELSE ns[n].child_head)
          /\ new[n].child_tail = (IF n = dir /\ ns[child].next_sibling = NULL
                                  THEN ns[child].prev_sibling ELSE ns[n].child_tail)
          /\ n # child => new[n].next_sibling = (IF n = ns[child].prev_sibling
                                                 THEN ns[child].next_sibling
                                                 ELSE ns[n].next_sibling)
          /\ n # child => new[n].prev_sibling = (IF n = ns[child].next_sibling
                                                 THEN ns[child].prev_sibling
                                                 ELSE ns[n].prev_sibling)

\* The lists after a node joined a directory.
LEMMA JoinedLists ==
    ASSUME NEW ns, Typed(ns), \A d \in DOMAIN ns : Listed(ns, d),
           NEW new, NEW dir \in DOMAIN ns, NEW child, child # NULL, child # dir,
           Joins(ns, new, dir, child)
    PROVE  \A d \in DOMAIN new : Listed(new, d)
<1> DEFINE K == Kids(ns, dir)
           tail == ns[dir].child_tail
<1>1. NULL \notin DOMAIN ns /\ K \subseteq DOMAIN ns /\ child \notin K
  BY Zenon, NotNull DEF Kids, Joins
<1>2. \A n \in DOMAIN ns : ns[n].parent \in DOMAIN ns \cup {NULL}
  BY Zenon, FieldsOf DEF Links
<1>3. tail \in K \cup {NULL} /\ tail # child
  BY Zenon, <1>1 DEF Listed
<1>p. /\ DOMAIN new = DOMAIN ns \cup {child} /\ new[child].parent = dir
      /\ \A n \in DOMAIN ns \ {child} : new[n].parent = ns[n].parent
      /\ child \in DOMAIN ns => ns[child].parent = NULL
  BY Zenon DEF Joins
<1>4. ASSUME NEW d \in DOMAIN ns, d # dir PROVE Listed(new, d)
  <2>1. Kids(new, d) = Kids(ns, d)
    <3>1. ASSUME NEW n PROVE n \in Kids(new, d) <=> n \in Kids(ns, d)
      BY ONLY Zenon, <1>1, <1>4, <1>p DEF Kids
    <3> QED BY Zenon, <3>1
  <2>2. new[d].child_head = ns[d].child_head /\ new[d].child_tail = ns[d].child_tail
    BY Zenon, <1>4 DEF Joins
  <2>3. ASSUME NEW n \in Kids(ns, d)
        PROVE  new[n].next_sibling = ns[n].next_sibling
               /\ new[n].prev_sibling = ns[n].prev_sibling
    <3>1. n \in DOMAIN ns /\ n # child /\ n # tail
      BY ONLY Zenon, <1>1, <1>3, <1>4, <1>p, <2>3 DEF Kids
    <3> QED BY Zenon, <3>1 DEF Joins
  <2>4. Listed(ns, d)
    BY Zenon, <1>4
  <2> QED BY Zenon, <2>1, <2>2, <2>3, <2>4, ListKept
<1>5. ASSUME child \notin DOMAIN ns PROVE Listed(new, child)
  <2>1. Kids(new, child) = {}
    <3>1. ASSUME NEW n \in Kids(new, child) PROVE FALSE
      <4>1. n \in DOMAIN ns \cup {child} /\ new[n].parent = child
        BY ONLY Zenon, <1>p, <3>1 DEF Kids
      <4>2. n # child
        BY Zenon, <1>p, <4>1
      <4>3. ns[n].parent = child /\ n \in DOMAIN ns
        BY Zenon, <1>p, <4>1, <4>2
      <4> QED BY Zenon, <1>2, <1>5, <4>3
    <3> QED BY Zenon, <3>1
  <2>2. new[child].child_head = NULL /\ new[child].child_tail = NULL
    BY Zenon, <1>5 DEF Joins
  <2> QED BY Zenon, <2>1, <2>2 DEF Listed, Reaches
<1>6. Listed(new, dir)
  <2>1. Kids(new, dir) = K \cup {child}
    <3>1. ASSUME NEW n PROVE n \in Kids(new, dir) <=> n \in K \cup {child}
      BY ONLY Zenon, <1>1, <1>p DEF Kids
    <3> QED BY Zenon, <3>1
  <2> DEFINE J == K \cup {child}
  <2>2. /\ new[dir].child_tail = child
        /\ new[dir].child_head = (IF ns[dir].child_head = NULL THEN child
                                  ELSE ns[dir].child_head)
        /\ new[child].next_sibling = NULL /\ new[child].prev_sibling = tail
    BY Zenon DEF Joins
  <2>3. ASSUME NEW n \in K
        PROVE  /\ new[n].next_sibling = (IF n = tail THEN child ELSE ns[n].next_sibling)
               /\ new[n].prev_sibling = ns[n].prev_sibling
    <3>1. n \in DOMAIN ns \ {child}
      BY Zenon, <1>1
    <3> QED BY Zenon, <3>1 DEF Joins
  <2>4. Listed(ns, dir) /\ NULL \notin K
    BY Zenon, <1>1
  <2>5. /\ ns[dir].child_head = NULL <=> K = {}
        /\ tail = NULL <=> K = {}
    BY Zenon, <2>4, EndsOf
  <2>6. ns[dir].child_head \in K \cup {NULL}
    BY Zenon, <2>4 DEF Listed
  <2>r. /\ Reaches(ns, ns[dir].child_head, "next_sibling", K)
        /\ Reaches(ns, tail, "prev_sibling", K)
    BY Zenon, <2>4 DEF Listed
  <2>7. new[dir].child_head \in J \cup {NULL} /\ new[dir].child_tail \in J \cup {NULL}
    BY Zenon, <2>2, <2>6
  <2>8. ASSUME NEW n \in J PROVE Linked(new, J, dir, n)
    <3>1. CASE n = child
      <4>1. tail = NULL <=> child = new[dir].child_head
        BY Zenon, <1>1, <2>2, <2>5, <2>6
      <4>2. tail # NULL => tail \in K /\ new[tail].next_sibling = child
        BY Zenon, <1>3, <2>3
      <4> QED BY Zenon, <2>2, <3>1, <4>1, <4>2 DEF Linked
    <3>2. CASE n \in K
      <4>1. Linked(ns, K, dir, n)
        BY Zenon, <2>4, <3>2 DEF Listed
      <4>2. new[dir].child_head = ns[dir].child_head /\ n # child
        BY Zenon, <1>1, <2>2, <2>5, <3>2
      <4>3. /\ new[n].next_sibling \in J /\ new[n].next_sibling # NULL
            /\ new[new[n].next_sibling].prev_sibling = n
        <5>1. CASE n = tail
          BY Zenon, <2>2, <2>3, <3>2, <5>1
        <5>2. CASE n # tail
          <6>1. ns[n].next_sibling \in K /\ ns[ns[n].next_sibling].prev_sibling = n
            BY Zenon, <4>1, <5>2 DEF Linked
          <6>2. new[n].next_sibling = ns[n].next_sibling
            BY Zenon, <2>3, <3>2, <5>2
          <6> QED BY Zenon, <2>3, <2>4, <6>1, <6>2
        <5> QED BY Zenon, <5>1, <5>2
      <4>4. /\ new[n].prev_sibling \in J \cup {NULL}
            /\ new[n].prev_sibling = NULL <=> n = new[dir].child_head
            /\ new[n].prev_sibling # NULL => new[new[n].prev_sibling].next_sibling = n
        <5>1. /\ ns[n].prev_sibling \in K \cup {NULL}
              /\ ns[n].prev_sibling = NULL <=> n = ns[dir].child_head
              /\ ns[n].prev_sibling # NULL => ns[ns[n].prev_sibling].next_sibling = n
          BY Zenon, <4>1 DEF Linked
        <5>2. new[n].prev_sibling = ns[n].prev_sibling
          BY Zenon, <2>3, <3>2
        <5>3. ns[n].prev_sibling # NULL => ns[n].prev_sibling # tail
          <6>1. tail \in K => ns[tail].next_sibling = NULL
            BY Zenon, <2>4 DEF Listed, Linked
          <6> QED BY Zenon, <2>4, <3>2, <5>1, <6>1
        <5> QED BY Zenon, <2>3, <4>2, <5>1, <5>2, <5>3
      <4> QED BY Zenon, <2>2, <4>2, <4>3, <4>4 DEF Linked
    <3> QED BY Zenon, <3>1, <3>2
  <2>9. Reaches(new, new[dir].child_head, "next_sibling", J)
    <3> SUFFICES ASSUME NEW met \in SUBSET J,
                        Leads(new, new[dir].child_head, "next_sibling", {}, met)
                 PROVE  met = J
      BY Zenon DEF Reaches
    <3>1. CASE K = {}
      BY Zenon, <2>2, <2>5, <3>1 DEF Leads
    <3>2. CASE K # {}
      <4>1. ns[dir].child_head \in met \cap K
        BY Zenon, <1>1, <2>2, <2>5, <2>6, <3>2 DEF Leads
      <4>2. ASSUME NEW m \in met \cap K
            PROVE  ns[m]["next_sibling"] \in (met \cap K) \cup {NULL}
        <5>1. ns[m].next_sibling \in K \cup {NULL}
              /\ (ns[m].next_sibling = NULL <=> m = tail)
          BY Zenon, <2>4 DEF Listed, Linked
        <5>2. new[m].next_sibling \in met \cup {NULL}
          BY Zenon DEF Leads
        <5> QED BY Zenon, <2>3, <5>1, <5>2
      <4>3. Leads(ns, ns[dir].child_head, "next_sibling", {}, met \cap K)
        BY Zenon, <4>1, <4>2 DEF Leads
      <4>4. met \cap K \in SUBSET K
        BY Zenon
      <4>5. met \cap K = K
        BY Zenon, <2>r, <4>3, <4>4 DEF Reaches
      <4>6. tail \in met /\ new[tail]["next_sibling"] = child
        BY Zenon, <1>3, <2>3, <2>5, <3>2, <4>5
      <4>7. child \in met
        BY Zenon, <4>6 DEF Leads
      <4> QED BY Zenon, <4>5, <4>7
    <3> QED BY Zenon, <3>1, <3>2
  <2>10. Reaches(new, new[dir].child_tail, "prev_sibling", J)
    <3> SUFFICES ASSUME NEW met \in SUBSET J,
                        Leads(new, new[dir].child_tail, "prev_sibling", {}, met)
                 PROVE  met = J
      BY Zenon DEF Reaches
    <3>1. child \in met
      BY Zenon, <2>2 DEF Leads
    <3>2. tail # NULL => tail \in met \cap K
      <4>1. new[child]["prev_sibling"] \in met \cup {NULL}
        BY Zenon, <3>1 DEF Leads
      <4> QED BY Zenon, <1>3, <2>2, <4>1
    <3>3. ASSUME NEW m \in met \cap K
          PROVE  ns[m]["prev_sibling"] \in (met \cap K) \cup {NULL}
      <4>1. ns[m].prev_sibling \in K \cup {NULL}
        BY Zenon, <2>4 DEF Listed, Linked
      <4>2. new[m].prev_sibling \in met \cup {NULL}
        BY Zenon DEF Leads
      <4> QED BY Zenon, <2>3, <4>1, <4>2
    <3>4. Leads(ns, tail, "prev_sibling", {}, met \cap K)
      BY Zenon, <3>2, <3>3 DEF Leads
    <3>5. met \cap K \in SUBSET K
      BY Zenon
    <3>6. met \cap K = K
      BY Zenon, <2>r, <3>4, <3>5 DEF Reaches
    <3> QED BY Zenon, <3>1, <3>6
  <2> QED BY Zenon, <2>1, <2>7, <2>8, <2>9, <2>10 DEF Listed
<1> QED BY Zenon, <1>4, <1>5, <1>6, <1>p

\* The lists after a child left its directory.
LEMMA LeftLists ==
    ASSUME NEW ns, Typed(ns), \A d \in DOMAIN ns : Listed(ns, d),
           NEW new, NEW dir \in DOMAIN ns, NEW child \in Kids(ns, dir),
           Leaves(ns, new, dir, child)
    PROVE  \A d \in DOMAIN new : Listed(new, d)
<1> DEFINE K == Kids(ns, dir)
           next == ns[child].next_sibling
           prev == ns[child].prev_sibling
           J == K \ {child}
<1>1. NULL \notin DOMAIN ns /\ K \subseteq DOMAIN ns /\ NULL \notin K
  BY Zenon, NotNull DEF Kids
<1>2. Listed(ns, dir) /\ Linked(ns, K, dir, child)
  BY Zenon DEF Listed
<1>3. /\ next \in K \cup {NULL} /\ prev \in K \cup {NULL}
      /\ next = NULL <=> child = ns[dir].child_tail
      /\ prev = NULL <=> child = ns[dir].child_head
      /\ next # NULL => ns[next].prev_sibling = child
      /\ prev # NULL => ns[prev].next_sibling = child
  BY Zenon, <1>2 DEF Linked
<1>4. /\ DOMAIN new = DOMAIN ns
      /\ \A n \in DOMAIN ns : new[n].parent = (IF n = child THEN NULL ELSE ns[n].parent)
  BY Zenon DEF Leaves
<1>5. ASSUME NEW d \in DOMAIN ns, d # dir PROVE Listed(new, d)
  <2>1. Kids(new, d) = Kids(ns, d)
    <3>1. ASSUME NEW n PROVE n \in Kids(new, d) <=> n \in Kids(ns, d)
      BY ONLY Zenon, <1>1, <1>4, <1>5, child \in Kids(ns, dir) DEF Kids
    <3> QED BY Zenon, <3>1
  <2>2. new[d].child_head = ns[d].child_head /\ new[d].child_tail = ns[d].child_tail
    BY Zenon, <1>5 DEF Leaves
  <2>3. ASSUME NEW n \in Kids(ns, d)
        PROVE  new[n].next_sibling = ns[n].next_sibling
               /\ new[n].prev_sibling = ns[n].prev_sibling
    <3>1. n \in DOMAIN ns /\ n \notin K
      BY ONLY Zenon, <1>5, <2>3 DEF Kids
    <3>2. n # child /\ n # prev /\ n # next
      BY Zenon, <1>1, <1>3, <3>1
    <3> QED BY Zenon, <3>1, <3>2 DEF Leaves
  <2>4. Listed(ns, d)
    BY Zenon, <1>5
  <2> QED BY Zenon, <2>1, <2>2, <2>3, <2>4, ListKept
<1>6. Kids(new, dir) = J
  <2>1. ASSUME NEW n PROVE n \in Kids(new, dir) <=> n \in J
    BY ONLY Zenon, <1>1, <1>4, dir \in DOMAIN ns DEF Kids
  <2> QED BY Zenon, <2>1
<1>7. /\ new[dir].child_head = (IF prev = NULL THEN next ELSE ns[dir].child_head)
      /\ new[dir].child_tail = (IF next = NULL THEN prev ELSE ns[dir].child_tail)
  BY Zenon DEF Leaves
<1>8. ASSUME NEW n \in J
      PROVE  /\ new[n].next_sibling = (IF n = prev THEN next ELSE ns[n].next_sibling)
             /\ new[n].prev_sibling = (IF n = next THEN prev ELSE ns[n].prev_sibling)
  <2>1. n \in DOMAIN ns /\ n # child
    BY Zenon, <1>1
  <2> QED BY Zenon, <2>1 DEF Leaves
<1>9. ASSUME NEW n \in K PROVE Linked(ns, K, dir, n)
  BY Zenon, <1>2 DEF Listed
<1>10. next # child /\ prev # child
  <2>1. next = child => prev = child
    BY Zenon, <1>1, <1>3
  <2>2. prev = child => next = child
    BY Zenon, <1>1, <1>3
  <2>3. ASSUME next = child, prev = child PROVE FALSE
    <3>1. ns[dir].child_head \in K \cup {NULL} /\ ns[dir].child_head # child
      BY Zenon, <1>1, <1>2, <1>3, <2>3 DEF Listed
    <3>2. ASSUME NEW m \in J PROVE ns[m].next_sibling \in J \cup {NULL}
      <4>1. /\ ns[m].next_sibling \in K \cup {NULL}
            /\ ns[m].next_sibling # NULL => ns[ns[m].next_sibling].prev_sibling = m
        BY Zenon, <1>9 DEF Linked
      <4> QED BY Zenon, <1>1, <2>3, <4>1
    <3>3. Leads(ns, ns[dir].child_head, "next_sibling", {}, J)
      BY Zenon, <3>1, <3>2 DEF Leads
    <3>4. J \in SUBSET K
      BY Zenon
    <3>5. J = K
      BY Zenon, <1>2, <3>3, <3>4 DEF Listed, Reaches
    <3> QED BY Zenon, <3>5
  <2> QED BY Zenon, <2>1, <2>2, <2>3
<1>11. new[dir].child_head \in J \cup {NULL} /\ new[dir].child_tail \in J \cup {NULL}
  <2>1. ns[dir].child_head \in K \cup {NULL} /\ ns[dir].child_tail \in K \cup {NULL}
    BY Zenon, <1>2 DEF Listed
  <2> QED BY Zenon, <1>3, <1>7, <1>10, <2>1
<1>12. ASSUME NEW n \in J PROVE Linked(new, J, dir, n)
  <2>1. /\ ns[n].next_sibling \in K \cup {NULL} /\ ns[n].prev_sibling \in K \cup {NULL}
        /\ ns[n].next_sibling = NULL <=> n = ns[dir].child_tail
        /\ ns[n].prev_sibling = NULL <=> n = ns[dir].child_head
        /\ ns[n].next_sibling # NULL => ns[ns[n].next_sibling].prev_sibling = n
        /\ ns[n].prev_sibling # NULL => ns[ns[n].prev_sibling].next_sibling = n
    BY Zenon, <1>9, <1>12 DEF Linked
  <2>2. /\ new[n].next_sibling \in J \cup {NULL}
        /\ new[n].next_sibling = NULL <=> n = new[dir].child_tail
        /\ new[n].next_sibling # NULL => new[new[n].next_sibling].prev_sibling = n
    <3>1. CASE n = prev
      <4>1. new[n].next_sibling = next
        BY Zenon, <1>8, <1>12, <3>1
      <4>2. next = NULL <=> n = new[dir].child_tail
        <5>1. n # NULL /\ n # ns[dir].child_tail
          BY Zenon, <1>1, <1>3, <2>1, <3>1
        <5> QED BY Zenon, <1>7, <3>1, <5>1
      <4>3. next # NULL => next \in J /\ new[next].prev_sibling = n
        <5>1. next # NULL => next \in J
          BY Zenon, <1>3, <1>10
        <5> QED BY Zenon, <1>8, <3>1, <5>1
      <4> QED BY Zenon, <4>1, <4>2, <4>3
    <3>2. CASE n # prev
      <4>1. new[n].next_sibling = ns[n].next_sibling
        BY Zenon, <1>8, <1>12, <3>2
      <4>2. ns[n].next_sibling # child
        BY Zenon, <1>1, <2>1, <3>2
      <4>3. ns[n].next_sibling = NULL <=> n = new[dir].child_tail
        BY Zenon, <1>3, <1>7, <2>1, <3>2, <1>12
      <4>4. ns[n].next_sibling # NULL => ns[n].next_sibling \in J /\ ns[n].next_sibling # next
        BY Zenon, <1>3, <1>12, <2>1, <4>2
      <4>5. ns[n].next_sibling # NULL => new[ns[n].next_sibling].prev_sibling = n
        BY Zenon, <1>8, <2>1, <4>4
      <4> QED BY Zenon, <4>1, <4>3, <4>4, <4>5
    <3> QED BY Zenon, <3>1, <3>2
  <2>3. /\ new[n].prev_sibling \in J \cup {NULL}
        /\ new[n].prev_sibling = NULL <=> n = new[dir].child_head
        /\ new[n].prev_sibling # NULL => new[new[n].prev_sibling].next_sibling = n
    <3>1. CASE n = next
      <4>1. new[n].prev_sibling = prev
        BY Zenon, <1>8, <1>12, <3>1
      <4>2. prev = NULL <=> n = new[dir].child_head
        <5>1. n # NULL /\ n # ns[dir].child_head
          BY Zenon, <1>1, <1>3, <2>1, <3>1
        <5> QED BY Zenon, <1>7, <3>1, <5>1
      <4>3. prev # NULL => prev \in J /\ new[prev].next_sibling = n
        <5>1. prev # NULL => prev \in J
          BY Zenon, <1>3, <1>10
        <5> QED BY Zenon, <1>8, <3>1, <5>1
      <4> QED BY Zenon, <4>1, <4>2, <4>3
    <3>2. CASE n # next
      <4>1. new[n].prev_sibling = ns[n].prev_sibling
        BY Zenon, <1>8, <1>12, <3>2
      <4>2. ns[n].prev_sibling # child
        BY Zenon, <1>1, <2>1, <3>2
      <4>3. ns[n].prev_sibling = NULL <=> n = new[dir].child_head
        BY Zenon, <1>3, <1>7, <2>1, <3>2, <1>12
      <4>4. ns[n].prev_sibling # NULL => ns[n].prev_sibling \in J /\ ns[n].prev_sibling # prev
        BY Zenon, <1>3, <1>12, <2>1, <4>2
      <4>5. ns[n].prev_sibling # NULL => new[ns[n].prev_sibling].next_sibling = n
        BY Zenon, <1>8, <2>1, <4>4
      <4> QED BY Zenon, <4>1, <4>3, <4>4, <4>5
    <3> QED BY Zenon, <3>1, <3>2
  <2> QED BY Zenon, <2>2, <2>3 DEF Linked
<1>13. Reaches(new, new[dir].child_head, "next_sibling", J)
  <2> DEFINE first == ns[dir].child_head
             link == "next_sibling"
  <2> SUFFICES ASSUME NEW met \in SUBSET J, Leads(new, new[dir].child_head, link, {}, met)
               PROVE  met = J
    BY Zenon DEF Reaches
  <2>1. /\ new[dir].child_head # NULL => new[dir].child_head \in met
        /\ \A m \in met : new[m].next_sibling \in met \cup {NULL}
    BY Zenon DEF Leads
  <2>2. Reaches(ns, first, link, K) /\ child \notin met
    BY Zenon, <1>2 DEF Listed
  <2>3. \A m \in met : m # prev => ns[m].next_sibling \in met \cup {NULL}
    BY Zenon, <1>8, <2>1
  <2>4. CASE prev # NULL /\ prev \notin met
    <3>1. first # NULL => first \in met
      BY Zenon, <1>7, <2>1, <2>4
    <3>2. Leads(ns, first, link, {}, met)
      BY Zenon, <2>3, <2>4, <3>1 DEF Leads
    <3>3. met \in SUBSET K
      BY Zenon
    <3>4. met = K
      BY Zenon, <2>2, <3>2, <3>3 DEF Reaches
    <3> QED BY Zenon, <2>2, <3>4
  <2>5. CASE prev = NULL \/ prev \in met
    <3> DEFINE all == met \cup {child}
    <3>1. first # NULL => first \in all
      BY Zenon, <1>3, <1>7, <2>1
    <3>2. next \in met \cup {NULL}
      <4>1. CASE prev = NULL
        BY Zenon, <1>7, <2>1, <4>1
      <4>2. CASE prev # NULL
        BY Zenon, <1>8, <2>1, <2>5, <4>2
      <4> QED BY Zenon, <4>1, <4>2
    <3>3. ASSUME NEW m \in all PROVE ns[m].next_sibling \in all \cup {NULL}
      <4>1. CASE m = child
        BY Zenon, <3>2, <4>1
      <4>2. CASE m \in met /\ m = prev
        BY Zenon, <1>1, <1>3, <4>2
      <4>3. CASE m \in met /\ m # prev
        BY Zenon, <2>3, <4>3
      <4> QED BY Zenon, <4>1, <4>2, <4>3
    <3>4. Leads(ns, first, link, {}, all)
      BY Zenon, <3>1, <3>3 DEF Leads
    <3>5. all \in SUBSET K
      BY Zenon
    <3>6. all = K
      BY Zenon, <2>2, <3>4, <3>5 DEF Reaches
    <3> QED BY Zenon, <2>2, <3>6
  <2> QED BY Zenon, <2>4, <2>5
<1>14. Reaches(new, new[dir].child_tail, "prev_sibling", J)
  <2> DEFINE first == ns[dir].child_tail
             link == "prev_sibling"
  <2> SUFFICES ASSUME NEW met \in SUBSET J, Leads(new, new[dir].child_tail, link, {}, met)
               PROVE  met = J
    BY Zenon DEF Reaches
  <2>1. /\ new[dir].child_tail # NULL => new[dir].child_tail \in met
        /\ \A m \in met : new[m].prev_sibling \in met \cup {NULL}
    BY Zenon DEF Leads
  <2>2. Reaches(ns, first, link, K) /\ child \notin met
    BY Zenon, <1>2 DEF Listed
  <2>3. \A m \in met : m # next => ns[m].prev_sibling \in met \cup {NULL}
    BY Zenon, <1>8, <2>1
  <2>4. CASE next # NULL /\ next \notin met
    <3>1. first # NULL => first \in met
      BY Zenon, <1>7, <2>1, <2>4
    <3>2. Leads(ns, first, link, {}, met)
      BY Zenon, <2>3, <2>4, <3>1 DEF Leads
    <3>3. met \in SUBSET K
      BY Zenon
    <3>4. met = K
      BY Zenon, <2>2, <3>2, <3>3 DEF Reaches
    <3> QED BY Zenon, <2>2, <3>4
  <2>5. CASE next = NULL \/ next \in met
    <3> DEFINE all == met \cup {child}
    <3>1. first # NULL => first \in all
      BY Zenon, <1>3, <1>7, <2>1
    <3>2. prev \in met \cup {NULL}
      <4>1. CASE next = NULL
        BY Zenon, <1>7, <2>1, <4>1
      <4>2. CASE next # NULL
        BY Zenon, <1>8, <2>1, <2>5, <4>2
      <4> QED BY Zenon, <4>1, <4>2
    <3>3. ASSUME NEW m \in all PROVE ns[m].prev_sibling \in all \cup {NULL}
      <4>1. CASE m = child
        BY Zenon, <3>2, <4>1
      <4>2. CASE m \in met /\ m = next
        BY Zenon, <1>1, <1>3, <4>2
      <4>3. CASE m \in met /\ m # next
        BY Zenon, <2>3, <4>3
      <4> QED BY Zenon, <4>1, <4>2, <4>3
    <3>4. Leads(ns, first, link, {}, all)
      BY Zenon, <3>1, <3>3 DEF Leads
    <3>5. all \in SUBSET K
      BY Zenon
    <3>6. all = K
      BY Zenon, <2>2, <3>4, <3>5 DEF Reaches
    <3> QED BY Zenon, <2>2, <3>6
  <2> QED BY Zenon, <2>4, <2>5
<1>15. Listed(new, dir)
  BY Zenon, <1>6, <1>11, <1>12, <1>13, <1>14 DEF Listed
<1> QED BY Zenon, <1>4, <1>5, <1>15

-----------------------------------------------------------------------------
(* Assignments to the fields of a node.                                    *)

Fields == {"type", "name", "parent", "child_head", "child_tail", "next_sibling",
           "prev_sibling", "data"}

\* One field of one node is set.
Stores(ns, new, L, x, f, v) ==
    /\ DOMAIN new = DOMAIN ns /\ new \in [DOMAIN new -> Record(L)]
    /\ \A n \in DOMAIN ns, g \in Fields :
          new[n][g] = (IF n = x /\ g = f THEN v ELSE ns[n][g])

\* Setting a node to a record that differs in one field.
LEMMA StoreNode ==
    ASSUME NEW L, NEW ns, ns \in [DOMAIN ns -> Record(L)], NEW x \in DOMAIN ns,
           NEW f, NEW v, NEW r \in Record(L), r[f] = v,
           \A g \in Fields : g # f => r[g] = ns[x][g]
    PROVE  Stores(ns, [ns EXCEPT ![x] = r], L, x, f, v)
<1> DEFINE new == [ns EXCEPT ![x] = r]
<1>1. DOMAIN new = DOMAIN ns /\ new \in [DOMAIN new -> Record(L)]
  BY Zenon
<1>2. ASSUME NEW n \in DOMAIN ns, NEW g \in Fields
      PROVE  new[n][g] = (IF n = x /\ g = f THEN v ELSE ns[n][g])
  <2>1. new[n] = IF n = x THEN r ELSE ns[n]
    BY Zenon
  <2> QED BY Zenon, <2>1
<1> QED BY Zenon, <1>1, <1>2 DEF Stores

\* Setting the parent of a node.
LEMMA StoreParent ==
    ASSUME NEW L, NEW ns, ns \in [DOMAIN ns -> Record(L)], NEW x \in DOMAIN ns,
           NEW v \in L
    PROVE  Stores(ns, [ns EXCEPT ![x].parent = v], L, x, "parent", v)
<1> DEFINE r == [ns[x] EXCEPT !.parent = v]
<1>1. ns[x] \in Record(L)
  BY Zenon
<1>2. r \in Record(L) /\ r["parent"] = v
  BY ONLY <1>1, v \in L DEF Record
<1>3. ASSUME NEW g \in Fields, g # "parent" PROVE r[g] = ns[x][g]
  BY ONLY <1>1, <1>3 DEF Record, Fields
<1>4. [ns EXCEPT ![x].parent = v] = [ns EXCEPT ![x] = r]
  BY Zenon
<1> HIDE DEF r
<1> QED BY Zenon, <1>2, <1>3, <1>4, StoreNode

\* Setting the first child of a node.
LEMMA StoreHead ==
    ASSUME NEW L, NEW ns, ns \in [DOMAIN ns -> Record(L)], NEW x \in DOMAIN ns,
           NEW v \in L
    PROVE  Stores(ns, [ns EXCEPT ![x].child_head = v], L, x, "child_head", v)
<1> DEFINE r == [ns[x] EXCEPT !.child_head = v]
<1>1. ns[x] \in Record(L)
  BY Zenon
<1>2. r \in Record(L) /\ r["child_head"] = v
  BY ONLY <1>1, v \in L DEF Record
<1>3. ASSUME NEW g \in Fields, g # "child_head" PROVE r[g] = ns[x][g]
  BY ONLY <1>1, <1>3 DEF Record, Fields
<1>4. [ns EXCEPT ![x].child_head = v] = [ns EXCEPT ![x] = r]
  BY Zenon
<1> HIDE DEF r
<1> QED BY Zenon, <1>2, <1>3, <1>4, StoreNode

\* Setting the last child of a node.
LEMMA StoreTail ==
    ASSUME NEW L, NEW ns, ns \in [DOMAIN ns -> Record(L)], NEW x \in DOMAIN ns,
           NEW v \in L
    PROVE  Stores(ns, [ns EXCEPT ![x].child_tail = v], L, x, "child_tail", v)
<1> DEFINE r == [ns[x] EXCEPT !.child_tail = v]
<1>1. ns[x] \in Record(L)
  BY Zenon
<1>2. r \in Record(L) /\ r["child_tail"] = v
  BY ONLY <1>1, v \in L DEF Record
<1>3. ASSUME NEW g \in Fields, g # "child_tail" PROVE r[g] = ns[x][g]
  BY ONLY <1>1, <1>3 DEF Record, Fields
<1>4. [ns EXCEPT ![x].child_tail = v] = [ns EXCEPT ![x] = r]
  BY Zenon
<1> HIDE DEF r
<1> QED BY Zenon, <1>2, <1>3, <1>4, StoreNode

\* Setting the next sibling of a node.
LEMMA StoreNext ==
    ASSUME NEW L, NEW ns, ns \in [DOMAIN ns -> Record(L)], NEW x \in DOMAIN ns,
           NEW v \in L
    PROVE  Stores(ns, [ns EXCEPT ![x].next_sibling = v], L, x, "next_sibling", v)
<1> DEFINE r == [ns[x] EXCEPT !.next_sibling = v]
<1>1. ns[x] \in Record(L)
  BY Zenon
<1>2. r \in Record(L) /\ r["next_sibling"] = v
  BY ONLY <1>1, v \in L DEF Record
<1>3. ASSUME NEW g \in Fields, g # "next_sibling" PROVE r[g] = ns[x][g]
  BY ONLY <1>1, <1>3 DEF Record, Fields
<1>4. [ns EXCEPT ![x].next_sibling = v] = [ns EXCEPT ![x] = r]
  BY Zenon
<1> HIDE DEF r
<1> QED BY Zenon, <1>2, <1>3, <1>4, StoreNode

\* Setting the previous sibling of a node.
LEMMA StorePrev ==
    ASSUME NEW L, NEW ns, ns \in [DOMAIN ns -> Record(L)], NEW x \in DOMAIN ns,
           NEW v \in L
    PROVE  Stores(ns, [ns EXCEPT ![x].prev_sibling = v], L, x, "prev_sibling", v)
<1> DEFINE r == [ns[x] EXCEPT !.prev_sibling = v]
<1>1. ns[x] \in Record(L)
  BY Zenon
<1>2. r \in Record(L) /\ r["prev_sibling"] = v
  BY ONLY <1>1, v \in L DEF Record
<1>3. ASSUME NEW g \in Fields, g # "prev_sibling" PROVE r[g] = ns[x][g]
  BY ONLY <1>1, <1>3 DEF Record, Fields
<1>4. [ns EXCEPT ![x].prev_sibling = v] = [ns EXCEPT ![x] = r]
  BY Zenon
<1> HIDE DEF r
<1> QED BY Zenon, <1>2, <1>3, <1>4, StoreNode

\* Setting the data of a node.
LEMMA StoreData ==
    ASSUME NEW L, NEW ns, ns \in [DOMAIN ns -> Record(L)], NEW x \in DOMAIN ns,
           NEW v \in Data
    PROVE  Stores(ns, [ns EXCEPT ![x].data = v], L, x, "data", v)
<1> DEFINE r == [ns[x] EXCEPT !.data = v]
<1>1. ns[x] \in Record(L)
  BY Zenon
<1>2. r \in Record(L) /\ r["data"] = v
  BY ONLY <1>1, v \in Data DEF Record
<1>3. ASSUME NEW g \in Fields, g # "data" PROVE r[g] = ns[x][g]
  BY ONLY <1>1, <1>3 DEF Record, Fields
<1>4. [ns EXCEPT ![x].data = v] = [ns EXCEPT ![x] = r]
  BY Zenon
<1> HIDE DEF r
<1> QED BY Zenon, <1>2, <1>3, <1>4, StoreNode

-----------------------------------------------------------------------------
(* vfs_dir_add_child and vfs_dir_remove_child, field by field.             *)

Added(ns, new, dir, child) ==
    \A n \in DOMAIN ns :
        /\ new[n].parent = (IF n = child THEN dir ELSE ns[n].parent)
        /\ new[n].child_head = (IF n = dir /\ ns[dir].child_head = NULL THEN child
                                ELSE ns[n].child_head)
        /\ new[n].child_tail = (IF n = dir THEN child ELSE ns[n].child_tail)
        /\ new[n].next_sibling = (IF n = child THEN NULL
                                  ELSE IF n = ns[dir].child_tail THEN child
                                  ELSE ns[n].next_sibling)
        /\ new[n].prev_sibling = (IF n = child THEN ns[dir].child_tail
                                  ELSE ns[n].prev_sibling)

\* Names, types and data stay.
Kept(ns, new) ==
    \A n \in DOMAIN ns : /\ new[n].type = ns[n].type /\ new[n].name = ns[n].name
                         /\ new[n].data = ns[n].data

\* A directory that a node is added to.
Adds(ns, L, dir, child) ==
    /\ ns \in [DOMAIN ns -> Record(L)] /\ NULL \in L /\ NULL \notin DOMAIN ns
    /\ dir \in DOMAIN ns /\ child \in DOMAIN ns /\ dir \in L /\ child \in L
    /\ ns[dir].type = "DIRECTORY" /\ ns[dir].child_tail \in DOMAIN ns \cup {NULL}
    /\ ns[dir].child_tail \in L
    /\ ns[dir].child_head = NULL <=> ns[dir].child_tail = NULL

\* What vfs_dir_add_child does to a directory is Added.
LEMMA AddIs ==
    ASSUME NEW L, NEW ns, NEW dir, NEW child, Adds(ns, L, dir, child),
           NEW new, new = vfs_dir_add_child(ns, dir, child)
    PROVE  /\ DOMAIN new = DOMAIN ns /\ new \in [DOMAIN ns -> Record(L)]
           /\ Added(ns, new, dir, child) /\ Kept(ns, new)
<1> DEFINE tail == ns[dir].child_tail
<1>a. /\ ns \in [DOMAIN ns -> Record(L)] /\ NULL \in L /\ NULL \notin DOMAIN ns
      /\ dir \in DOMAIN ns /\ child \in DOMAIN ns /\ dir \in L /\ child \in L
      /\ ns[dir].type = "DIRECTORY" /\ tail \in DOMAIN ns \cup {NULL} /\ tail \in L
      /\ ns[dir].child_head = NULL <=> tail = NULL
  BY Zenon DEF Adds
<1> USE <1>a
<1>f. "type" \in Fields /\ "name" \in Fields /\ "parent" \in Fields /\ "child_head" \in Fields
      /\ "child_tail" \in Fields /\ "next_sibling" \in Fields /\ "prev_sibling" \in Fields
      /\ "data" \in Fields
  BY Zenon DEF Fields
<1>1. CASE ns[dir].child_head = NULL
  <2>1. PICK a : a = [ns EXCEPT ![dir].child_head = child]
    BY Zenon
  <2>2. PICK b : b = [a EXCEPT ![dir].child_tail = child]
    BY Zenon
  <2>3. PICK c : c = [b EXCEPT ![child].parent = dir]
    BY Zenon
  <2>4. PICK d : d = [c EXCEPT ![child].next_sibling = NULL]
    BY Zenon
  <2>5. new = [d EXCEPT ![child].prev_sibling = NULL]
    <3>1. new = [ns EXCEPT ![dir].child_head = child, ![dir].child_tail = child,
                           ![child].parent = dir,
                           ![child].next_sibling = NULL, ![child].prev_sibling = NULL]
      BY Zenon, <1>1 DEF vfs_dir_add_child
    <3> QED BY ONLY Zenon, <2>1, <2>2, <2>3, <2>4, <3>1
  <2>6. Stores(ns, a, L, dir, "child_head", child)
    BY Zenon, <2>1, StoreHead
  <2>a. DOMAIN a = DOMAIN ns /\ a \in [DOMAIN a -> Record(L)]
    BY ONLY Zenon, <2>6 DEF Stores
  <2>7. Stores(a, b, L, dir, "child_tail", child)
    BY Zenon, <2>2, <2>a, StoreTail
  <2>b. DOMAIN b = DOMAIN ns /\ b \in [DOMAIN b -> Record(L)]
    BY ONLY Zenon, <2>7, <2>a DEF Stores
  <2>8. Stores(b, c, L, child, "parent", dir)
    BY Zenon, <2>3, <2>b, StoreParent
  <2>c. DOMAIN c = DOMAIN ns /\ c \in [DOMAIN c -> Record(L)]
    BY ONLY Zenon, <2>8, <2>b DEF Stores
  <2>9. Stores(c, d, L, child, "next_sibling", NULL)
    BY Zenon, <2>4, <2>c, StoreNext
  <2>d. DOMAIN d = DOMAIN ns /\ d \in [DOMAIN d -> Record(L)]
    BY ONLY Zenon, <2>9, <2>c DEF Stores
  <2>10. Stores(d, new, L, child, "prev_sibling", NULL)
    BY ONLY Zenon, <1>a, <2>5, <2>d, StorePrev
  <2>11. DOMAIN new = DOMAIN ns /\ new \in [DOMAIN ns -> Record(L)]
    BY ONLY Zenon, <2>10, <2>d DEF Stores
  <2>12. ASSUME NEW n \in DOMAIN ns, NEW g \in Fields
         PROVE  new[n][g] = (IF n = child /\ g = "prev_sibling" THEN NULL
                             ELSE IF n = child /\ g = "next_sibling" THEN NULL
                             ELSE IF n = child /\ g = "parent" THEN dir
                             ELSE IF n = dir /\ g = "child_tail" THEN child
                             ELSE IF n = dir /\ g = "child_head" THEN child
                             ELSE ns[n][g])
    <3>1. a[n][g] = (IF n = dir /\ g = "child_head" THEN child ELSE ns[n][g])
      BY ONLY Zenon, <2>6, <2>12 DEF Stores
    <3>2. b[n][g] = (IF n = dir /\ g = "child_tail" THEN child ELSE a[n][g])
      BY ONLY Zenon, <2>7, <2>a, <2>12 DEF Stores
    <3>3. c[n][g] = (IF n = child /\ g = "parent" THEN dir ELSE b[n][g])
      BY ONLY Zenon, <2>8, <2>b, <2>12 DEF Stores
    <3>4. d[n][g] = (IF n = child /\ g = "next_sibling" THEN NULL ELSE c[n][g])
      BY ONLY Zenon, <2>9, <2>c, <2>12 DEF Stores
    <3>5. new[n][g] = (IF n = child /\ g = "prev_sibling" THEN NULL ELSE d[n][g])
      BY ONLY Zenon, <2>10, <2>d, <2>12 DEF Stores
    <3> QED BY ONLY <3>1, <3>2, <3>3, <3>4, <3>5
  <2>13. Kept(ns, new)
    BY ONLY <1>f, <2>12 DEF Kept
  <2>14. Added(ns, new, dir, child)
    BY ONLY <1>1, <1>a, <1>f, <2>12 DEF Added
  <2> QED BY Zenon, <2>11, <2>13, <2>14
<1>2. CASE ns[dir].child_head # NULL
  <2>t. tail \in DOMAIN ns
    BY Zenon, <1>2
  <2>1. PICK a : a = [ns EXCEPT ![tail].next_sibling = child]
    BY Zenon
  <2>2. PICK b : b = [a EXCEPT ![dir].child_tail = child]
    BY Zenon
  <2>3. PICK c : c = [b EXCEPT ![child].parent = dir]
    BY Zenon
  <2>4. PICK d : d = [c EXCEPT ![child].prev_sibling = tail]
    BY Zenon
  <2>5. new = [d EXCEPT ![child].next_sibling = NULL]
    <3>1. new = [ns EXCEPT ![tail].next_sibling = child, ![dir].child_tail = child,
                           ![child].parent = dir,
                           ![child].prev_sibling = tail, ![child].next_sibling = NULL]
      BY Zenon, <1>2 DEF vfs_dir_add_child
    <3> QED BY ONLY Zenon, <2>1, <2>2, <2>3, <2>4, <3>1
  <2>6. Stores(ns, a, L, tail, "next_sibling", child)
    BY Zenon, <2>1, <2>t, StoreNext
  <2>a. DOMAIN a = DOMAIN ns /\ a \in [DOMAIN a -> Record(L)]
    BY ONLY Zenon, <2>6 DEF Stores
  <2>7. Stores(a, b, L, dir, "child_tail", child)
    BY Zenon, <2>2, <2>a, StoreTail
  <2>b. DOMAIN b = DOMAIN ns /\ b \in [DOMAIN b -> Record(L)]
    BY ONLY Zenon, <2>7, <2>a DEF Stores
  <2>8. Stores(b, c, L, child, "parent", dir)
    BY Zenon, <2>3, <2>b, StoreParent
  <2>c. DOMAIN c = DOMAIN ns /\ c \in [DOMAIN c -> Record(L)]
    BY ONLY Zenon, <2>8, <2>b DEF Stores
  <2>9. Stores(c, d, L, child, "prev_sibling", tail)
    BY Zenon, <2>4, <2>c, StorePrev
  <2>d. DOMAIN d = DOMAIN ns /\ d \in [DOMAIN d -> Record(L)]
    BY ONLY Zenon, <2>9, <2>c DEF Stores
  <2>10. Stores(d, new, L, child, "next_sibling", NULL)
    BY ONLY Zenon, <1>a, <2>5, <2>d, StoreNext
  <2>11. DOMAIN new = DOMAIN ns /\ new \in [DOMAIN ns -> Record(L)]
    BY ONLY Zenon, <2>10, <2>d DEF Stores
  <2>12. ASSUME NEW n \in DOMAIN ns, NEW g \in Fields
         PROVE  new[n][g] = (IF n = child /\ g = "next_sibling" THEN NULL
                             ELSE IF n = child /\ g = "prev_sibling" THEN tail
                             ELSE IF n = child /\ g = "parent" THEN dir
                             ELSE IF n = dir /\ g = "child_tail" THEN child
                             ELSE IF n = tail /\ g = "next_sibling" THEN child
                             ELSE ns[n][g])
    <3>1. a[n][g] = (IF n = tail /\ g = "next_sibling" THEN child ELSE ns[n][g])
      BY ONLY Zenon, <2>6, <2>12 DEF Stores
    <3>2. b[n][g] = (IF n = dir /\ g = "child_tail" THEN child ELSE a[n][g])
      BY ONLY Zenon, <2>7, <2>a, <2>12 DEF Stores
    <3>3. c[n][g] = (IF n = child /\ g = "parent" THEN dir ELSE b[n][g])
      BY ONLY Zenon, <2>8, <2>b, <2>12 DEF Stores
    <3>4. d[n][g] = (IF n = child /\ g = "prev_sibling" THEN tail ELSE c[n][g])
      BY ONLY Zenon, <2>9, <2>c, <2>12 DEF Stores
    <3>5. new[n][g] = (IF n = child /\ g = "next_sibling" THEN NULL ELSE d[n][g])
      BY ONLY Zenon, <2>10, <2>d, <2>12 DEF Stores
    <3> QED BY ONLY <3>1, <3>2, <3>3, <3>4, <3>5
  <2>13. Kept(ns, new)
    BY ONLY <1>f, <2>12 DEF Kept
  <2>14. Added(ns, new, dir, child)
    BY ONLY <1>2, <1>f, <2>12 DEF Added
  <2> QED BY Zenon, <2>11, <2>13, <2>14
<1> QED BY Zenon, <1>1, <1>2

\* A child of a directory that has it between prev and next.
LEMMA RemoveIs ==
    ASSUME NEW L, NEW ns, ns \in [DOMAIN ns -> Record(L)], NULL \in L, NULL \notin DOMAIN ns,
           NEW dir \in DOMAIN ns, NEW child \in DOMAIN ns, ns[dir].type = "DIRECTORY",
           ns[child].next_sibling \in DOMAIN ns \cup {NULL}, ns[child].next_sibling \in L,
           ns[child].prev_sibling \in DOMAIN ns \cup {NULL}, ns[child].prev_sibling \in L,
           NEW new, new = vfs_dir_remove_child(ns, dir, child)
    PROVE  /\ DOMAIN new = DOMAIN ns /\ new \in [DOMAIN ns -> Record(L)]
           /\ Leaves(ns, new, dir, child) /\ Kept(ns, new)
<1> DEFINE next == ns[child].next_sibling
           prev == ns[child].prev_sibling
<1>f. "type" \in Fields /\ "name" \in Fields /\ "parent" \in Fields /\ "child_head" \in Fields
      /\ "child_tail" \in Fields /\ "next_sibling" \in Fields /\ "prev_sibling" \in Fields
      /\ "data" \in Fields
  BY Zenon DEF Fields
<1>1. PICK a : a = IF prev # NULL THEN [ns EXCEPT ![prev].next_sibling = next]
                   ELSE [ns EXCEPT ![dir].child_head = next]
  BY Zenon
<1>2. PICK b : b = IF next # NULL THEN [a EXCEPT ![next].prev_sibling = prev]
                   ELSE [a EXCEPT ![dir].child_tail = prev]
  BY Zenon
<1>3. PICK c : c = [b EXCEPT ![child].parent = NULL]
  BY Zenon
<1>4. PICK d : d = [c EXCEPT ![child].next_sibling = NULL]
  BY Zenon
<1>5. new = [d EXCEPT ![child].prev_sibling = NULL]
  <2>1. new = [b EXCEPT ![child].parent = NULL, ![child].next_sibling = NULL,
                        ![child].prev_sibling = NULL]
    BY Zenon, <1>1, <1>2 DEF vfs_dir_remove_child
  <2> QED BY ONLY Zenon, <1>3, <1>4, <2>1
<1>6. Stores(ns, a, L, IF prev # NULL THEN prev ELSE dir,
             IF prev # NULL THEN "next_sibling" ELSE "child_head", next)
  <2>1. CASE prev # NULL
    <3>1. a = [ns EXCEPT ![prev].next_sibling = next] /\ prev \in DOMAIN ns
      BY Zenon, <1>1, <2>1
    <3>2. Stores(ns, a, L, prev, "next_sibling", next)
      BY Zenon, <3>1, StoreNext
    <3> QED BY Zenon, <2>1, <3>2
  <2>2. CASE prev = NULL
    <3>1. a = [ns EXCEPT ![dir].child_head = next]
      BY Zenon, <1>1, <2>2
    <3>2. Stores(ns, a, L, dir, "child_head", next)
      BY Zenon, <3>1, StoreHead
    <3> QED BY Zenon, <2>2, <3>2
  <2> QED BY Zenon, <2>1, <2>2
<1>a. DOMAIN a = DOMAIN ns /\ a \in [DOMAIN a -> Record(L)]
  BY ONLY Zenon, <1>6 DEF Stores
<1>7. Stores(a, b, L, IF next # NULL THEN next ELSE dir,
             IF next # NULL THEN "prev_sibling" ELSE "child_tail", prev)
  <2>1. CASE next # NULL
    <3>1. b = [a EXCEPT ![next].prev_sibling = prev] /\ next \in DOMAIN a
      BY Zenon, <1>2, <1>a, <2>1
    <3>2. Stores(a, b, L, next, "prev_sibling", prev)
      BY Zenon, <1>a, <3>1, StorePrev
    <3> QED BY Zenon, <2>1, <3>2
  <2>2. CASE next = NULL
    <3>1. b = [a EXCEPT ![dir].child_tail = prev] /\ dir \in DOMAIN a
      BY Zenon, <1>2, <1>a, <2>2
    <3>2. Stores(a, b, L, dir, "child_tail", prev)
      BY Zenon, <1>a, <3>1, StoreTail
    <3> QED BY Zenon, <2>2, <3>2
  <2> QED BY Zenon, <2>1, <2>2
<1>b. DOMAIN b = DOMAIN ns /\ b \in [DOMAIN b -> Record(L)]
  BY ONLY Zenon, <1>7, <1>a DEF Stores
<1>8. Stores(b, c, L, child, "parent", NULL)
  BY ONLY Zenon, <1>3, <1>b, StoreParent, child \in DOMAIN ns, NULL \in L
<1>c. DOMAIN c = DOMAIN ns /\ c \in [DOMAIN c -> Record(L)]
  BY ONLY Zenon, <1>8, <1>b DEF Stores
<1>9. Stores(c, d, L, child, "next_sibling", NULL)
  BY ONLY Zenon, <1>4, <1>c, StoreNext, child \in DOMAIN ns, NULL \in L
<1>d. DOMAIN d = DOMAIN ns /\ d \in [DOMAIN d -> Record(L)]
  BY ONLY Zenon, <1>9, <1>c DEF Stores
<1>10. Stores(d, new, L, child, "prev_sibling", NULL)
  BY ONLY Zenon, <1>5, <1>d, StorePrev, child \in DOMAIN ns, NULL \in L
<1>11. DOMAIN new = DOMAIN ns /\ new \in [DOMAIN ns -> Record(L)]
  BY ONLY Zenon, <1>10, <1>d DEF Stores
<1> HIDE DEF next, prev
<1>12. ASSUME NEW n \in DOMAIN ns, NEW g \in Fields
       PROVE  new[n][g] =
                  (IF n = child /\ g = "prev_sibling" THEN NULL
                   ELSE IF n = child /\ g = "next_sibling" THEN NULL
                   ELSE IF n = child /\ g = "parent" THEN NULL
                   ELSE IF n = (IF next # NULL THEN next ELSE dir)
                           /\ g = (IF next # NULL THEN "prev_sibling" ELSE "child_tail")
                   THEN prev
                   ELSE IF n = (IF prev # NULL THEN prev ELSE dir)
                           /\ g = (IF prev # NULL THEN "next_sibling" ELSE "child_head")
                   THEN next
                   ELSE ns[n][g])
  <2>1. a[n][g] = (IF n = (IF prev # NULL THEN prev ELSE dir)
                      /\ g = (IF prev # NULL THEN "next_sibling" ELSE "child_head")
                   THEN next ELSE ns[n][g])
    BY ONLY Zenon, <1>6, <1>12 DEF Stores
  <2>2. b[n][g] = (IF n = (IF next # NULL THEN next ELSE dir)
                      /\ g = (IF next # NULL THEN "prev_sibling" ELSE "child_tail")
                   THEN prev ELSE a[n][g])
    BY ONLY Zenon, <1>7, <1>a, <1>12 DEF Stores
  <2>3. c[n][g] = (IF n = child /\ g = "parent" THEN NULL ELSE b[n][g])
    BY ONLY Zenon, <1>8, <1>b, <1>12 DEF Stores
  <2>4. d[n][g] = (IF n = child /\ g = "next_sibling" THEN NULL ELSE c[n][g])
    BY ONLY Zenon, <1>9, <1>c, <1>12 DEF Stores
  <2>5. new[n][g] = (IF n = child /\ g = "prev_sibling" THEN NULL ELSE d[n][g])
    BY ONLY Zenon, <1>10, <1>d, <1>12 DEF Stores
  <2> QED BY ONLY <2>1, <2>2, <2>3, <2>4, <2>5
<1>13. Kept(ns, new)
  BY ONLY <1>f, <1>12 DEF Kept
<1>14. Leaves(ns, new, dir, child)
  <2>1. \A n \in DOMAIN ns :
          /\ new[n].parent = (IF n = child THEN NULL ELSE ns[n].parent)
          /\ new[n].child_head = (IF n = dir /\ prev = NULL THEN next ELSE ns[n].child_head)
          /\ new[n].child_tail = (IF n = dir /\ next = NULL THEN prev ELSE ns[n].child_tail)
          /\ n # child => new[n].next_sibling = (IF n = prev THEN next
                                                 ELSE ns[n].next_sibling)
          /\ n # child => new[n].prev_sibling = (IF n = next THEN prev
                                                 ELSE ns[n].prev_sibling)
    BY ONLY <1>f, <1>12, NULL \notin DOMAIN ns
  <2> QED BY Zenon, <1>11, <2>1 DEF Leaves, next, prev
<1> QED BY Zenon, <1>11, <1>13, <1>14

-----------------------------------------------------------------------------
(* The invariant after a change of the tree.                               *)

\* Names stay unique when a node joins a directory that has none of its name.
LEMMA NamesJoined ==
    ASSUME NEW ns, Typed(ns), Named(ns), NEW new, NEW dir \in DOMAIN ns, NEW child,
           ns[dir].type = "DIRECTORY", child # dir, Joins(ns, new, dir, child), Kept(ns, new),
           \A k \in Kids(ns, dir) : ns[k].name # new[child].name
    PROVE  Named(new)
<1>1. /\ DOMAIN new = DOMAIN ns \cup {child} /\ new[child].parent = dir
      /\ \A n \in DOMAIN ns \ {child} : new[n].parent = ns[n].parent
  BY Zenon DEF Joins
<1>2. \A n \in DOMAIN ns : ns[n].parent \in DOMAIN ns \cup {NULL}
  BY Zenon, FieldsOf DEF Links
<1>3. \A n \in DOMAIN ns : new[n].type = ns[n].type /\ new[n].name = ns[n].name
  BY Zenon DEF Kept
<1>4. ASSUME NEW n \in DOMAIN new, new[n].parent # NULL
      PROVE  new[new[n].parent].type = "DIRECTORY"
  <2>1. CASE n = child
    BY Zenon, <1>1, <1>3, <2>1
  <2>2. CASE n # child
    <3>1. n \in DOMAIN ns /\ new[n].parent = ns[n].parent
      BY Zenon, <1>1, <1>4, <2>2
    <3>2. ns[ns[n].parent].type = "DIRECTORY" /\ ns[n].parent \in DOMAIN ns
      BY Zenon, <1>2, <1>4, <3>1 DEF Named
    <3> QED BY Zenon, <1>3, <3>1, <3>2
  <2> QED BY Zenon, <2>1, <2>2
<1>5. ASSUME NEW n \in DOMAIN ns \ {child}, new[n].parent = dir
      PROVE  new[n].name # new[child].name
  <2>1. n \in Kids(ns, dir)
    BY Zenon, <1>1, <1>5 DEF Kids
  <2> QED BY Zenon, <1>3, <2>1
<1>6. ASSUME NEW m \in DOMAIN new, NEW n \in DOMAIN new, new[m].parent = new[n].parent,
             new[m].parent # NULL, new[m].name = new[n].name
      PROVE  m = n
  <2>1. CASE m = child \/ n = child
    BY Zenon, <1>1, <1>5, <1>6, <2>1
  <2>2. CASE m # child /\ n # child
    <3>1. m \in DOMAIN ns \ {child} /\ n \in DOMAIN ns \ {child}
      BY Zenon, <1>1, <1>6, <2>2
    <3>2. ns[m].parent = ns[n].parent /\ ns[m].parent # NULL /\ ns[m].name = ns[n].name
      BY Zenon, <1>1, <1>3, <1>6, <3>1
    <3> QED BY Zenon, <3>1, <3>2 DEF Named
  <2> QED BY Zenon, <2>1, <2>2
<1> QED BY Zenon, <1>4, <1>6 DEF Named

\* ... and when a child leaves its directory.
LEMMA NamesLeft ==
    ASSUME NEW ns, Typed(ns), Named(ns), NEW new, NEW dir, NEW child,
           Leaves(ns, new, dir, child), Kept(ns, new)
    PROVE  Named(new)
<1>1. /\ DOMAIN new = DOMAIN ns
      /\ \A n \in DOMAIN ns : new[n].parent = (IF n = child THEN NULL ELSE ns[n].parent)
  BY Zenon DEF Leaves
<1>2. \A n \in DOMAIN ns : ns[n].parent \in DOMAIN ns \cup {NULL}
  BY Zenon, FieldsOf DEF Links
<1>3. \A n \in DOMAIN ns : new[n].type = ns[n].type /\ new[n].name = ns[n].name
  BY Zenon DEF Kept
<1>4. ASSUME NEW n \in DOMAIN ns, new[n].parent # NULL
      PROVE  new[n].parent = ns[n].parent /\ ns[n].parent \in DOMAIN ns
  BY Zenon, <1>1, <1>2, <1>4
<1>5. ASSUME NEW n \in DOMAIN new, new[n].parent # NULL
      PROVE  new[new[n].parent].type = "DIRECTORY"
  <2>1. n \in DOMAIN ns /\ new[n].parent = ns[n].parent /\ ns[n].parent \in DOMAIN ns
    BY Zenon, <1>1, <1>4, <1>5
  <2>2. ns[ns[n].parent].type = "DIRECTORY"
    BY Zenon, <1>5, <2>1 DEF Named
  <2> QED BY Zenon, <1>3, <2>1, <2>2
<1>6. ASSUME NEW m \in DOMAIN new, NEW n \in DOMAIN new, new[m].parent = new[n].parent,
             new[m].parent # NULL, new[m].name = new[n].name
      PROVE  m = n
  <2>1. m \in DOMAIN ns /\ n \in DOMAIN ns /\ new[n].parent # NULL
    BY Zenon, <1>1, <1>6
  <2>2. new[m].parent = ns[m].parent /\ new[n].parent = ns[n].parent
    BY Zenon, <1>4, <1>6, <2>1
  <2>3. ns[m].parent = ns[n].parent /\ ns[m].parent # NULL /\ ns[m].name = ns[n].name
    BY Zenon, <1>3, <1>6, <2>1, <2>2
  <2> QED BY Zenon, <2>1, <2>3 DEF Named
<1> QED BY Zenon, <1>5, <1>6 DEF Named

\* What Typed says after a change that keeps the nodes.
LEMMA TypedSame ==
    ASSUME NEW ns, Typed(ns), NEW new, DOMAIN new = DOMAIN ns,
           new \in [DOMAIN ns -> Record(Links(ns))], Kept(ns, new),
           new[Root].parent = NULL
    PROVE  Typed(new)
<1>1. Links(new) = Links(ns)
  BY Zenon DEF Links
<1>2. /\ Numbered(DOMAIN ns)
      /\ Root \in DOMAIN ns /\ ns[Root].type = "DIRECTORY"
      /\ \A n \in DOMAIN ns : n # Root => ns[n].name \in NAMES
  BY Zenon DEF Typed
<1>3. \A n \in DOMAIN ns : new[n].type = ns[n].type /\ new[n].name = ns[n].name
  BY Zenon DEF Kept
<1>4. Numbered(DOMAIN new)
  BY Zenon, <1>2
<1>5. new \in [DOMAIN new -> Record(Links(new))]
  BY Zenon, <1>1
<1>6. new[Root].type = "DIRECTORY" /\ \A n \in DOMAIN new : n # Root => new[n].name \in NAMES
  BY Zenon, <1>2, <1>3
<1> QED BY Zenon, <1>2, <1>4, <1>5, <1>6 DEF Typed

\* What a child of a directory is.
LEMMA ChildOf ==
    ASSUME NEW ns, TreeInv(ns), NEW dir \in DOMAIN ns, NEW child \in Kids(ns, dir)
    PROVE  /\ child \in DOMAIN ns /\ ns[dir].type = "DIRECTORY"
           /\ child # Root /\ ns[child].parent = dir
<1>1. child \in DOMAIN ns /\ ns[child].parent = dir /\ dir # NULL
  BY Zenon, NotNull DEF Kids, TreeInv
<1> QED BY Zenon, <1>1 DEF TreeInv, Typed, Named

\* vfs_dir_remove_child keeps the invariant.
LEMMA RemoveKeeps ==
    ASSUME NEW ns, TreeInv(ns), NEW dir \in DOMAIN ns, NEW child \in Kids(ns, dir),
           NEW new, new = vfs_dir_remove_child(ns, dir, child)
    PROVE  TreeInv(new) /\ DOMAIN new = DOMAIN ns /\ Kept(ns, new)
<1>1. /\ Typed(ns) /\ Named(ns) /\ Sized(ns) /\ NULL \notin DOMAIN ns
      /\ \A d \in DOMAIN ns : Listed(ns, d)
  BY Zenon, NotNull DEF TreeInv
<1>2. child \in DOMAIN ns /\ ns[dir].type = "DIRECTORY" /\ child # Root
  BY Zenon, ChildOf
<1>3. ns \in [DOMAIN ns -> Record(Links(ns))] /\ NULL \in Links(ns)
  BY Zenon, <1>1 DEF Typed, Links
<1>4. ns[child].next_sibling \in Links(ns) /\ ns[child].prev_sibling \in Links(ns)
  BY Zenon, <1>1, <1>2, FieldsOf
<1>5. ns[child].next_sibling \in DOMAIN ns \cup {NULL}
      /\ ns[child].prev_sibling \in DOMAIN ns \cup {NULL}
  BY Zenon, <1>4 DEF Links
<1>6. /\ DOMAIN new = DOMAIN ns /\ new \in [DOMAIN ns -> Record(Links(ns))]
      /\ Leaves(ns, new, dir, child) /\ Kept(ns, new)
  BY ONLY <1>1, <1>2, <1>3, <1>4, <1>5, RemoveIs, dir \in DOMAIN ns,
          new = vfs_dir_remove_child(ns, dir, child)
<1>7. new[Root].parent = NULL
  BY Zenon, <1>1, <1>2, <1>6 DEF Leaves, Typed
<1>8. Typed(new)
  BY Zenon, <1>1, <1>6, <1>7, TypedSame
<1>9. Named(new)
  BY Zenon, <1>1, <1>6, NamesLeft
<1>10. Sized(new)
  BY Zenon, <1>1, <1>6 DEF Sized, Kept
<1>11. \A d \in DOMAIN new : Listed(new, d)
  BY Zenon, <1>1, <1>6, LeftLists
<1> QED BY Zenon, <1>6, <1>8, <1>9, <1>10, <1>11 DEF TreeInv

\* What AddIs asks of a directory.
LEMMA DirectoryEnds ==
    ASSUME NEW ns, TreeInv(ns), NEW dir \in DOMAIN ns
    PROVE  /\ ns[dir].child_tail \in DOMAIN ns \cup {NULL}
           /\ ns[dir].child_head = NULL <=> ns[dir].child_tail = NULL
<1>1. Listed(ns, dir) /\ NULL \notin Kids(ns, dir) /\ Kids(ns, dir) \subseteq DOMAIN ns
  BY Zenon, NotNull DEF TreeInv, Kids
<1>2. ns[dir].child_tail \in Kids(ns, dir) \cup {NULL}
  BY Zenon, <1>1 DEF Listed
<1> QED BY Zenon, <1>1, <1>2, EndsOf

\* vfs_dir_add_child keeps it, for a node that was in no directory.
LEMMA AddKeeps ==
    ASSUME NEW ns, TreeInv(ns), NEW dir \in DOMAIN ns, NEW child \in DOMAIN ns,
           ns[dir].type = "DIRECTORY", child # dir, child # Root, ns[child].parent = NULL,
           \A k \in Kids(ns, dir) : ns[k].name # ns[child].name,
           NEW new, new = vfs_dir_add_child(ns, dir, child)
    PROVE  TreeInv(new) /\ DOMAIN new = DOMAIN ns /\ Kept(ns, new)
<1>1. /\ Typed(ns) /\ Named(ns) /\ Sized(ns) /\ NULL \notin DOMAIN ns
      /\ \A d \in DOMAIN ns : Listed(ns, d)
  BY Zenon, NotNull DEF TreeInv
<1>2. ns \in [DOMAIN ns -> Record(Links(ns))] /\ NULL \in Links(ns) /\ dir \in Links(ns)
      /\ child \in Links(ns)
  BY Zenon, <1>1 DEF Typed, Links
<1>3. /\ ns[dir].child_tail \in DOMAIN ns \cup {NULL} /\ ns[dir].child_tail \in Links(ns)
      /\ ns[dir].child_head = NULL <=> ns[dir].child_tail = NULL
  BY Zenon, DirectoryEnds DEF Links
<1>4. /\ DOMAIN new = DOMAIN ns /\ new \in [DOMAIN ns -> Record(Links(ns))]
      /\ Added(ns, new, dir, child) /\ Kept(ns, new)
  <2>1. Adds(ns, Links(ns), dir, child)
    BY Zenon, <1>1, <1>2, <1>3 DEF Adds
  <2> QED BY ONLY <2>1, AddIs, new = vfs_dir_add_child(ns, dir, child)
<1>5. Joins(ns, new, dir, child)
  <2>1. DOMAIN new = DOMAIN ns \cup {child}
    BY Zenon, <1>4
  <2>2. \A n \in DOMAIN ns \ {child} :
          /\ new[n].parent = ns[n].parent
          /\ new[n].child_head = (IF n = dir /\ ns[n].child_head = NULL THEN child
                                  ELSE ns[n].child_head)
          /\ new[n].child_tail = (IF n = dir THEN child ELSE ns[n].child_tail)
          /\ new[n].next_sibling = (IF n = ns[dir].child_tail THEN child
                                    ELSE ns[n].next_sibling)
          /\ new[n].prev_sibling = ns[n].prev_sibling
    BY ONLY Zenon, <1>4 DEF Added
  <2>3. /\ new[child].parent = dir /\ new[child].next_sibling = NULL
        /\ new[child].prev_sibling = ns[dir].child_tail
        /\ new[child].child_head = ns[child].child_head
        /\ new[child].child_tail = ns[child].child_tail
    BY ONLY Zenon, <1>4, child # dir, child \in DOMAIN ns DEF Added
  <2> QED BY Zenon, <2>1, <2>2, <2>3 DEF Joins
<1>6. new[Root].parent = NULL
  BY Zenon, <1>1, <1>4 DEF Added, Typed
<1>7. Typed(new)
  BY Zenon, <1>1, <1>4, <1>6, TypedSame
<1>8. new[child].name = ns[child].name /\ child # NULL
  BY Zenon, <1>1, <1>4 DEF Kept
<1>9. Named(new)
  <2>1. \A k \in Kids(ns, dir) : ns[k].name # new[child].name
    BY Zenon, <1>8
  <2> QED BY ONLY Zenon, <1>1, <1>4, <1>5, <2>1, NamesJoined, dir \in DOMAIN ns,
                  ns[dir].type = "DIRECTORY", child # dir
<1>10. Sized(new)
  BY Zenon, <1>1, <1>4 DEF Sized, Kept
<1>11. \A d \in DOMAIN new : Listed(new, d)
  BY Zenon, <1>1, <1>5, <1>8, JoinedLists
<1> QED BY Zenon, <1>4, <1>7, <1>9, <1>10, <1>11 DEF TreeInv

\* The nodes and a fresh one.
WithNew(ns, k, node) == [n \in DOMAIN ns \cup {k} |-> IF n = k THEN node ELSE ns[n]]

\* A node with the next number is created in a directory.
Creates(ns, new, k, dir, kind) ==
    /\ k \in Nat /\ DOMAIN ns = 0..(k - 1) /\ kind \in KINDS
    /\ dir \in DOMAIN ns /\ ns[dir].type = "DIRECTORY"
    /\ \A n \in Kids(ns, dir) : ns[n].name # kind[1]
    /\ new = vfs_dir_add_child(WithNew(ns, k, vfs_create_node(kind[1], kind[2], dir)), dir, k)

\* There is one more node, without data, and the others keep theirs.
Created(ns, new, k) ==
    /\ DOMAIN new = DOMAIN ns \cup {k} /\ k \notin DOMAIN ns
    /\ Kept(ns, new) /\ new[k].data = NoData

\* Creating a node in a directory without one of that name keeps the invariant.
LEMMA CreateKeeps ==
    ASSUME NEW ns, TreeInv(ns), NEW new, NEW k, NEW dir, NEW kind,
           Creates(ns, new, k, dir, kind)
    PROVE  TreeInv(new) /\ Created(ns, new, k)
<1>1. /\ dir \in DOMAIN ns /\ ns[dir].type = "DIRECTORY" /\ kind \in KINDS
      /\ \A n \in Kids(ns, dir) : ns[n].name # kind[1]
  BY Zenon DEF Creates
<1> DEFINE node == vfs_create_node(kind[1], kind[2], dir)
           L == DOMAIN ns \cup {k} \cup {NULL}
<1>2. /\ Typed(ns) /\ Named(ns) /\ Sized(ns) /\ NULL \notin DOMAIN ns
      /\ \A d \in DOMAIN ns : Listed(ns, d)
  BY Zenon, NotNull DEF TreeInv
<1>3. /\ k \in Nat \ {0} /\ k \notin DOMAIN ns /\ k # NULL
      /\ Numbered(DOMAIN ns \cup {k})
  <2>1. k \in Nat /\ DOMAIN ns = 0..(k - 1)
    BY Zenon DEF Creates
  <2>2. k \notin DOMAIN ns /\ k # NULL
    BY ONLY <2>1 DEF NULL
  <2>3. k # 0
    BY ONLY <1>2, <2>1 DEF Typed, Root
  <2>4. PICK c : c = k + 1
    BY Zenon
  <2>5. DOMAIN ns \cup {k} = 0..(c - 1) /\ c \in Nat
    BY ONLY <2>1, <2>4
  <2> QED BY ONLY Zenon, <2>1, <2>2, <2>3, <2>5 DEF Numbered
<1>4. node \in Record(L) /\ node.name = kind[1] /\ node.type = kind[2] /\ node.parent = dir
      /\ node.data = NoData /\ node.child_head = NULL /\ node.child_tail = NULL
  <2>1. kind[1] \in NAMES /\ kind[2] \in TYPES
    BY Zenon, <1>1, VfsAssumption DEF NAMES
  <2>2. NoData \in Data
    BY ONLY DEF NoData, Data, NULL
  <2>3. dir \in L /\ NULL \in L
    BY Zenon, <1>1
  <2> HIDE DEF L
  <2> QED BY ONLY <2>1, <2>2, <2>3 DEF vfs_create_node, Record
<1> HIDE DEF node
<1>5. PICK ext : ext = WithNew(ns, k, node)
  BY Zenon
<1>6. /\ DOMAIN ext = DOMAIN ns \cup {k} /\ ext[k] = node
      /\ \A n \in DOMAIN ns : ext[n] = ns[n]
  BY ONLY Zenon, <1>3, <1>5 DEF WithNew
<1>7. ext \in [DOMAIN ext -> Record(L)]
  <2>1. ASSUME NEW n \in DOMAIN ns PROVE ns[n] \in Record(L)
    <3>1. ns[n] \in Record(Links(ns)) /\ Links(ns) \subseteq L
      BY Zenon, <1>2, FieldsOf DEF Links
    <3> QED BY ONLY <3>1 DEF Record
  <2>2. ext \in [DOMAIN ns \cup {k} -> Record(L)]
    BY ONLY Zenon, <1>4, <1>5, <2>1 DEF WithNew
  <2> QED BY Zenon, <1>6, <2>2
<1>8. new = vfs_dir_add_child(ext, dir, k)
  BY Zenon, <1>5 DEF node, Creates
<1>9. /\ ext[dir] = ns[dir] /\ dir # k /\ dir \in DOMAIN ext /\ k \in DOMAIN ext
      /\ NULL \notin DOMAIN ext /\ NULL \in L /\ dir \in L /\ k \in L
  BY Zenon, <1>1, <1>2, <1>3, <1>6
<1>10. /\ ext[dir].child_tail \in DOMAIN ext \cup {NULL} /\ ext[dir].child_tail \in L
       /\ ext[dir].child_head = NULL <=> ext[dir].child_tail = NULL
       /\ ext[dir].type = "DIRECTORY"
  <2>1. /\ ns[dir].child_tail \in DOMAIN ns \cup {NULL}
        /\ ns[dir].child_head = NULL <=> ns[dir].child_tail = NULL
    BY Zenon, <1>1, DirectoryEnds
  <2> QED BY ONLY Zenon, <1>1, <1>6, <1>9, <2>1
<1>11. /\ DOMAIN new = DOMAIN ext /\ new \in [DOMAIN ext -> Record(L)]
       /\ Added(ext, new, dir, k) /\ Kept(ext, new)
  <2> HIDE DEF L
  <2>1. Adds(ext, L, dir, k)
    BY ONLY Zenon, <1>7, <1>9, <1>10 DEF Adds
  <2> QED BY ONLY <1>8, <2>1, AddIs
<1>12. Joins(ns, new, dir, k)
  <2>1. DOMAIN new = DOMAIN ns \cup {k}
    BY Zenon, <1>6, <1>11
  <2>2. ASSUME NEW n \in DOMAIN ns \ {k}
        PROVE  /\ new[n].parent = ns[n].parent
               /\ new[n].child_head = (IF n = dir /\ ns[n].child_head = NULL THEN k
                                       ELSE ns[n].child_head)
               /\ new[n].child_tail = (IF n = dir THEN k ELSE ns[n].child_tail)
               /\ new[n].next_sibling = (IF n = ns[dir].child_tail THEN k
                                         ELSE ns[n].next_sibling)
               /\ new[n].prev_sibling = ns[n].prev_sibling
    <3>1. n \in DOMAIN ext /\ n # k /\ ext[n] = ns[n]
      BY Zenon, <1>6
    <3>2. ext[dir] = ns[dir] /\ Added(ext, new, dir, k)
      BY Zenon, <1>9, <1>11
    <3> QED BY ONLY <3>1, <3>2 DEF Added
  <2>3. /\ new[k].parent = dir /\ new[k].next_sibling = NULL
        /\ new[k].prev_sibling = ns[dir].child_tail
        /\ new[k].child_head = NULL /\ new[k].child_tail = NULL
    BY ONLY Zenon, <1>4, <1>6, <1>9, <1>11 DEF Added
  <2>4. k \notin DOMAIN ns
    BY Zenon, <1>3
  <2> QED BY ONLY <2>1, <2>2, <2>3, <2>4 DEF Joins
<1>13. Kept(ns, new)
  BY ONLY Zenon, <1>6, <1>11 DEF Kept
<1>14. new[k].name = kind[1] /\ new[k].type = kind[2] /\ new[k].data = NoData
  BY ONLY Zenon, <1>4, <1>6, <1>9, <1>11 DEF Kept
<1>15. Typed(new)
  <2>1. Links(new) = L /\ DOMAIN new = DOMAIN ns \cup {k}
    BY Zenon, <1>6, <1>11 DEF Links
  <2>2. new \in [DOMAIN new -> Record(Links(new))]
    BY Zenon, <1>6, <1>11, <2>1
  <2>3. Root \in DOMAIN ns /\ ns[Root].parent = NULL /\ ns[Root].type = "DIRECTORY"
        /\ \A n \in DOMAIN ns : n # Root => ns[n].name \in NAMES
    BY Zenon, <1>2 DEF Typed
  <2>4. new[Root].parent = NULL /\ Root # k
    <3>1. Root # k
      BY Zenon, <1>3, <2>3
    <3>2. new[Root].parent = ns[Root].parent
      BY ONLY Zenon, <1>12, <2>3, <3>1 DEF Joins
    <3> QED BY ONLY Zenon, <2>3, <3>1, <3>2
  <2>5. new[Root].type = "DIRECTORY" /\ \A n \in DOMAIN ns : n # Root => new[n].name \in NAMES
    BY Zenon, <1>13, <2>3 DEF Kept
  <2>6. kind[1] \in NAMES
    BY Zenon, <1>1 DEF NAMES
  <2>7. \A n \in DOMAIN new : n # Root => new[n].name \in NAMES
    BY Zenon, <1>14, <2>1, <2>5, <2>6
  <2>8. Numbered(DOMAIN new)
    BY ONLY Zenon, <1>3, <2>1
  <2> QED BY Zenon, <2>1, <2>2, <2>3, <2>4, <2>5, <2>7, <2>8 DEF Typed
<1>16. Named(new)
  <2>1. \A n \in Kids(ns, dir) : ns[n].name # new[k].name
    BY Zenon, <1>1, <1>14
  <2> QED BY ONLY Zenon, <1>1, <1>2, <1>9, <1>12, <1>13, <2>1, NamesJoined
<1>17. Sized(new)
  <2>1. ASSUME NEW n \in DOMAIN ns
        PROVE  /\ new[n].data # NoData => Filled(new[n].data)
               /\ new[n].type = "DIRECTORY" => new[n].data = NoData
    BY Zenon, <1>2, <1>13 DEF Sized, Kept
  <2> QED BY Zenon, <1>6, <1>11, <1>14, <2>1 DEF Sized
<1>18. \A d \in DOMAIN new : Listed(new, d)
  BY ONLY Zenon, <1>1, <1>2, <1>3, <1>9, <1>12, JoinedLists
<1> QED BY Zenon, <1>3, <1>6, <1>11, <1>13, <1>14, <1>15, <1>16, <1>17, <1>18
    DEF TreeInv, Created

-----------------------------------------------------------------------------
(* The tree below the root, and the paths of its nodes.                    *)

\* The tree has the root, the children of its nodes and the parents of the others.
LEMMA TreeFacts ==
    ASSUME Typed(nodes)
    PROVE  /\ Root \in Tree /\ Tree \subseteq DOMAIN nodes
           /\ \A n \in DOMAIN nodes : nodes[n].parent \in Tree => n \in Tree
           /\ \A n \in Tree : n # Root => nodes[n].parent \in Tree
<1>1. Root \in Tree /\ Tree \subseteq DOMAIN nodes
  BY Zenon DEF Tree, Hang, Typed
<1>2. ASSUME NEW n \in DOMAIN nodes, nodes[n].parent \in Tree PROVE n \in Tree
  <2>1. ASSUME NEW S \in SUBSET DOMAIN nodes, Hang(S) PROVE n \in S
    BY Zenon, <1>2, <2>1 DEF Tree, Hang
  <2> QED BY Zenon, <2>1 DEF Tree
<1>3. ASSUME NEW n \in Tree, n # Root PROVE nodes[n].parent \in Tree
  <2> DEFINE S == {Root} \cup {m \in Tree : nodes[m].parent \in Tree}
  <2>1. S \subseteq Tree /\ S \in SUBSET DOMAIN nodes
    BY Zenon, <1>1
  <2>2. Hang(S)
    BY Zenon, <1>2, <2>1 DEF Hang
  <2>3. n \in S
    BY Zenon, <2>1, <2>2 DEF Tree
  <2> QED BY Zenon, <1>3, <2>3
<1> QED BY Zenon, <1>1, <1>2, <1>3

\* What holds of the root, and of a node whenever it holds of its parent, holds in
\* all of the tree.
LEMMA TreeInduction ==
    ASSUME Typed(nodes), NEW S \in SUBSET Tree, Root \in S,
           \A n \in Tree : n # Root /\ nodes[n].parent \in S => n \in S
    PROVE  S = Tree
<1>1. NULL \notin Tree /\ S \in SUBSET DOMAIN nodes
  BY Zenon, NotNull, TreeFacts
<1>2. ASSUME NEW n \in DOMAIN nodes, nodes[n].parent \in S PROVE n \in S
  <2>1. n # Root
    BY Zenon, <1>1, <1>2 DEF Typed
  <2> QED BY Zenon, <1>2, <2>1, TreeFacts
<1>3. Hang(S)
  BY Zenon, <1>2 DEF Hang
<1> QED BY Zenon, <1>1, <1>3 DEF Tree

\* The path of each node of D, a part of the tree that has the parents of its nodes.
Paths(D, f) ==
    /\ D \subseteq Tree
    /\ \A m \in D : m # Root => nodes[m].parent \in D
    /\ f = [m \in D |-> IF m = Root THEN <<>>
                        ELSE Append(f[nodes[m].parent], nodes[m].name)]

\* The path of one node.
LEMMA PathsValue ==
    ASSUME NEW D, NEW f, Paths(D, f), NEW m \in D
    PROVE  f[m] = IF m = Root THEN <<>> ELSE Append(f[nodes[m].parent], nodes[m].name)
<1>1. f = [x \in D |-> IF x = Root THEN <<>>
                       ELSE Append(f[nodes[x].parent], nodes[x].name)]
  BY Zenon DEF Paths
<1> QED BY ONLY Zenon, <1>1, m \in D

\* Two such functions agree where both are defined.
LEMMA PathsAgree ==
    ASSUME Typed(nodes), NEW D, NEW f, Paths(D, f), NEW E, NEW g, Paths(E, g), NEW n \in D,
           n \in E
    PROVE  f[n] = g[n]
<1> DEFINE S == {m \in Tree : m \in D /\ m \in E => f[m] = g[m]}
<1>1. Root \in S
  BY Zenon, PathsValue, TreeFacts
<1>2. ASSUME NEW m \in Tree, m # Root, nodes[m].parent \in S, m \in D, m \in E
      PROVE  f[m] = g[m]
  <2>1. nodes[m].parent \in D /\ nodes[m].parent \in E
    BY Zenon, <1>2 DEF Paths
  <2>2. f[nodes[m].parent] = g[nodes[m].parent]
    BY Zenon, <1>2, <2>1
  <2>3. f[m] = Append(f[nodes[m].parent], nodes[m].name)
    BY Zenon, <1>2, PathsValue
  <2>4. g[m] = Append(g[nodes[m].parent], nodes[m].name)
    BY Zenon, <1>2, PathsValue
  <2> QED BY ONLY Zenon, <2>2, <2>3, <2>4
<1>3. S = Tree
  <2>1. S \in SUBSET Tree
    BY Zenon
  <2>2. \A m \in Tree : m # Root /\ nodes[m].parent \in S => m \in S
    BY Zenon, <1>2
  <2> HIDE DEF S
  <2> QED BY Zenon, <1>1, <2>1, <2>2, TreeInduction
<1>4. n \in Tree
  BY Zenon DEF Paths
<1> QED BY Zenon, <1>3, <1>4

\* Every node of the tree has a path.
LEMMA PathsExist ==
    ASSUME Typed(nodes), NEW n \in Tree
    PROVE  \E D, f : Paths(D, f) /\ n \in D
<1> DEFINE S == {m \in Tree : \E D, f : Paths(D, f) /\ m \in D}
<1>1. Root \in S
  <2>1. PICK f : f = [m \in {Root} |-> <<>>]
    BY Zenon
  <2>2. f = [m \in {Root} |-> IF m = Root THEN <<>>
                              ELSE Append(f[nodes[m].parent], nodes[m].name)]
    BY ONLY Zenon, <2>1
  <2>3. Paths({Root}, f)
    BY Zenon, <2>2, TreeFacts DEF Paths
  <2> QED BY Zenon, <2>3, TreeFacts
<1>2. ASSUME NEW m \in Tree, m # Root, nodes[m].parent \in S PROVE m \in S
  <2>1. PICK D, f : Paths(D, f) /\ nodes[m].parent \in D
    BY Zenon, <1>2
  <2>2. CASE m \in D
    BY Zenon, <2>1, <2>2
  <2>3. CASE m \notin D
    <3>1. PICK s : s = Append(f[nodes[m].parent], nodes[m].name)
      BY Zenon
    <3>2. PICK E : E = D \cup {m}
      BY Zenon
    <3>3. PICK g : g = [x \in E |-> IF x = m THEN s ELSE f[x]]
      BY Zenon
    <3>4. ASSUME NEW x \in E
          PROVE  g[x] = IF x = Root THEN <<>> ELSE Append(g[nodes[x].parent], nodes[x].name)
      <4>1. CASE x = m
        <5>1. g[x] = s /\ nodes[x].parent \in E /\ nodes[x].parent # m
          BY ONLY Zenon, <2>1, <2>3, <3>2, <3>3, <3>4, <4>1
        <5>2. g[nodes[x].parent] = f[nodes[x].parent]
          BY ONLY Zenon, <3>3, <5>1
        <5> QED BY ONLY Zenon, <1>2, <3>1, <4>1, <5>1, <5>2
      <4>2. CASE x # m
        <5>1. x \in D /\ g[x] = f[x]
          BY ONLY Zenon, <3>2, <3>3, <3>4, <4>2
        <5>2. f[x] = IF x = Root THEN <<>> ELSE Append(f[nodes[x].parent], nodes[x].name)
          BY ONLY Zenon, <2>1, <5>1, PathsValue
        <5>3. CASE x = Root
          BY ONLY Zenon, <5>1, <5>2, <5>3
        <5>4. CASE x # Root
          <6>1. nodes[x].parent \in D
            BY Zenon, <2>1, <5>1, <5>4 DEF Paths
          <6>2. g[nodes[x].parent] = f[nodes[x].parent]
            BY ONLY Zenon, <2>3, <3>2, <3>3, <6>1
          <6> QED BY ONLY Zenon, <5>1, <5>2, <5>4, <6>2
        <5> QED BY Zenon, <5>3, <5>4
      <4> QED BY Zenon, <4>1, <4>2
    <3>5. g = [x \in E |-> IF x = Root THEN <<>>
                           ELSE Append(g[nodes[x].parent], nodes[x].name)]
      BY ONLY Zenon, <3>3, <3>4
    <3>6. E \subseteq Tree /\ \A x \in E : x # Root => nodes[x].parent \in E
      BY Zenon, <2>1, <3>2 DEF Paths
    <3>7. Paths(E, g) /\ m \in E
      BY Zenon, <3>2, <3>5, <3>6 DEF Paths
    <3> QED BY Zenon, <3>7
  <2> QED BY Zenon, <2>2, <2>3
<1>3. S = Tree
  <2>1. S \in SUBSET Tree
    BY Zenon
  <2>2. \A m \in Tree : m # Root /\ nodes[m].parent \in S => m \in S
    BY Zenon, <1>2
  <2> HIDE DEF S
  <2> QED BY Zenon, <1>1, <2>1, <2>2, TreeInduction
<1> QED BY Zenon, <1>3

\* The path of the root is empty, and that of another node is its directory's and
\* its name.
LEMMA PathToIs ==
    ASSUME Typed(nodes), NEW n \in Tree
    PROVE  PathTo(n) = IF n = Root THEN <<>>
                       ELSE Append(PathTo(nodes[n].parent), nodes[n].name)
<1> DEFINE Is(p) == p = [m \in Tree |-> IF m = Root THEN <<>>
                                        ELSE Append(p[nodes[m].parent], nodes[m].name)]
           path == CHOOSE p : Is(p)
           Of(m) == CHOOSE f : \E D : Paths(D, f) /\ m \in D
<1>1. ASSUME NEW m \in Tree PROVE \E D : Paths(D, Of(m)) /\ m \in D
  <2>1. \E f : \E D : Paths(D, f) /\ m \in D
    BY Zenon, PathsExist
  <2> QED BY Zenon, <2>1
<1> HIDE DEF Of
<1>2. PICK p : p = [m \in Tree |-> Of(m)[m]]
  BY Zenon
<1>3. ASSUME NEW m \in Tree
      PROVE  p[m] = IF m = Root THEN <<>> ELSE Append(p[nodes[m].parent], nodes[m].name)
  <2>1. PICK D : Paths(D, Of(m)) /\ m \in D
    BY Zenon, <1>1
  <2>2. p[m] = Of(m)[m]
    BY ONLY Zenon, <1>2, m \in Tree
  <2>3. Of(m)[m] = IF m = Root THEN <<>> ELSE Append(Of(m)[nodes[m].parent], nodes[m].name)
    BY ONLY Zenon, <2>1, PathsValue
  <2>4. CASE m # Root
    <3>1. nodes[m].parent \in D /\ nodes[m].parent \in Tree
      BY Zenon, <2>1, <2>4 DEF Paths
    <3>2. PICK E : Paths(E, Of(nodes[m].parent)) /\ nodes[m].parent \in E
      BY Zenon, <1>1, <3>1
    <3>3. Of(nodes[m].parent)[nodes[m].parent] = Of(m)[nodes[m].parent]
      BY ONLY Typed(nodes), <2>1, <3>1, <3>2, PathsAgree
    <3>4. p[nodes[m].parent] = Of(nodes[m].parent)[nodes[m].parent]
      BY ONLY Zenon, <1>2, <3>1
    <3> QED BY ONLY Zenon, <2>2, <2>3, <2>4, <3>3, <3>4
  <2> QED BY ONLY Zenon, <2>2, <2>3, <2>4
<1>4. Is(p)
  BY ONLY Zenon, <1>2, <1>3
<1>5. Is(path)
  BY ONLY Zenon, <1>4
<1>6. ASSUME NEW m \in Tree PROVE PathTo(m) = path[m]
  BY Zenon DEF PathTo
<1>7. n # Root => nodes[n].parent \in Tree
  BY Zenon, TreeFacts
<1>8. path[n] = IF n = Root THEN <<>> ELSE Append(path[nodes[n].parent], nodes[n].name)
  <2> HIDE DEF path
  <2> QED BY ONLY Zenon, <1>5, n \in Tree
<1> HIDE DEF path
<1> QED BY ONLY Zenon, <1>6, <1>7, <1>8, n \in Tree

-----------------------------------------------------------------------------
(* The bytes of a file.                                                    *)

\* What a subsequence is.
LEMMA SubSeqIs ==
    ASSUME NEW S, NEW s, NEW m \in Int, NEW n \in Int, \A i \in m..n : s[i] \in S
    PROVE  /\ SubSeq(s, m, n) \in Seq(S)
           /\ Len(SubSeq(s, m, n)) = IF m <= n THEN n - m + 1 ELSE 0
           /\ \A i \in 1..(n - m + 1) : SubSeq(s, m, n)[i] = s[m + i - 1]
  OBVIOUS

\* It is empty if it ends before it starts.
LEMMA SubSeqNone ==
    ASSUME NEW s, NEW m \in Int, NEW n \in Int, n < m PROVE SubSeq(s, m, n) = <<>>
  OBVIOUS

\* Sequences with the same elements are the same.
LEMMA SameSeq ==
    ASSUME NEW S, NEW s \in Seq(S), NEW t \in Seq(S), Len(s) = Len(t),
           \A i \in 1..Len(s) : s[i] = t[i]
    PROVE  s = t
  OBVIOUS

\* What a concatenation is.
LEMMA ConcatIs ==
    ASSUME NEW S, NEW s \in Seq(S), NEW t \in Seq(S)
    PROVE  /\ s \o t \in Seq(S) /\ Len(s \o t) = Len(s) + Len(t)
           /\ \A i \in 1..(Len(s) + Len(t)) :
                 (s \o t)[i] = IF i <= Len(s) THEN s[i] ELSE t[i - Len(s)]
  OBVIOUS

\* What a file holds, by its data.
Bytes(data) == IF data = NoData THEN <<>> ELSE SubSeq(data.content, 1, data.size)

\* The bytes of a file are the first ones of the content.
LEMMA BytesAre ==
    ASSUME NEW data \in Data, Filled(data)
    PROVE  /\ data # NoData /\ Bytes(data) \in Seq(Byte) /\ Len(Bytes(data)) = data.size
           /\ \A i \in 1..data.size : Bytes(data)[i] = data.content[i]
<1>1. /\ data.content \in Seq(Byte) /\ data.size \in Int
      /\ data.size \in 0..Len(data.content)
  BY DEF Data, Filled
<1>2. data # NoData
  BY ONLY <1>1 DEF NoData, NULL
<1>3. PICK s : s = data.content
  BY Zenon
<1>4. PICK k : k = data.size
  BY Zenon
<1>5. s \in Seq(Byte) /\ Len(s) \in Nat /\ k \in 0..Len(s) /\ k \in Nat /\ 1 \in Int /\ k \in Int
  BY ONLY <1>1, <1>3, <1>4
<1>6. \A i \in 1..k : s[i] \in Byte
  BY ONLY <1>5
<1>7. /\ SubSeq(s, 1, k) \in Seq(Byte)
      /\ Len(SubSeq(s, 1, k)) = IF 1 <= k THEN k - 1 + 1 ELSE 0
      /\ \A i \in 1..(k - 1 + 1) : SubSeq(s, 1, k)[i] = s[1 + i - 1]
  BY ONLY <1>5, <1>6, SubSeqIs
<1>8. k - 1 + 1 = k /\ (IF 1 <= k THEN k - 1 + 1 ELSE 0) = k
  BY ONLY <1>5
<1>9. \A i \in 1..k : 1 + i - 1 = i
  BY ONLY <1>5
<1>10. Bytes(data) = SubSeq(s, 1, k)
  BY ONLY Zenon, <1>2, <1>3, <1>4 DEF Bytes
<1> QED BY ONLY Zenon, <1>2, <1>3, <1>4, <1>7, <1>8, <1>9, <1>10

\* Storing puts the buffer over the bytes of the file.
LEMMA StoredIs ==
    ASSUME NEW data \in Data, Filled(data), NEW buf \in Seq(BYTES), NEW offset \in Nat,
           offset + Len(buf) <= Len(data.content), NEW s, s = Stored(data, buf, offset)
    PROVE  s \in Data /\ Filled(s) /\ Bytes(s) = Files!Over(Bytes(data), offset, buf)
<1>1. PICK c : c = data.content
  BY Zenon
<1>2. PICK k : k = data.size
  BY Zenon
<1>3. PICK l : l = IF offset + Len(buf) > k THEN offset + Len(buf) ELSE k
  BY Zenon
<1>4. /\ c \in Seq(Byte) /\ Len(c) \in Nat /\ k \in 0..Len(c) /\ k \in Nat
      /\ \A i \in 1..Len(c) : i > k => c[i] = Junk
  BY <1>1, <1>2 DEF Data, Filled
<1>5. Len(buf) \in Nat /\ \A i \in 1..Len(buf) : buf[i] \in BYTES
  OBVIOUS
<1>6. l \in 0..Len(c) /\ l >= offset + Len(buf) /\ l >= k /\ l \in Nat
  BY ONLY <1>1, <1>3, <1>4, <1>5, offset \in Nat, offset + Len(buf) <= Len(data.content)
<1>7. PICK d : d = [i \in 1..Len(c) |-> IF i > offset /\ i <= offset + Len(buf)
                                        THEN buf[i - offset] ELSE c[i]]
  BY Zenon
<1>8. s = [content |-> d, size |-> l]
  BY ONLY Zenon, <1>1, <1>2, <1>3, <1>7, s = Stored(data, buf, offset) DEF Stored
<1>9. ASSUME NEW i \in 1..Len(c)
      PROVE  /\ d[i] = IF i > offset /\ i <= offset + Len(buf) THEN buf[i - offset] ELSE c[i]
             /\ d[i] \in Byte
  <2>1. d[i] = IF i > offset /\ i <= offset + Len(buf) THEN buf[i - offset] ELSE c[i]
    BY ONLY Zenon, <1>7, <1>9
  <2>2. c[i] \in Byte
    BY ONLY <1>4, <1>9
  <2>3. i > offset /\ i <= offset + Len(buf) => i - offset \in 1..Len(buf)
    BY ONLY <1>5, <1>9, offset \in Nat, <1>4
  <2>4. i > offset /\ i <= offset + Len(buf) => buf[i - offset] \in Byte
    BY ONLY Zenon, <1>5, <2>3 DEF Byte
  <2> QED BY ONLY Zenon, <2>1, <2>2, <2>4
<1>10. d \in Seq(Byte) /\ Len(d) = Len(c)
  <2>1. d \in [1..Len(c) -> Byte]
    BY ONLY Zenon, <1>7, <1>9
  <2> QED BY ONLY <1>4, <2>1
<1>11. s \in Data
  BY ONLY <1>6, <1>8, <1>10 DEF Data
<1>12. s.content = d /\ s.size = l
  BY ONLY Zenon, <1>8
<1>13. Filled(s)
  <2>1. ASSUME NEW i \in 1..Len(c), i > l PROVE d[i] = Junk
    <3>1. ~(i > offset /\ i <= offset + Len(buf)) /\ i > k
      BY ONLY <1>4, <1>5, <1>6, <2>1, offset \in Nat
    <3> QED BY ONLY Zenon, <1>4, <1>9, <2>1, <3>1
  <2> QED BY ONLY Zenon, <1>6, <1>10, <1>12, <2>1 DEF Filled
<1>14. Bytes(s) \in Seq(Byte) /\ Len(Bytes(s)) = l /\ \A i \in 1..l : Bytes(s)[i] = d[i]
  BY ONLY Zenon, <1>11, <1>12, <1>13, BytesAre
<1>15. Bytes(data) \in Seq(Byte) /\ Len(Bytes(data)) = k
       /\ \A i \in 1..k : Bytes(data)[i] = c[i]
  BY ONLY Zenon, <1>1, <1>2, BytesAre, data \in Data, Filled(data)
<1>16. PICK b : b = Bytes(data)
  BY Zenon
<1>17. ASSUME NEW i \in 1..l
       PROVE  d[i] = IF i > offset /\ i <= offset + Len(buf) THEN buf[i - offset]
                     ELSE IF i <= k THEN b[i] ELSE Junk
  <2>1. i \in 1..Len(c)
    BY ONLY <1>4, <1>6, <1>17
  <2>2. i <= k => i \in 1..k
    BY ONLY <1>4, <1>6, <1>17
  <2>3. ~(i <= k) => i > k
    BY ONLY <1>4, <1>6, <1>17
  <2>4. i <= k => c[i] = b[i]
    BY ONLY Zenon, <1>15, <1>16, <2>2
  <2>5. ~(i <= k) => c[i] = Junk
    BY ONLY Zenon, <1>4, <2>1, <2>3
  <2>6. d[i] = IF i > offset /\ i <= offset + Len(buf) THEN buf[i - offset] ELSE c[i]
    BY ONLY Zenon, <1>9, <2>1
  <2> QED BY ONLY Zenon, <2>4, <2>5, <2>6
<1>18. Files!Over(b, offset, buf) =
          [i \in 1..l |-> IF i > offset /\ i <= offset + Len(buf) THEN buf[i - offset]
                          ELSE IF i <= k THEN b[i] ELSE Junk]
  BY ONLY Zenon, <1>3, <1>15, <1>16 DEF Files!Over
<1>19. Bytes(s) = [i \in 1..l |-> Bytes(s)[i]]
  BY ONLY <1>14
<1>20. Bytes(s) = Files!Over(b, offset, buf)
  <2>1. ASSUME NEW i \in 1..l
        PROVE  Bytes(s)[i] = IF i > offset /\ i <= offset + Len(buf) THEN buf[i - offset]
                             ELSE IF i <= k THEN b[i] ELSE Junk
    <3>1. Bytes(s)[i] = d[i]
      BY ONLY Zenon, <1>14, <2>1
    <3> QED BY ONLY Zenon, <1>17, <2>1, <3>1
  <2>2. [i \in 1..l |-> Bytes(s)[i]] =
           [i \in 1..l |-> IF i > offset /\ i <= offset + Len(buf) THEN buf[i - offset]
                           ELSE IF i <= k THEN b[i] ELSE Junk]
    BY ONLY Zenon, <2>1
  <2> QED BY ONLY Zenon, <1>18, <1>19, <2>2
<1> QED BY Zenon, <1>11, <1>13, <1>16, <1>20

\* Data a node may have.
Fits(ns, x, v) ==
    v \in Data /\ (v # NoData => Filled(v)) /\ (ns[x].type = "DIRECTORY" => v = NoData)

\* The data of one node are set.
WithData(ns, x, v) == [ns EXCEPT ![x].data = v]
DataSet(ns, new, x, v) ==
    \A n \in DOMAIN ns : new[n].data = (IF n = x THEN v ELSE ns[n].data)

\* Setting the data of a node keeps the invariant.
LEMMA DataKeeps ==
    ASSUME NEW ns, TreeInv(ns), NEW x \in DOMAIN ns, NEW v, Fits(ns, x, v), NEW new,
           new = WithData(ns, x, v)
    PROVE  TreeInv(new) /\ DOMAIN new = DOMAIN ns /\ DataSet(ns, new, x, v)
<1>1. /\ Typed(ns) /\ Named(ns) /\ Sized(ns) /\ NULL \notin DOMAIN ns
      /\ \A d \in DOMAIN ns : Listed(ns, d)
  BY Zenon, NotNull DEF TreeInv
<1>2. ns \in [DOMAIN ns -> Record(Links(ns))]
  BY Zenon, <1>1 DEF Typed
<1>3. Stores(ns, new, Links(ns), x, "data", v)
  <2>1. v \in Data
    BY Zenon DEF Fits
  <2>2. new = [ns EXCEPT ![x].data = v]
    BY ONLY Zenon, new = WithData(ns, x, v) DEF WithData
  <2> QED BY ONLY Zenon, <1>2, <2>1, <2>2, StoreData, x \in DOMAIN ns
<1>4. DOMAIN new = DOMAIN ns /\ new \in [DOMAIN ns -> Record(Links(ns))]
  BY ONLY Zenon, <1>3 DEF Stores
<1>5. ASSUME NEW n \in DOMAIN ns
      PROVE  /\ new[n].data = (IF n = x THEN v ELSE ns[n].data)
             /\ new[n].type = ns[n].type /\ new[n].name = ns[n].name
             /\ new[n].parent = ns[n].parent
             /\ new[n].child_head = ns[n].child_head /\ new[n].child_tail = ns[n].child_tail
             /\ new[n].next_sibling = ns[n].next_sibling
             /\ new[n].prev_sibling = ns[n].prev_sibling
  <2>1. ASSUME NEW g \in Fields \ {"data"} PROVE new[n][g] = ns[n][g]
    BY ONLY Zenon, <1>3, <1>5, <2>1 DEF Stores
  <2>2. new[n]["data"] = (IF n = x THEN v ELSE ns[n]["data"])
    <3>1. "data" \in Fields
      BY ONLY Zenon DEF Fields
    <3> QED BY ONLY Zenon, <1>3, <1>5, <3>1 DEF Stores
  <2>3. {"type", "name", "parent", "child_head", "child_tail", "next_sibling", "prev_sibling"}
           \subseteq Fields \ {"data"}
    BY ONLY DEF Fields
  <2> QED BY ONLY Zenon, <2>1, <2>2, <2>3
<1>6. Typed(new)
  <2>1. Links(new) = Links(ns)
    BY Zenon, <1>4 DEF Links
  <2>2. /\ Numbered(DOMAIN ns)
        /\ Root \in DOMAIN ns /\ ns[Root].parent = NULL /\ ns[Root].type = "DIRECTORY"
        /\ \A n \in DOMAIN ns : n # Root => ns[n].name \in NAMES
    BY Zenon, <1>1 DEF Typed
  <2>3. /\ new[Root].parent = NULL /\ new[Root].type = "DIRECTORY"
        /\ \A n \in DOMAIN ns : n # Root => new[n].name \in NAMES
    BY ONLY Zenon, <1>5, <2>2
  <2>4. Numbered(DOMAIN new)
    BY ONLY Zenon, <1>4, <2>2
  <2> QED BY ONLY Zenon, <1>4, <2>1, <2>2, <2>3, <2>4 DEF Typed
<1>7. Named(new)
  <2>1. \A n \in DOMAIN ns : ns[n].parent # NULL => ns[n].parent \in DOMAIN ns
    BY Zenon, <1>1, FieldsOf DEF Links
  <2>2. ASSUME NEW n \in DOMAIN ns, new[n].parent # NULL
        PROVE  new[new[n].parent].type = "DIRECTORY"
    <3>1. new[n].parent = ns[n].parent /\ ns[n].parent \in DOMAIN ns
      BY ONLY Zenon, <1>5, <2>1, <2>2
    <3>2. ns[ns[n].parent].type = "DIRECTORY"
      BY ONLY Zenon, <1>1, <2>2, <3>1 DEF Named
    <3>3. new[ns[n].parent].type = ns[ns[n].parent].type
      BY ONLY Zenon, <1>5, <3>1
    <3> QED BY ONLY Zenon, <3>1, <3>2, <3>3
  <2>3. ASSUME NEW m \in DOMAIN ns, NEW n \in DOMAIN ns, new[m].parent = new[n].parent,
               new[m].parent # NULL, new[m].name = new[n].name
        PROVE  m = n
    <3>1. ns[m].parent = ns[n].parent /\ ns[m].parent # NULL /\ ns[m].name = ns[n].name
      BY ONLY Zenon, <1>5, <2>3
    <3> QED BY ONLY Zenon, <1>1, <2>3, <3>1 DEF Named
  <2> QED BY ONLY Zenon, <1>4, <2>2, <2>3 DEF Named
<1>8. Sized(new)
  <2>1. ASSUME NEW n \in DOMAIN ns
        PROVE  /\ new[n].data # NoData => Filled(new[n].data)
               /\ new[n].type = "DIRECTORY" => new[n].data = NoData
    <3>1. new[n].type = ns[n].type /\ new[n].data = (IF n = x THEN v ELSE ns[n].data)
      BY ONLY Zenon, <1>5, <2>1
    <3>2. CASE n = x
      <4>1. new[n].data = v
        BY ONLY Zenon, <3>1, <3>2
      <4> QED BY Zenon, <3>1, <3>2, <4>1 DEF Fits
    <3>3. CASE n # x
      <4>1. new[n].data = ns[n].data
        BY ONLY Zenon, <3>1, <3>3
      <4> QED BY Zenon, <1>1, <3>1, <4>1 DEF Sized
    <3> QED BY Zenon, <3>2, <3>3
  <2> QED BY ONLY Zenon, <1>4, <2>1 DEF Sized
<1>9. ASSUME NEW d \in DOMAIN ns PROVE Listed(new, d)
  <2>1. Kids(new, d) = Kids(ns, d)
    BY ONLY Zenon, <1>4, <1>5 DEF Kids
  <2>2. \A n \in Kids(ns, d) : n \in DOMAIN ns
    BY ONLY Zenon DEF Kids
  <2>3. \A n \in Kids(ns, d) : /\ new[n].next_sibling = ns[n].next_sibling
                               /\ new[n].prev_sibling = ns[n].prev_sibling
    BY ONLY Zenon, <1>5, <2>2
  <2>4. new[d].child_head = ns[d].child_head /\ new[d].child_tail = ns[d].child_tail
    BY ONLY Zenon, <1>5, <1>9
  <2> QED BY ONLY Zenon, <1>1, <1>9, <2>1, <2>3, <2>4, ListKept
<1> QED BY ONLY Zenon, <1>4, <1>5, <1>6, <1>7, <1>8, <1>9 DEF TreeInv, DataSet

-----------------------------------------------------------------------------
(* The inductive invariant, and what the abstract files and descriptors are.*)

\* Nodes are numbered, and there are not too many.
Bounded(S, most) == \E k \in 1..most : S = 0..(k - 1)

\* The nodes, within the bound of the behaviour, and descriptors of nodes.
VfsInv ==
    /\ TreeInv(nodes) /\ bound \in BOUNDS /\ Bounded(DOMAIN nodes, bound.nodes)
    /\ fd_table \in [Fd -> [node : Links(nodes), offset : Nat]]
    /\ out.ret \in Nat \cup {-1}

FileMap == [n \in NodeId |-> FileOf(n)]
FdMap == [d \in {d \in Fd : fd_table[d].node # NULL} |-> fd_table[d]]

\* The nodes are among those of the abstract specification.
LEMMA NodesBounded ==
    ASSUME VfsInv
    PROVE  DOMAIN nodes \subseteq NodeId /\ NULL \notin DOMAIN nodes /\ Typed(nodes)
<1>1. Typed(nodes)
  BY Zenon DEF VfsInv, TreeInv
<1>2. PICK k \in 1..bound.nodes : DOMAIN nodes = 0..(k - 1)
  BY Zenon DEF VfsInv, Bounded
<1>3. bound.nodes \in 1..MAX_NODES /\ MAX_NODES \in Nat
  BY Zenon, VfsAssumption DEF VfsInv
<1>4. 0..(k - 1) \subseteq 0..(MAX_NODES - 1)
  BY ONLY <1>3, k \in 1..bound.nodes
<1>5. DOMAIN nodes \subseteq NodeId
  BY ONLY Zenon, <1>2, <1>4 DEF NodeId
<1> QED BY Zenon, <1>1, <1>5, NotNull

\* A file by the data of its node.
LEMMA FileIs ==
    /\ \A n \in DOMAIN nodes : FileOf(n) = Bytes(nodes[n].data)
    /\ \A n : n \notin DOMAIN nodes => FileOf(n) = <<>>
  BY ONLY Zenon DEF FileOf, Bytes

\* Files are the same if the data of the nodes are and new nodes have none.
LEMMA FilesSame ==
    ASSUME DOMAIN nodes \subseteq DOMAIN nodes', Kept(nodes, nodes'),
           \A n \in DOMAIN nodes' : n \notin DOMAIN nodes => nodes'[n].data = NoData
    PROVE  FileMap' = FileMap
<1>1. ASSUME NEW n PROVE FileOf(n)' = FileOf(n)
  <2>1. CASE n \in DOMAIN nodes
    <3>1. nodes'[n].data = nodes[n].data /\ n \in DOMAIN nodes'
      BY Zenon, <2>1 DEF Kept
    <3>2. FileOf(n) = Bytes(nodes[n].data)
      BY ONLY Zenon, <2>1 DEF FileOf, Bytes
    <3>3. FileOf(n)' = Bytes(nodes'[n].data)
      BY ONLY Zenon, <3>1 DEF FileOf, Bytes
    <3> QED BY ONLY Zenon, <3>1, <3>2, <3>3
  <2>2. CASE n \notin DOMAIN nodes
    <3>1. FileOf(n) = <<>>
      BY ONLY Zenon, <2>2 DEF FileOf
    <3>2. n \notin DOMAIN nodes' \/ nodes'[n].data = NoData
      BY Zenon, <2>2
    <3>3. FileOf(n)' = <<>>
      BY ONLY Zenon, <3>2 DEF FileOf
    <3> QED BY ONLY Zenon, <3>1, <3>3
  <2> QED BY Zenon, <2>1, <2>2
<1> QED BY ONLY Zenon, <1>1 DEF FileMap

\* Moving nodes is no step of the abstract files.
Moved == FileMap' = FileMap /\ FdMap' = FdMap /\ out' = out

\* The invariant after a step that changes only nodes, and keeps those there are.
LEMMA NodesMove ==
    ASSUME VfsInv, UNCHANGED <<fd_table, out, bound>>, TreeInv(nodes'),
           DOMAIN nodes \subseteq DOMAIN nodes', Bounded(DOMAIN nodes', bound.nodes),
           Kept(nodes, nodes'),
           \A n \in DOMAIN nodes' : n \notin DOMAIN nodes => nodes'[n].data = NoData
    PROVE  VfsInv' /\ Moved
<1>1. fd_table \in [Fd -> [node : Links(nodes), offset : Nat]]
  BY Zenon DEF VfsInv
<1>2. Links(nodes) \subseteq Links(nodes')
  BY Zenon DEF Links
<1>3. [node : Links(nodes), offset : Nat] \subseteq [node : Links(nodes'), offset : Nat]
  BY ONLY <1>2
<1>4. fd_table' \in [Fd -> [node : Links(nodes'), offset : Nat]]
  BY ONLY Zenon, <1>1, <1>3, UNCHANGED <<fd_table, out, bound>>
<1>5. VfsInv'
  BY Zenon, <1>4 DEF VfsInv
<1>6. FdMap' = FdMap
  BY Zenon DEF FdMap
<1> QED BY Zenon, <1>5, <1>6, FilesSame DEF Moved

\* vfs_init makes the invariant true.
LEMMA InitHolds == ASSUME vfs_init PROVE VfsInv
<1>1. PICK root : root = vfs_create_node("/", "DIRECTORY", NULL)
  BY Zenon
<1>2. nodes = [n \in {Root} |-> root]
  BY ONLY Zenon, <1>1, vfs_init DEF vfs_init
<1>3. DOMAIN nodes = {Root} /\ nodes[Root] = root
  BY ONLY Zenon, <1>2
<1>4. /\ root.type = "DIRECTORY" /\ root.name = "/" /\ root.parent = NULL
      /\ root.child_head = NULL /\ root.child_tail = NULL /\ root.data = NoData
  BY ONLY <1>1 DEF vfs_create_node
<1>5. DOMAIN nodes = 0..(1 - 1)
  BY ONLY <1>3 DEF Root
<1>6. Typed(nodes)
  <2>1. NoData \in Data
    BY ONLY DEF NoData, Data, NULL
  <2>2. root \in Record(Links(nodes))
    <3>1. NULL \in Links(nodes)
      BY ONLY Zenon DEF Links
    <3> QED BY ONLY <1>1, <2>1, <3>1 DEF vfs_create_node, Record, TYPES
  <2>3. nodes \in [DOMAIN nodes -> Record(Links(nodes))]
    BY ONLY Zenon, <1>2, <1>3, <2>2
  <2>4. Numbered(DOMAIN nodes)
    <3>1. 1 \in Nat
      BY ONLY SMT
    <3> QED BY ONLY Zenon, <1>5, <3>1 DEF Numbered
  <2> QED BY ONLY Zenon, <1>3, <1>4, <2>3, <2>4 DEF Typed
<1>7. Named(nodes) /\ Sized(nodes)
  BY ONLY Zenon, <1>3, <1>4 DEF Named, Sized
<1>8. Listed(nodes, Root)
  <2>1. Root # NULL
    BY ONLY DEF Root, NULL
  <2>2. Kids(nodes, Root) = {}
    BY ONLY Zenon, <1>3, <1>4, <2>1 DEF Kids
  <2>3. \A link : Reaches(nodes, NULL, link, {})
    BY ONLY Zenon DEF Reaches
  <2> QED BY ONLY Zenon, <1>3, <1>4, <2>2, <2>3 DEF Listed
<1>9. TreeInv(nodes)
  BY ONLY Zenon, <1>3, <1>6, <1>7, <1>8 DEF TreeInv
<1>10. bound \in BOUNDS /\ Bounded(DOMAIN nodes, bound.nodes)
  <2>1. bound \in BOUNDS
    BY ONLY Zenon, vfs_init DEF vfs_init
  <2>2. bound.nodes \in 1..MAX_NODES
    BY Zenon, <2>1, VfsAssumption
  <2>3. 1 \in 1..bound.nodes
    BY ONLY <2>2, VfsAssumption
  <2> QED BY ONLY Zenon, <1>5, <2>1, <2>3 DEF Bounded
<1>11. fd_table \in [Fd -> [node : Links(nodes), offset : Nat]]
  <2>1. ClosedFd \in [node : Links(nodes), offset : Nat]
    BY ONLY DEF ClosedFd, Links
  <2> QED BY ONLY Zenon, <2>1, vfs_init DEF vfs_init
<1>12. out.ret \in Nat \cup {-1}
  BY ONLY vfs_init DEF vfs_init
<1> QED BY Zenon, <1>9, <1>10, <1>11, <1>12 DEF VfsInv

\* A name that is not found is no child's.
LEMMA NotFound ==
    ASSUME TreeInv(nodes), NEW d \in DOMAIN nodes, NEW name,
           vfs_dir_find_child(d, name) = NULL
    PROVE  \A k \in Kids(nodes, d) : nodes[k].name # name
<1>1. NULL \notin DOMAIN nodes
  BY Zenon, NotNull DEF TreeInv
<1>2. \A k \in Kids(nodes, d) : k # NULL
  BY Zenon, <1>1 DEF Kids
<1> QED BY Zenon, <1>2, FindIs

\* Creating a node keeps the invariant and is no step of the files.
LEMMA CreateStep == ASSUME VfsInv, Create, UNCHANGED bound PROVE VfsInv' /\ Moved
<1>1. TreeInv(nodes) /\ Typed(nodes)
  BY Zenon DEF VfsInv, TreeInv
<1>2. PICK k \in 1..(bound.nodes - 1), dir \in Directories, kind \in KINDS :
         /\ DOMAIN nodes = 0..(k - 1)
         /\ vfs_dir_find_child(dir, kind[1]) = NULL
         /\ nodes' = vfs_dir_add_child(WithNew(nodes, k, vfs_create_node(kind[1], kind[2], dir)),
                                       dir, k)
         /\ UNCHANGED <<fd_table, out>>
  BY Zenon DEF Create, WithNew
<1>3. dir \in DOMAIN nodes /\ nodes[dir].type = "DIRECTORY"
  BY Zenon, <1>1, TreeFacts DEF Directories
<1>4. \A n \in Kids(nodes, dir) : nodes[n].name # kind[1]
  BY Zenon, <1>1, <1>2, <1>3, NotFound
<1>5. bound.nodes \in Nat /\ k \in Nat
  BY VfsAssumption DEF VfsInv
<1>6. TreeInv(nodes') /\ Created(nodes, nodes', k)
  <2>1. Creates(nodes, nodes', k, dir, kind)
    BY ONLY Zenon, <1>2, <1>3, <1>4, <1>5, kind \in KINDS DEF Creates
  <2> QED BY ONLY Zenon, <1>1, <2>1, CreateKeeps
<1>7. Bounded(DOMAIN nodes', bound.nodes)
  <2>1. PICK c : c = k + 1
    BY Zenon
  <2>2. c \in 1..bound.nodes
    BY ONLY <1>5, <2>1, k \in 1..(bound.nodes - 1)
  <2>3. DOMAIN nodes' = 0..(c - 1)
    BY ONLY <1>2, <1>5, <1>6, <2>1 DEF Created
  <2> QED BY ONLY Zenon, <2>2, <2>3 DEF Bounded
<1>8. /\ DOMAIN nodes \subseteq DOMAIN nodes' /\ Kept(nodes, nodes')
      /\ \A n \in DOMAIN nodes' : n \notin DOMAIN nodes => nodes'[n].data = NoData
  BY Zenon, <1>6 DEF Created
<1> QED BY Zenon, <1>2, <1>6, <1>7, <1>8, NodesMove

\* Taking a node out of its directory keeps the invariant and is no step of the
\* files.
LEMMA TakeOutStep == ASSUME VfsInv, TakeOut, UNCHANGED bound PROVE VfsInv' /\ Moved
<1>1. TreeInv(nodes) /\ Typed(nodes) /\ Bounded(DOMAIN nodes, bound.nodes)
  BY Zenon DEF VfsInv, TreeInv
<1>2. PICK dir \in Directories : \E child \in Children(dir) :
         /\ nodes' = vfs_dir_remove_child(nodes, dir, child)
         /\ UNCHANGED <<fd_table, out>>
  BY Zenon DEF TakeOut
<1>3. PICK child \in Children(dir) :
         /\ nodes' = vfs_dir_remove_child(nodes, dir, child)
         /\ UNCHANGED <<fd_table, out>>
  BY Zenon, <1>2
<1>4. dir \in DOMAIN nodes
  BY Zenon, <1>1, TreeFacts DEF Directories
<1>5. child \in Kids(nodes, dir)
  BY Zenon, <1>1, <1>4, ListsAgree DEF DirectoryLists, Kids
<1>6. TreeInv(nodes') /\ DOMAIN nodes' = DOMAIN nodes /\ Kept(nodes, nodes')
  BY ONLY <1>1, <1>4, <1>5, <1>3, RemoveKeeps
<1>7. /\ DOMAIN nodes \subseteq DOMAIN nodes' /\ Bounded(DOMAIN nodes', bound.nodes)
      /\ \A n \in DOMAIN nodes' : n \notin DOMAIN nodes => nodes'[n].data = NoData
  BY ONLY Zenon, <1>1, <1>6
<1> QED BY Zenon, <1>6, <1>7, <1>3, NodesMove

\* Putting a node into a directory keeps the invariant and is no step of the files.
LEMMA PutBackStep == ASSUME VfsInv, PutBack, UNCHANGED bound PROVE VfsInv' /\ Moved
<1>1. TreeInv(nodes) /\ Typed(nodes) /\ Bounded(DOMAIN nodes, bound.nodes)
  BY Zenon DEF VfsInv, TreeInv
<1>2. PICK dir \in Directories, child \in DOMAIN nodes :
         /\ child \notin Tree /\ nodes[child].parent = NULL
         /\ vfs_dir_find_child(dir, nodes[child].name) = NULL
         /\ nodes' = vfs_dir_add_child(nodes, dir, child)
         /\ UNCHANGED <<fd_table, out>>
  BY Zenon DEF PutBack
<1>3. /\ dir \in DOMAIN nodes /\ nodes[dir].type = "DIRECTORY" /\ child # dir /\ child # Root
  BY Zenon, <1>1, <1>2, TreeFacts DEF Directories
<1>4. \A k \in Kids(nodes, dir) : nodes[k].name # nodes[child].name
  BY Zenon, <1>1, <1>2, <1>3, NotFound
<1>5. TreeInv(nodes') /\ DOMAIN nodes' = DOMAIN nodes /\ Kept(nodes, nodes')
  BY ONLY <1>1, <1>2, <1>3, <1>4, AddKeeps
<1>6. /\ DOMAIN nodes \subseteq DOMAIN nodes' /\ Bounded(DOMAIN nodes', bound.nodes)
      /\ \A n \in DOMAIN nodes' : n \notin DOMAIN nodes => nodes'[n].data = NoData
  BY ONLY Zenon, <1>1, <1>5
<1> QED BY Zenon, <1>2, <1>5, <1>6, NodesMove

-----------------------------------------------------------------------------
(* The calls, each a step of the abstract files.                           *)

FdType == [Fd -> [node : Links(nodes), offset : Nat]]

\* A descriptor is open in the abstract specification if it has a node.
LEMMA FdsAre ==
    /\ DOMAIN FdMap = {d \in Fd : fd_table[d].node # NULL}
    /\ \A d \in DOMAIN FdMap : FdMap[d] = fd_table[d]
  BY ONLY Zenon DEF FdMap

\* What a call leaves that does not change nodes.
LEMMA CallInv ==
    ASSUME VfsInv, nodes' = nodes, bound' = bound, fd_table' \in FdType,
           out'.ret \in Nat \cup {-1}
    PROVE  VfsInv' /\ FileMap' = FileMap
<1>1. VfsInv'
  BY Zenon DEF VfsInv, FdType
<1>2. FileMap' = FileMap
  BY ONLY Zenon, nodes' = nodes DEF FileMap, FileOf
<1> QED BY Zenon, <1>1, <1>2

\* A call that fails and changes nothing.
LEMMA FailStep ==
    ASSUME VfsInv, nodes' = nodes, bound' = bound, fd_table' = fd_table,
           NEW call \in Files!Calls, out' = [call |-> call, ret |-> -1, buf |-> <<>>]
    PROVE  VfsInv' /\ Files!Fails
<1>1. fd_table' \in FdType
  BY Zenon DEF VfsInv, FdType
<1>2. out'.ret = -1
  BY ONLY out' = [call |-> call, ret |-> -1, buf |-> <<>>]
<1>3. VfsInv' /\ FileMap' = FileMap
  BY Zenon, <1>1, <1>2, CallInv
<1>4. FdMap' = FdMap
  BY Zenon DEF FdMap
<1> QED BY Zenon, <1>3, <1>4 DEF Files!Fails, Files!Returned, FileMap, FdMap

\* vfs_close closes an open descriptor, or fails.
LEMMA CloseStep ==
    ASSUME VfsInv, bound' = bound, NEW d \in Fd, vfs_close(d)
    PROVE  VfsInv' /\ (Files!Closes \/ Files!Fails)
<1>1. CASE fd_table[d].node = NULL
  <2>1. /\ nodes' = nodes /\ fd_table' = fd_table
        /\ out' = [call |-> <<"close">>, ret |-> -1, buf |-> <<>>]
    BY Zenon, <1>1 DEF vfs_close, Return
  <2>2. <<"close">> \in Files!Calls
    BY ONLY Zenon DEF Files!Calls
  <2> QED BY Zenon, <2>1, <2>2, FailStep
<1>2. CASE fd_table[d].node # NULL
  <2>1. /\ nodes' = nodes /\ out' = [call |-> <<"close">>, ret |-> 0, buf |-> <<>>]
        /\ fd_table' = [fd_table EXCEPT ![d] = ClosedFd]
    BY Zenon, <1>2 DEF vfs_close, Return
  <2>2. fd_table \in FdType
    BY Zenon DEF VfsInv, FdType
  <2>3. ClosedFd \in [node : Links(nodes), offset : Nat] /\ ClosedFd.node = NULL
    BY ONLY DEF ClosedFd, Links
  <2>4. fd_table' \in FdType
    BY ONLY Zenon, <2>1, <2>2, <2>3 DEF FdType
  <2>5. out'.ret \in Nat \cup {-1}
    BY ONLY <2>1
  <2>6. VfsInv' /\ FileMap' = FileMap
    BY Zenon, <2>1, <2>4, <2>5, CallInv
  <2>7. ASSUME NEW e \in Fd PROVE fd_table'[e] = IF e = d THEN ClosedFd ELSE fd_table[e]
    BY ONLY Zenon, <2>1, <2>2, <2>7 DEF FdType
  <2>8. {e \in Fd : fd_table'[e].node # NULL} = DOMAIN FdMap \ {d}
    <3>1. ASSUME NEW e \in Fd PROVE fd_table'[e].node # NULL <=> e \in DOMAIN FdMap \ {d}
      <4>1. CASE e = d
        BY ONLY Zenon, <2>3, <2>7, <3>1, <4>1
      <4>2. CASE e # d
        BY ONLY Zenon, <2>7, <3>1, <4>2, FdsAre
      <4> QED BY Zenon, <4>1, <4>2
    <3> QED BY ONLY Zenon, <3>1, FdsAre
  <2>9. FdMap' = [e \in DOMAIN FdMap \ {d} |-> FdMap[e]]
    <3>1. FdMap' = [e \in DOMAIN FdMap \ {d} |-> fd_table'[e]]
      BY ONLY Zenon, <2>8 DEF FdMap
    <3>2. ASSUME NEW e \in DOMAIN FdMap \ {d} PROVE fd_table'[e] = FdMap[e]
      BY ONLY Zenon, <2>7, <3>2, FdsAre
    <3> QED BY ONLY Zenon, <3>1, <3>2
  <2>10. d \in DOMAIN FdMap
    BY Zenon, <1>2, FdsAre
  <2>11. Files!Closes
    BY ONLY Zenon, <2>1, <2>6, <2>9, <2>10 DEF Files!Closes, Files!Returned, FileMap, FdMap
  <2> QED BY Zenon, <2>6, <2>11
<1> QED BY Zenon, <1>1, <1>2

\* Advancing an open descriptor, by zero too.
LEMMA AdvancedIs ==
    ASSUME fd_table \in FdType, NEW d \in Fd, fd_table[d].node # NULL, NEW k \in Nat,
           fd_table' = Advanced(d, k)
    PROVE  fd_table' \in FdType /\ FdMap' = [FdMap EXCEPT ![d].offset = @ + k]
<1>1. PICK r : r = [fd_table[d] EXCEPT !.offset = @ + k]
  BY Zenon
<1>2. fd_table[d] \in [node : Links(nodes), offset : Nat]
  BY Zenon DEF FdType
<1>3. /\ r \in [node : Links(nodes), offset : Nat] /\ r.node = fd_table[d].node
      /\ k = 0 => r = fd_table[d]
  BY ONLY <1>1, <1>2, k \in Nat
<1>4. ~(k > 0) => k = 0
  BY ONLY k \in Nat
<1>5. fd_table' = [fd_table EXCEPT ![d] = r]
  <2>1. CASE k > 0
    <3>1. fd_table' = [fd_table EXCEPT ![d].offset = @ + k]
      BY ONLY Zenon, <2>1, fd_table' = Advanced(d, k) DEF Advanced
    <3> QED BY ONLY Zenon, <1>1, <3>1
  <2>2. CASE ~(k > 0)
    <3>1. fd_table' = fd_table /\ r = fd_table[d]
      BY ONLY Zenon, <1>3, <1>4, <2>2, fd_table' = Advanced(d, k) DEF Advanced
    <3> QED BY ONLY Zenon, <3>1, fd_table \in FdType DEF FdType
  <2> QED BY Zenon, <2>1, <2>2
<1>6. fd_table' \in FdType
  BY ONLY Zenon, <1>3, <1>5, fd_table \in FdType DEF FdType
<1>7. ASSUME NEW e \in Fd PROVE fd_table'[e] = IF e = d THEN r ELSE fd_table[e]
  BY ONLY Zenon, <1>5, <1>7, fd_table \in FdType DEF FdType
<1>8. \A e \in Fd : fd_table'[e].node = fd_table[e].node
  BY ONLY Zenon, <1>3, <1>7
<1>9. {e \in Fd : fd_table'[e].node # NULL} = DOMAIN FdMap
  BY ONLY Zenon, <1>8, FdsAre
<1>10. d \in DOMAIN FdMap /\ FdMap[d] = fd_table[d]
  BY Zenon, FdsAre
<1>11. FdMap' = [FdMap EXCEPT ![d] = r]
  <2>1. FdMap' = [e \in DOMAIN FdMap |-> fd_table'[e]]
    BY ONLY Zenon, <1>9 DEF FdMap
  <2>2. ASSUME NEW e \in DOMAIN FdMap PROVE fd_table'[e] = IF e = d THEN r ELSE FdMap[e]
    BY ONLY Zenon, <1>7, <2>2, FdsAre
  <2>3. [FdMap EXCEPT ![d] = r] = [e \in DOMAIN FdMap |-> IF e = d THEN r ELSE FdMap[e]]
    BY ONLY Zenon
  <2> QED BY ONLY Zenon, <2>1, <2>2, <2>3
<1>12. r = [FdMap[d] EXCEPT !.offset = @ + k]
  BY ONLY Zenon, <1>1, <1>10
<1>13. FdMap' = [FdMap EXCEPT ![d].offset = @ + k]
  BY ONLY Zenon, <1>11, <1>12
<1> QED BY Zenon, <1>6, <1>13

\* Where a read of count bytes ends, and what it gets.
ReadEnd(from, count, len) == IF from + count < len THEN from + count ELSE len
Got(bytes, from, count) == SubSeq(bytes, from + 1, ReadEnd(from, count, Len(bytes)))

\* What ramfs_read returns of a file: the bytes from the position on, as far as it
\* reaches.
LEMMA ReadIs ==
    ASSUME TreeInv(nodes), NEW n \in DOMAIN nodes, nodes[n].type = "FILE",
           NEW count \in Nat, NEW from \in Nat, NEW got,
           got = Got(Bytes(nodes[n].data), from, count)
    PROVE  ramfs_read(n, count, from) = [ret |-> Len(got), buf |-> got] /\ Len(got) \in Nat
<1> SUFFICES ASSUME NEW r, r = ramfs_read(n, count, from),
                    NEW bytes, bytes = Bytes(nodes[n].data),
                    NEW last, last = ReadEnd(from, count, Len(bytes)),
                    got = SubSeq(bytes, from + 1, last)
             PROVE  r = [ret |-> Len(got), buf |-> got] /\ Len(got) \in Nat
  BY Zenon DEF Got
<1>1. PICK data : data = nodes[n].data
  BY Zenon
<1>2. PICK k : k = IF from + count > data.size THEN data.size - from ELSE count
  BY Zenon
<1>3. /\ data \in Data /\ (data # NoData => Filled(data)) /\ bytes = Bytes(data)
  BY Zenon, <1>1, FieldsOf DEF TreeInv, Sized
<1>4. r = IF data = NoData \/ from >= data.size THEN [ret |-> 0, buf |-> <<>>]
          ELSE [ret |-> k, buf |-> SubSeq(data.content, from + 1, from + k)]
  BY ONLY Zenon, <1>1, <1>2, r = ramfs_read(n, count, from), nodes[n].type = "FILE"
     DEF ramfs_read
<1>5. CASE data = NoData \/ from >= data.size
  <2>1. bytes = <<>> \/ (Len(bytes) = data.size /\ from >= data.size /\ bytes \in Seq(Byte))
    BY ONLY Zenon, <1>3, <1>5, BytesAre DEF Bytes
  <2>2. last \in Int /\ from + 1 \in Int /\ last < from + 1
    <3>1. Len(bytes) \in Nat /\ Len(bytes) <= from
      BY ONLY <2>1, from \in Nat
    <3> QED BY ONLY <3>1, from \in Nat, count \in Nat,
                    last = ReadEnd(from, count, Len(bytes)) DEF ReadEnd
  <2>3. got = <<>>
    BY ONLY <2>2, SubSeqNone, got = SubSeq(bytes, from + 1, last)
  <2>4. Len(got) = 0
    BY ONLY <2>3
  <2> QED BY ONLY <1>4, <1>5, <2>3, <2>4
<1>6. CASE ~(data = NoData \/ from >= data.size)
  <2>1. Filled(data) /\ data # NoData
    BY ONLY Zenon, <1>3, <1>6
  <2>2. PICK c : c = data.content
    BY Zenon
  <2>3. PICK s : s = data.size
    BY Zenon
  <2>4. c \in Seq(Byte) /\ s \in 0..Len(c) /\ Len(c) \in Nat /\ s \in Nat /\ s > from
    BY ONLY <1>3, <1>6, <2>1, <2>2, <2>3, from \in Nat DEF Data, Filled
  <2>5. bytes \in Seq(Byte) /\ Len(bytes) = s /\ \A i \in 1..s : bytes[i] = c[i]
    BY ONLY Zenon, <1>3, <2>1, <2>2, <2>3, BytesAre
  <2>6. /\ last = from + k /\ k \in Nat /\ from + k <= s /\ from + 1 \in Int
        /\ from + k \in Int
        /\ (from + k) - (from + 1) + 1 = k
        /\ (IF from + 1 <= from + k THEN (from + k) - (from + 1) + 1 ELSE 0) = k
    <3>1. k = (IF from + count > s THEN s - from ELSE count)
          /\ last = (IF from + count < s THEN from + count ELSE s)
      BY ONLY Zenon, <1>2, <2>3, <2>5, last = ReadEnd(from, count, Len(bytes)) DEF ReadEnd
    <3>2. k \in Nat /\ last = from + k /\ from + k <= s
      BY ONLY <2>4, <3>1, from \in Nat, count \in Nat
    <3>3. /\ from + 1 \in Int /\ from + k \in Int /\ (from + k) - (from + 1) + 1 = k
          /\ ~(from + 1 <= from + k) => k = 0
      BY ONLY <3>2, from \in Nat
    <3> QED BY ONLY Zenon, <3>2, <3>3
  <2>7. ASSUME NEW i \in (from + 1)..(from + k) PROVE bytes[i] \in Byte /\ c[i] \in Byte
    <3>1. i \in 1..s /\ i \in 1..Len(c)
      BY ONLY <2>4, <2>6, <2>7, from \in Nat
    <3> QED BY ONLY <2>4, <2>5, <3>1
  <2>8. PICK t : t = SubSeq(c, from + 1, from + k)
    BY Zenon
  <2>9. /\ t \in Seq(Byte)
        /\ Len(t) = IF from + 1 <= from + k THEN (from + k) - (from + 1) + 1 ELSE 0
        /\ \A i \in 1..((from + k) - (from + 1) + 1) : t[i] = c[from + 1 + i - 1]
    <3>1. \A i \in (from + 1)..(from + k) : c[i] \in Byte
      BY Zenon, <2>7
    <3> QED BY ONLY <2>6, <2>8, <3>1, SubSeqIs
  <2>10. /\ got \in Seq(Byte)
         /\ Len(got) = IF from + 1 <= from + k THEN (from + k) - (from + 1) + 1 ELSE 0
         /\ \A i \in 1..((from + k) - (from + 1) + 1) : got[i] = bytes[from + 1 + i - 1]
    <3>1. \A i \in (from + 1)..(from + k) : bytes[i] \in Byte
      BY Zenon, <2>7
    <3>2. got = SubSeq(bytes, from + 1, from + k)
      BY ONLY Zenon, <2>6, got = SubSeq(bytes, from + 1, last)
    <3> QED BY ONLY <2>6, <3>1, <3>2, SubSeqIs
  <2>11. Len(t) = k /\ Len(got) = k
    BY ONLY Zenon, <2>6, <2>9, <2>10
  <2>12. ASSUME NEW i \in 1..k PROVE got[i] = t[i]
    <3>1. from + 1 + i - 1 \in 1..s
      BY ONLY <2>4, <2>6, <2>12, from \in Nat
    <3>2. bytes[from + 1 + i - 1] = c[from + 1 + i - 1]
      BY ONLY Zenon, <2>5, <3>1
    <3> QED BY ONLY Zenon, <2>6, <2>9, <2>10, <2>12, <3>2
  <2>13. got = t
    BY ONLY Zenon, <2>9, <2>10, <2>11, <2>12, SameSeq
  <2>14. r = [ret |-> k, buf |-> t]
    BY ONLY Zenon, <1>4, <1>6, <2>2, <2>8
  <2> QED BY ONLY Zenon, <2>6, <2>11, <2>13, <2>14
<1> QED BY Zenon, <1>5, <1>6

\* vfs_read returns the bytes at the position and moves it, or fails.
LEMMA ReadStep ==
    ASSUME VfsInv, bound' = bound, NEW d \in Fd, NEW count \in COUNTS, vfs_read(d, count)
    PROVE  VfsInv' /\ (Files!Reads \/ Files!Fails)
<1>1. PICK r : r = IF fd_table[d].node = NULL THEN [ret |-> -1, buf |-> <<>>]
                   ELSE ramfs_read(fd_table[d].node, count, fd_table[d].offset)
  BY Zenon
<1>2. /\ out' = [call |-> <<"read">>, ret |-> r.ret, buf |-> r.buf]
      /\ fd_table' = Advanced(d, r.ret) /\ nodes' = nodes
  BY ONLY Zenon, <1>1, vfs_read(d, count) DEF vfs_read, Return
<1>3. TreeInv(nodes) /\ fd_table \in FdType
  BY Zenon DEF VfsInv, FdType
<1>4. CASE r = [ret |-> -1, buf |-> <<>>]
  <2>1. r.ret = -1 /\ r.buf = <<>> /\ ~(-1 > 0)
    BY ONLY <1>4
  <2>2. fd_table' = fd_table
    BY ONLY Zenon, <1>2, <2>1 DEF Advanced
  <2>3. <<"read">> \in Files!Calls
    BY ONLY Zenon DEF Files!Calls
  <2> QED BY Zenon, <1>2, <2>1, <2>2, <2>3, FailStep
<1>5. CASE r # [ret |-> -1, buf |-> <<>>]
  <2>1. PICK n : n = fd_table[d].node
    BY Zenon
  <2>2. PICK from : from = fd_table[d].offset
    BY Zenon
  <2>3. n # NULL /\ r = ramfs_read(n, count, from)
    BY ONLY Zenon, <1>1, <1>5, <2>1, <2>2
  <2>4. fd_table[d] \in [node : Links(nodes), offset : Nat]
    BY Zenon, <1>3 DEF FdType
  <2>5. n \in Links(nodes) /\ from \in Nat
    BY ONLY <2>1, <2>2, <2>4
  <2>6. n \in DOMAIN nodes /\ n \in NodeId
    BY Zenon, <2>3, <2>5, NodesBounded DEF Links
  <2>7. nodes[n].type = "FILE"
    BY ONLY Zenon, <1>5, <2>3 DEF ramfs_read
  <2>8. count \in Nat
    BY VfsAssumption
  <2>9. PICK bytes : bytes = FileMap[n]
    BY Zenon
  <2>10. bytes = Bytes(nodes[n].data)
    BY ONLY Zenon, <2>6, <2>9, FileIs DEF FileMap
  <2>11. PICK got : got = Got(bytes, from, count)
    BY Zenon
  <2>12. got = Got(Bytes(nodes[n].data), from, count)
    BY ONLY Zenon, <2>10, <2>11
  <2>13. r = [ret |-> Len(got), buf |-> got] /\ Len(got) \in Nat
    BY ONLY <1>3, <2>3, <2>5, <2>6, <2>7, <2>8, <2>12, ReadIs
  <2>14. r.ret = Len(got) /\ r.buf = got
    BY ONLY <2>13
  <2>15. fd_table' \in FdType /\ FdMap' = [FdMap EXCEPT ![d].offset = @ + Len(got)]
    BY ONLY <1>2, <1>3, <2>1, <2>3, <2>13, <2>14, AdvancedIs, d \in Fd
  <2>16. VfsInv' /\ FileMap' = FileMap
    <3>1. out'.ret = r.ret
      BY ONLY <1>2
    <3> QED BY Zenon, <1>2, <2>13, <2>14, <2>15, <3>1, CallInv
  <2>17. d \in DOMAIN FdMap /\ FdMap[d].node = n /\ FdMap[d].offset = from
    BY ONLY Zenon, <2>1, <2>2, <2>3, FdsAre, d \in Fd
  <2>18. out' = [call |-> <<"read">>, ret |-> Len(got), buf |-> got]
    BY ONLY Zenon, <1>2, <2>14
  <2>19. got = SubSeq(FileMap[FdMap[d].node], FdMap[d].offset + 1,
                      IF FdMap[d].offset + count < Len(FileMap[FdMap[d].node])
                      THEN FdMap[d].offset + count ELSE Len(FileMap[FdMap[d].node]))
    BY ONLY Zenon, <2>9, <2>11, <2>17 DEF Got, ReadEnd
  <2>20. Files!Reads
    BY ONLY Zenon, <2>15, <2>16, <2>17, <2>18, <2>19, count \in COUNTS
       DEF Files!Reads, Files!Returned, FileMap, FdMap
  <2> QED BY Zenon, <2>16, <2>20
<1> QED BY Zenon, <1>4, <1>5

\* Setting the data of one node sets its file.
LEMMA FileSet ==
    ASSUME VfsInv, NEW n \in DOMAIN nodes, NEW v, DOMAIN nodes' = DOMAIN nodes,
           \A m \in DOMAIN nodes : nodes'[m].data = (IF m = n THEN v ELSE nodes[m].data)
    PROVE  FileMap' = [FileMap EXCEPT ![n] = Bytes(v)]
<1>1. ASSUME NEW m \in NodeId PROVE FileOf(m)' = IF m = n THEN Bytes(v) ELSE FileMap[m]
  <2>1. FileMap[m] = FileOf(m)
    BY ONLY Zenon, <1>1 DEF FileMap
  <2>2. CASE m \in DOMAIN nodes
    <3>1. FileOf(m)' = Bytes(nodes'[m].data)
      BY ONLY Zenon, <2>2, DOMAIN nodes' = DOMAIN nodes DEF FileOf, Bytes
    <3>2. FileOf(m) = Bytes(nodes[m].data)
      BY ONLY Zenon, <2>2, FileIs
    <3>3. nodes'[m].data = (IF m = n THEN v ELSE nodes[m].data)
      BY Zenon, <2>2
    <3> QED BY ONLY Zenon, <2>1, <3>1, <3>2, <3>3
  <2>3. CASE m \notin DOMAIN nodes
    <3>1. FileOf(m)' = <<>> /\ FileOf(m) = <<>>
      BY ONLY Zenon, <2>3, DOMAIN nodes' = DOMAIN nodes DEF FileOf
    <3> QED BY Zenon, <2>1, <2>3, <3>1
  <2> QED BY Zenon, <2>2, <2>3
<1>2. FileMap' = [m \in NodeId |-> IF m = n THEN Bytes(v) ELSE FileMap[m]]
  BY ONLY Zenon, <1>1 DEF FileMap
<1>3. DOMAIN FileMap = NodeId
  BY ONLY Zenon DEF FileMap
<1> QED BY ONLY Zenon, <1>2, <1>3

\* vfs_stat returns the size of the file, or any of StatSizes if it has no data, or
\* fails.
LEMMA StatStep ==
    ASSUME VfsInv, bound' = bound, NEW node \in Links(nodes), vfs_stat(node)
    PROVE  VfsInv' /\ (Files!Stats \/ Files!Fails)
<1>1. nodes' = nodes /\ fd_table' = fd_table
  BY Zenon DEF vfs_stat
<1>2. CASE node = NULL
  <2>1. out' = [call |-> <<"stat">>, ret |-> -1, buf |-> <<>>]
    BY Zenon, <1>2 DEF vfs_stat, Return
  <2>2. <<"stat">> \in Files!Calls
    BY ONLY Zenon DEF Files!Calls
  <2> QED BY Zenon, <1>1, <2>1, <2>2, FailStep
<1>3. CASE node # NULL
  <2>1. PICK size \in ramfs_stat(node) : 
        out' = [call |-> <<"stat">>, ret |-> 0, buf |-> <<size>>]
    BY Zenon, <1>3 DEF vfs_stat, Return
  <2>2. node \in DOMAIN nodes /\ node \in NodeId
    BY Zenon, <1>3, NodesBounded DEF Links
  <2>3. PICK data : data = nodes[node].data
    BY Zenon
  <2>4. /\ data \in Data /\ (data # NoData => Filled(data))
        /\ nodes[node].type = "DIRECTORY" => data = NoData
        /\ nodes[node].type \in {"FILE", "DIRECTORY"}
    BY Zenon, <2>2, <2>3, FieldsOf DEF VfsInv, TreeInv, Sized, TYPES
  <2>5. FileMap[node] = Bytes(data)
    BY Zenon, <2>2, <2>3, FileIs DEF FileMap
  <2>6. size \in {Len(FileMap[node])} \cup (IF FileMap[node] = <<>> THEN StatSizes ELSE {})
    <3>1. CASE data = NoData
      <4>1. FileMap[node] = <<>>
        BY ONLY Zenon, <2>5, <3>1 DEF Bytes
      <4>2. size \in {0} \cup StatSizes
        BY ONLY Zenon, <2>1, <2>3, <3>1 DEF ramfs_stat
      <4>3. Len(<<>>) = 0
        OBVIOUS
      <4> QED BY ONLY Zenon, <4>1, <4>2, <4>3
    <3>2. CASE data # NoData
      <4>1. nodes[node].type = "FILE"
        BY ONLY Zenon, <2>4, <3>2
      <4>2. size = data.size
        BY ONLY Zenon, <2>1, <2>3, <3>2, <4>1 DEF ramfs_stat
      <4>3. Len(Bytes(data)) = data.size
        BY ONLY Zenon, <2>4, <3>2, BytesAre
      <4> QED BY ONLY Zenon, <2>5, <4>2, <4>3
    <3> QED BY Zenon, <3>1, <3>2
  <2>7. fd_table' \in FdType
    BY Zenon, <1>1 DEF VfsInv, FdType
  <2>8. out'.ret \in Nat \cup {-1}
    BY ONLY <2>1
  <2>9. VfsInv' /\ FileMap' = FileMap /\ FdMap' = FdMap
    BY Zenon, <1>1, <2>7, <2>8, CallInv DEF FdMap
  <2>10. Files!Stats
    BY ONLY Zenon, <2>1, <2>2, <2>6, <2>9 DEF Files!Stats, Files!Returned, FileMap, FdMap
  <2> QED BY Zenon, <2>9, <2>10
<1> QED BY Zenon, <1>2, <1>3

\* VfsTypeOK is part of the invariant.
LEMMA InvTypes == ASSUME VfsInv PROVE VfsTypeOK
<1>1. Typed(nodes) /\ Sized(nodes) /\ fd_table \in FdType
  BY Zenon DEF VfsInv, TreeInv, FdType
<1>2. ASSUME NEW n \in DOMAIN nodes
      PROVE  /\ nodes[n].type \in TYPES
             /\ {nodes[n].parent, nodes[n].child_head, nodes[n].child_tail,
                 nodes[n].next_sibling, nodes[n].prev_sibling} \subseteq DOMAIN nodes \cup {NULL}
             /\ nodes[n].data.content \in Seq(Byte)
             /\ nodes[n].data.size \in {NULL} \cup 0..Len(nodes[n].data.content)
  <2>1. /\ nodes[n].type \in TYPES
        /\ nodes[n].parent \in Links(nodes) /\ nodes[n].child_head \in Links(nodes)
        /\ nodes[n].child_tail \in Links(nodes) /\ nodes[n].next_sibling \in Links(nodes)
        /\ nodes[n].prev_sibling \in Links(nodes) /\ nodes[n].data \in Data
    BY Zenon, <1>1, FieldsOf
  <2>2. {nodes[n].parent, nodes[n].child_head, nodes[n].child_tail, nodes[n].next_sibling,
         nodes[n].prev_sibling} \subseteq DOMAIN nodes \cup {NULL}
    BY ONLY Zenon, <2>1 DEF Links
  <2>3. nodes[n].data.content \in Seq(Byte)
    BY ONLY <2>1 DEF Data
  <2>4. nodes[n].data = NoData => nodes[n].data.size = NULL
    BY ONLY DEF NoData
  <2>5. nodes[n].data # NoData => nodes[n].data.size \in 0..Len(nodes[n].data.content)
    BY Zenon, <1>1 DEF Sized, Filled
  <2> QED BY ONLY Zenon, <2>1, <2>2, <2>3, <2>4, <2>5
<1>3. ASSUME NEW d \in Fd
      PROVE  fd_table[d].node \in DOMAIN nodes \cup {NULL} /\ fd_table[d].offset \in Nat
  <2>1. fd_table[d] \in [node : Links(nodes), offset : Nat]
    BY Zenon, <1>1 DEF FdType
  <2> QED BY ONLY <2>1 DEF Links
<1>4. \E k \in 1..bound.nodes : DOMAIN nodes = 0..(k - 1)
  BY Zenon DEF VfsInv, Bounded
<1> QED BY Zenon, <1>2, <1>3, <1>4 DEF VfsTypeOK, VfsInv

-----------------------------------------------------------------------------
(* Recursive functions and CHOOSE.  A recursive function is shown to exist *)
(* from the least argument at which it would not.                          *)

WF == INSTANCE WellFoundedInduction

\* A set of numbers that is not empty has a least one.
LEMMA LeastOf ==
    ASSUME NEW S, S \subseteq Nat, S # {}
    PROVE  \E m \in S : \A j \in S : m <= j
<1> DEFINE R == WF!OpToRel(<, Nat)
<1>1. WF!IsWellFoundedOn(R, Nat)
  BY Zenon, WF!NatLessThanWellFounded
<1> HIDE DEF R
<1>2. PICK x \in S : \A y \in S : ~(<<y, x>> \in R)
  BY Zenon, <1>1, WF!WFMin
<1>3. \A y \in S : ~(y < x)
  BY Zenon, <1>2 DEF R, WF!OpToRel
<1> QED BY <1>2, <1>3

\* What the loop of resolve_path holds after each of k rounds.
Rounds(path, k, t) ==
    t = [i \in 0..k |-> IF i = 0 THEN Root ELSE Step(t[i - 1], path[i])]

\* The loop has such a course, however long the path is.
LEMMA RoundsExist == ASSUME NEW path, NEW k \in Nat PROVE \E t : Rounds(path, k, t)
<1> DEFINE B == {j \in Nat : ~ \E t : Rounds(path, j, t)}
<1> SUFFICES ASSUME B # {} PROVE FALSE
  BY Zenon
<1>1. PICK m \in B : \A j \in B : m <= j
  <2>1. B \subseteq Nat
    BY Zenon
  <2> HIDE DEF B
  <2> QED BY Zenon, <2>1, LeastOf
<1>2. m \in Nat /\ ~ \E t : Rounds(path, m, t)
  BY Zenon, <1>1
<1>3. CASE m = 0
  <2>1. PICK t : t = [i \in 0..0 |-> Root]
    BY Zenon
  <2>2. t = [i \in 0..0 |-> IF i = 0 THEN Root ELSE Step(t[i - 1], path[i])]
    BY ONLY <2>1
  <2>3. Rounds(path, 0, t)
    BY Zenon, <2>2 DEF Rounds
  <2> QED BY Zenon, <1>2, <1>3, <2>3
<1>4. CASE m # 0
  <2>1. m - 1 \in Nat /\ ~(m <= m - 1)
    BY <1>2, <1>4
  <2>2. PICK t : Rounds(path, m - 1, t)
    BY Zenon, <1>1, <2>1
  <2>3. PICK s : s = Step(t[m - 1], path[m])
    BY Zenon
  <2>4. PICK u : u = [i \in 0..m |-> IF i = m THEN s ELSE t[i]]
    BY Zenon
  <2>5. /\ DOMAIN t = 0..(m - 1)
        /\ \A i \in 0..(m - 1) : t[i] = IF i = 0 THEN Root ELSE Step(t[i - 1], path[i])
    BY ONLY Zenon, <2>2 DEF Rounds
  <2>6. ASSUME NEW i \in 0..m PROVE u[i] = IF i = 0 THEN Root ELSE Step(u[i - 1], path[i])
    <3>1. CASE i = m
      <4>1. u[i] = s /\ u[i - 1] = t[m - 1]
        BY ONLY <1>2, <1>4, <2>4, <3>1
      <4> QED BY ONLY Zenon, <1>4, <2>3, <3>1, <4>1
    <3>2. CASE i # m /\ i # 0
      <4>1. u[i] = t[i] /\ u[i - 1] = t[i - 1] /\ i \in 0..(m - 1)
        BY ONLY <1>2, <2>4, <2>6, <3>2
      <4> QED BY ONLY Zenon, <2>5, <3>2, <4>1
    <3>3. CASE i = 0
      <4>1. u[0] = t[0] /\ 0 \in 0..(m - 1)
        BY ONLY <1>2, <1>4, <2>4
      <4> QED BY ONLY Zenon, <2>5, <3>3, <4>1
    <3> QED BY Zenon, <1>4, <3>1, <3>2, <3>3
  <2>7. u = [i \in 0..m |-> IF i = 0 THEN Root ELSE Step(u[i - 1], path[i])]
    BY ONLY Zenon, <2>4, <2>6
  <2> QED BY Zenon, <1>2, <2>7 DEF Rounds
<1> QED BY Zenon, <1>3, <1>4

\* Rounds over paths that begin alike begin alike.
LEMMA RoundsAgree ==
    ASSUME NEW path, NEW k \in Nat, NEW t, Rounds(path, k, t),
           NEW long, NEW l \in Nat, NEW u, Rounds(long, l, u), k <= l,
           \A i \in 1..k : long[i] = path[i]
    PROVE  t[k] = u[k]
<1> DEFINE B == {j \in Nat : j <= k /\ t[j] # u[j]}
<1>1. ASSUME NEW m \in B, \A j \in B : m <= j PROVE FALSE
  <2>1. m \in Nat /\ m <= k /\ t[m] # u[m]
    BY Zenon
  <2>2. m \in 0..k /\ m \in 0..l
    BY <2>1
  <2>3. t[m] = (IF m = 0 THEN Root ELSE Step(t[m - 1], path[m]))
    BY ONLY Zenon, <2>2, Rounds(path, k, t) DEF Rounds
  <2>4. u[m] = (IF m = 0 THEN Root ELSE Step(u[m - 1], long[m]))
    BY ONLY Zenon, <2>2, Rounds(long, l, u) DEF Rounds
  <2>5. m # 0
    BY ONLY Zenon, <2>1, <2>3, <2>4
  <2>6. m - 1 \in Nat /\ m - 1 <= k /\ ~(m <= m - 1) /\ m \in 1..k
    BY <2>1, <2>5
  <2>7. t[m - 1] = u[m - 1]
    BY Zenon, <1>1, <2>6
  <2> QED BY Zenon, <2>1, <2>3, <2>4, <2>5, <2>6, <2>7
<1>2. B = {}
  <2>1. B \subseteq Nat
    BY Zenon
  <2> HIDE DEF B
  <2> QED BY Zenon, <1>1, <2>1, LeastOf
<1>3. k <= k
  OBVIOUS
<1> QED BY Zenon, <1>2, <1>3

\* resolve_path returns what its last round leaves.
LEMMA ResolveRounds ==
    ASSUME NEW path, Len(path) \in Nat
    PROVE  \E t : Rounds(path, Len(path), t) /\ resolve_path(path) = t[Len(path)]
<1> DEFINE at == CHOOSE t : t = [i \in 0..Len(path) |->
                                    IF i = 0 THEN Root ELSE Step(t[i - 1], path[i])]
<1>1. \E t : t = [i \in 0..Len(path) |-> IF i = 0 THEN Root ELSE Step(t[i - 1], path[i])]
  BY Zenon, RoundsExist DEF Rounds
<1>2. at = [i \in 0..Len(path) |-> IF i = 0 THEN Root ELSE Step(at[i - 1], path[i])]
  BY Zenon, <1>1
<1>3. resolve_path(path) = at[Len(path)]
  BY Zenon DEF resolve_path
<1> HIDE DEF at
<1> QED BY Zenon, <1>2, <1>3 DEF Rounds

\* The empty path leads to the root, and one more component is one more round.
LEMMA ResolveStep ==
    ASSUME NEW S, NEW path \in Seq(S), NEW x
    PROVE  /\ resolve_path(<<>>) = Root
           /\ resolve_path(Append(path, x)) = Step(resolve_path(path), x)
<1>1. resolve_path(<<>>) = Root
  <2>1. Len(<<>>) = 0 /\ 0 \in Nat
    OBVIOUS
  <2>2. PICK t : Rounds(<<>>, 0, t) /\ resolve_path(<<>>) = t[0]
    BY ONLY Zenon, <2>1, ResolveRounds
  <2>3. 0 \in 0..0
    OBVIOUS
  <2> QED BY Zenon, <2>2, <2>3 DEF Rounds
<1>2. PICK k : k = Len(path)
  BY Zenon
<1>3. PICK long : long = Append(path, x)
  BY Zenon
<1>4. k \in Nat /\ Len(long) = k + 1 /\ k + 1 \in Nat /\ (k + 1) - 1 = k /\ k <= k + 1
      /\ k + 1 \in 0..(k + 1) /\ k + 1 # 0
  BY <1>2, <1>3
<1>5. \A i \in 1..k : long[i] = path[i]
  BY <1>2, <1>3, <1>4
<1>6. long[k + 1] = x
  BY <1>2, <1>3, <1>4
<1>7. PICK t : Rounds(path, k, t) /\ resolve_path(path) = t[k]
  BY ONLY Zenon, <1>2, <1>4, ResolveRounds
<1>8. PICK u : Rounds(long, k + 1, u) /\ resolve_path(long) = u[k + 1]
  BY ONLY Zenon, <1>4, ResolveRounds
<1>9. t[k] = u[k]
  BY ONLY <1>4, <1>5, <1>7, <1>8, RoundsAgree
<1>10. u[k + 1] = Step(u[k], x)
  <2>1. u[k + 1] = (IF k + 1 = 0 THEN Root ELSE Step(u[(k + 1) - 1], long[k + 1]))
    BY ONLY Zenon, <1>4, <1>8 DEF Rounds
  <2> QED BY ONLY Zenon, <1>4, <1>6, <2>1
<1> QED BY Zenon, <1>1, <1>3, <1>7, <1>8, <1>9, <1>10

\* resolve_path finds a node of the tree on its path.
LEMMA PathFinds ==
    ASSUME TreeInv(nodes), NEW n \in Tree
    PROVE  PathTo(n) \in Seq(NAMES) /\ resolve_path(PathTo(n)) = n
<1> DEFINE S == {m \in Tree : PathTo(m) \in Seq(NAMES) /\ resolve_path(PathTo(m)) = m}
<1>1. Typed(nodes)
  BY Zenon DEF TreeInv
<1>2. Root \in S
  <2>1. PathTo(Root) = <<>> /\ Root \in Tree
    BY Zenon, <1>1, PathToIs, TreeFacts
  <2>2. <<>> \in Seq(NAMES)
    OBVIOUS
  <2>3. resolve_path(<<>>) = Root
    BY Zenon, <2>2, ResolveStep
  <2> QED BY Zenon, <2>1, <2>2, <2>3
<1>3. ASSUME NEW m \in Tree, m # Root, nodes[m].parent \in S PROVE m \in S
  <2>1. PICK d : d = nodes[m].parent
    BY Zenon
  <2>2. d \in Tree /\ PathTo(d) \in Seq(NAMES) /\ resolve_path(PathTo(d)) = d
    BY Zenon, <1>3, <2>1
  <2>3. m \in DOMAIN nodes /\ d \in DOMAIN nodes /\ d # NULL
    BY Zenon, <1>1, <2>2, TreeFacts, NotNull
  <2>4. nodes[m].name \in NAMES
    BY Zenon, <1>1, <1>3, <2>3 DEF Typed
  <2>5. nodes[m].name # "." /\ nodes[m].name # ".."
    BY Zenon, <2>4, VfsAssumption
  <2>6. PathTo(m) = Append(PathTo(d), nodes[m].name)
    BY Zenon, <1>1, <1>3, <2>1, PathToIs
  <2>7. PathTo(m) \in Seq(NAMES)
    BY ONLY <2>2, <2>4, <2>6
  <2>8. resolve_path(PathTo(m)) = Step(d, nodes[m].name)
    BY ONLY Zenon, <2>2, <2>6, ResolveStep
  <2>9. vfs_dir_find_child(d, nodes[m].name) = m
    BY Zenon, <2>1, <2>3, FindIs DEF Kids
  <2>10. Step(d, nodes[m].name) = m
    BY ONLY Zenon, <2>3, <2>5, <2>9 DEF Step
  <2> QED BY Zenon, <2>7, <2>8, <2>10
<1>4. S = Tree
  <2>1. S \in SUBSET Tree
    BY Zenon
  <2>2. \A m \in Tree : m # Root /\ nodes[m].parent \in S => m \in S
    BY Zenon, <1>3
  <2> HIDE DEF S
  <2> QED BY Zenon, <1>1, <1>2, <2>1, <2>2, TreeInduction
<1> QED BY Zenon, <1>4

\* TreeInv says of every path what PathsResolve does.
LEMMA PathsAreResolved == ASSUME TreeInv(nodes) PROVE PathsResolve
<1> SUFFICES ASSUME NEW n \in Tree, NEW path, path = PathTo(n)
             PROVE  /\ vfs_lookup(path) = n
                    /\ vfs_lookup(path \o <<"..">>) =
                          (IF n = Root THEN Root ELSE nodes[n].parent)
                    /\ (vfs_mount(path) = 0) = (n \in Directories)
                    /\ \A name \in NAMES : vfs_lookup(path \o <<".", name>>) \in
                          {m \in Tree : nodes[m].parent = n /\ nodes[m].name = name} \cup
                          {NULL}
  BY Zenon DEF PathsResolve
<1>1. Typed(nodes)
  BY Zenon DEF TreeInv
<1>2. path \in Seq(NAMES) /\ resolve_path(path) = n
  BY Zenon, PathFinds
<1>3. n \in DOMAIN nodes /\ n # NULL
  BY Zenon, <1>1, TreeFacts, NotNull
<1>4. vfs_lookup(path \o <<"..">>) = (IF n = Root THEN Root ELSE nodes[n].parent)
  <2>1. path \o <<"..">> = Append(path, "..")
    BY ONLY <1>2
  <2>2. vfs_lookup(path \o <<"..">>) = Step(n, "..")
    BY ONLY Zenon, <1>2, <2>1, ResolveStep DEF vfs_lookup
  <2>3. ".." # "."
    OBVIOUS
  <2>4. Step(n, "..") = IF nodes[n].parent # NULL THEN nodes[n].parent ELSE n
    BY ONLY Zenon, <1>3, <2>3 DEF Step
  <2>5. n = Root => nodes[n].parent = NULL
    BY Zenon, <1>1 DEF Typed
  <2>6. n # Root => nodes[n].parent # NULL
    BY Zenon, <1>1, TreeFacts, NotNull
  <2> QED BY ONLY Zenon, <2>2, <2>4, <2>5, <2>6
<1>5. (vfs_mount(path) = 0) = (n \in Directories)
  <2>1. vfs_mount(path) = IF nodes[n].type # "DIRECTORY" THEN -1 ELSE 0
    BY ONLY Zenon, <1>2, <1>3 DEF vfs_mount
  <2>2. n \in Directories <=> nodes[n].type = "DIRECTORY"
    BY Zenon DEF Directories
  <2> QED BY ONLY <2>1, <2>2
<1>6. ASSUME NEW name \in NAMES
      PROVE  vfs_lookup(path \o <<".", name>>) \in
                {m \in Tree : nodes[m].parent = n /\ nodes[m].name = name} \cup {NULL}
  <2>1. path \o <<".", name>> = Append(Append(path, "."), name)
    BY ONLY <1>2
  <2>2. Append(path, ".") \in Seq(NAMES \cup {"."})
    BY ONLY <1>2
  <2>3. resolve_path(Append(path, ".")) = Step(n, ".")
    BY ONLY Zenon, <1>2, ResolveStep
  <2>4. Step(n, ".") = n
    BY ONLY Zenon, <1>3 DEF Step
  <2>5. vfs_lookup(path \o <<".", name>>) = Step(n, name)
    BY ONLY Zenon, <2>1, <2>2, <2>3, <2>4, ResolveStep DEF vfs_lookup
  <2>6. name # "." /\ name # ".."
    BY Zenon, VfsAssumption
  <2>7. Step(n, name) = vfs_dir_find_child(n, name)
    BY ONLY Zenon, <1>3, <2>6 DEF Step
  <2>8. CASE \A k \in Kids(nodes, n) : nodes[k].name # name
    BY Zenon, <1>3, <2>5, <2>7, <2>8, FindIs
  <2>9. ASSUME NEW k \in Kids(nodes, n), nodes[k].name = name
        PROVE  vfs_lookup(path \o <<".", name>>) \in
                  {m \in Tree : nodes[m].parent = n /\ nodes[m].name = name} \cup {NULL}
    <3>1. vfs_lookup(path \o <<".", name>>) = k
      BY Zenon, <1>3, <2>5, <2>7, <2>9, FindIs
    <3>2. k \in Tree /\ nodes[k].parent = n
      BY Zenon, <1>1, TreeFacts DEF Kids
    <3> QED BY ONLY Zenon, <2>9, <3>1, <3>2
  <2> QED BY Zenon, <2>8, <2>9
<1> QED BY Zenon, <1>2, <1>4, <1>5, <1>6 DEF vfs_lookup

\* The loop that doubles the capacity, started from each capacity of k..N.
Loops(N, size, k, f) == f = [c \in k..N |-> IF c < size THEN f[2 * c] ELSE c]

\* The loop ends, from whichever capacity it starts.
LEMMA LoopsExist ==
    ASSUME NEW N \in Nat, NEW size \in Nat, 2 * size <= N
    PROVE  \E f : Loops(N, size, 1, f)
<1> DEFINE B == {j \in Nat : j <= N /\ ~ \E f : Loops(N, size, (N + 1) - j, f)}
<1>1. ASSUME NEW m \in B, \A j \in B : m <= j PROVE FALSE
  <2>1. m \in Nat /\ m <= N /\ ~ \E f : Loops(N, size, (N + 1) - m, f)
    BY Zenon
  <2>2. CASE m = 0
    <3>1. PICK f : f = [c \in (N + 1)..N |-> 0]
      BY Zenon
    <3>2. (N + 1)..N = {} /\ (N + 1) - 0 = N + 1
      OBVIOUS
    <3>3. f = [c \in (N + 1)..N |-> IF c < size THEN f[2 * c] ELSE c]
      BY ONLY Zenon, <3>1, <3>2
    <3> QED BY Zenon, <2>1, <2>2, <3>2, <3>3 DEF Loops
  <2>3. CASE m # 0
    <3>1. PICK k : k = (N + 1) - m
      BY Zenon
    <3>2. m - 1 \in Nat /\ m - 1 <= N /\ ~(m <= m - 1) /\ (N + 1) - (m - 1) = k + 1
          /\ k \in Nat /\ k # 0
      BY <2>1, <2>3, <3>1
    <3>3. PICK f : Loops(N, size, k + 1, f)
      <4>1. m - 1 \notin B
        BY Zenon, <1>1, <3>2
      <4>2. \E f : Loops(N, size, (N + 1) - (m - 1), f)
        BY Zenon, <3>2, <4>1
      <4> QED BY Zenon, <3>2, <4>2
    <3>4. PICK s : s = IF k < size THEN f[2 * k] ELSE k
      BY Zenon
    <3>5. PICK u : u = [c \in k..N |-> IF c = k THEN s ELSE f[c]]
      BY Zenon
    <3>6. ASSUME NEW c \in k..N PROVE u[c] = IF c < size THEN u[2 * c] ELSE c
      <4>1. c < size => u[2 * c] = f[2 * c]
        BY ONLY <3>2, <3>5, N \in Nat, size \in Nat, 2 * size <= N, c \in k..N
      <4>2. CASE c = k
        <5>1. u[c] = s
          BY ONLY Zenon, <3>5, <4>2, c \in k..N
        <5> QED BY ONLY Zenon, <3>4, <4>1, <4>2, <5>1
      <4>3. CASE c # k
        <5>1. u[c] = f[c] /\ c \in (k + 1)..N
          BY ONLY <3>2, <3>5, <4>3, N \in Nat, c \in k..N
        <5>2. f[c] = IF c < size THEN f[2 * c] ELSE c
          BY ONLY Zenon, <3>3, <5>1 DEF Loops
        <5> QED BY ONLY Zenon, <4>1, <5>1, <5>2
      <4> QED BY Zenon, <4>2, <4>3
    <3>7. Loops(N, size, k, u)
      BY ONLY Zenon, <3>5, <3>6 DEF Loops
    <3> QED BY Zenon, <2>1, <3>1, <3>7
  <2> QED BY Zenon, <2>2, <2>3
<1>2. B = {}
  <2>1. B \subseteq Nat
    BY Zenon
  <2> HIDE DEF B
  <2> QED BY Zenon, <1>1, <2>1, LeastOf
<1>3. N <= N /\ (N + 1) - N = 1
  OBVIOUS
<1> QED BY Zenon, <1>2, <1>3

\* The loop ends with a capacity that is enough, and never with less than before.
LEMMA DoubledIs ==
    ASSUME NEW capacity \in Nat \ {0}, NEW size \in Nat
    PROVE  Doubled(capacity, size) \in Nat /\ Doubled(capacity, size) >= size
           /\ Doubled(capacity, size) >= capacity
<1>1. PICK N : N = capacity + 2 * size
  BY Zenon
<1>2. N \in Nat /\ 2 * size <= N /\ capacity \in 1..N
  BY <1>1
<1> DEFINE f == CHOOSE g : g = [c \in 1..N |-> IF c < size THEN g[2 * c] ELSE c]
<1>3. f = [c \in 1..N |-> IF c < size THEN f[2 * c] ELSE c]
  <2>1. \E g : g = [c \in 1..N |-> IF c < size THEN g[2 * c] ELSE c]
    BY Zenon, <1>2, LoopsExist DEF Loops
  <2> QED BY ONLY Zenon, <2>1
<1>4. Doubled(capacity, size) = f[capacity]
  BY ONLY Zenon, <1>1 DEF Doubled
<1> HIDE DEF f
<1> DEFINE Good(c) == f[c] \in Nat /\ f[c] >= size /\ f[c] >= c
           B == {j \in Nat : j < N /\ ~Good(N - j)}
<1>5. ASSUME NEW m \in B, \A j \in B : m <= j PROVE FALSE
  <2>1. m \in Nat /\ m < N /\ ~Good(N - m)
    BY Zenon
  <2>2. PICK c : c = N - m
    BY Zenon
  <2>3. c \in 1..N /\ c \in Nat /\ c # 0 /\ m = N - c
    BY ONLY <1>2, <2>1, <2>2
  <2>4. f[c] = IF c < size THEN f[2 * c] ELSE c
    BY ONLY Zenon, <1>3, <2>3
  <2>5. CASE ~(c < size)
    <3>1. f[c] = c
      BY ONLY Zenon, <2>4, <2>5
    <3>2. Good(c)
      BY ONLY <2>3, <2>5, <3>1, size \in Nat
    <3> QED BY Zenon, <2>1, <2>2, <3>2
  <2>6. CASE c < size
    <3>1. N - 2 * c \in Nat /\ N - 2 * c < N /\ N - (N - 2 * c) = 2 * c
          /\ ~(m <= N - 2 * c) /\ 2 * c \in Nat /\ 2 * c >= c
      BY ONLY <1>2, <2>3, <2>6, size \in Nat
    <3>2. N - 2 * c \notin B
      BY ONLY Zenon, <1>5, <3>1
    <3>3. Good(N - (N - 2 * c))
      BY ONLY Zenon, <3>1, <3>2
    <3>4. f[2 * c] \in Nat /\ f[2 * c] >= size /\ f[2 * c] >= 2 * c
      BY ONLY <3>1, <3>3
    <3>5. Good(c)
      BY ONLY <2>3, <2>4, <2>6, <3>1, <3>4, size \in Nat
    <3> QED BY Zenon, <2>1, <2>2, <3>5
  <2> QED BY Zenon, <2>5, <2>6
<1>6. B = {}
  <2>1. B \subseteq Nat
    BY Zenon
  <2> HIDE DEF B
  <2> QED BY Zenon, <1>5, <2>1, LeastOf
<1>7. N - capacity \in Nat /\ N - capacity < N /\ N - (N - capacity) = capacity
  BY ONLY <1>2, capacity \in Nat \ {0}
<1>8. Good(N - (N - capacity))
  BY ONLY Zenon, <1>6, <1>7
<1> QED BY ONLY <1>4, <1>7, <1>8

\* Growing keeps the bytes there are and adds junk until the size fits.
LEMMA GrownIs ==
    ASSUME NEW content \in Seq(Byte), NEW size \in Nat
    PROVE  /\ Grown(content, size) \in Seq(Byte) /\ Len(Grown(content, size)) >= size
           /\ Len(Grown(content, size)) >= Len(content)
           /\ \A i \in 1..Len(Grown(content, size)) :
                 Grown(content, size)[i] = IF i <= Len(content) THEN content[i] ELSE Junk
<1>1. Len(content) \in Nat /\ (content = <<>> => Len(content) = 0)
      /\ (content # <<>> => Len(content) # 0)
  OBVIOUS
<1>2. PICK k : k = Capacity(content, size)
  BY Zenon
<1>3. k \in Nat /\ k >= size /\ k >= Len(content)
  <2>1. CASE content = <<>>
    <3>1. k = Doubled(INITIAL_CAPACITY, size) /\ INITIAL_CAPACITY \in Nat \ {0}
      BY ONLY Zenon, <1>2, <2>1, VfsAssumption DEF Capacity
    <3>2. k \in Nat /\ k >= size
      BY ONLY Zenon, <3>1, DoubledIs, size \in Nat
    <3> QED BY ONLY <1>1, <2>1, <3>2
  <2>2. CASE content # <<>>
    <3>1. k = Doubled(Len(content), size)
      BY ONLY Zenon, <1>2, <2>2 DEF Capacity
    <3>2. Len(content) \in Nat \ {0}
      BY ONLY <1>1, <2>2
    <3> QED BY ONLY Zenon, <3>1, <3>2, DoubledIs, size \in Nat
  <2> QED BY Zenon, <2>1, <2>2
<1>4. PICK fresh : fresh = Fresh(k - Len(content))
  BY Zenon
<1>5. /\ fresh \in Seq(Byte) /\ Len(fresh) = k - Len(content)
      /\ \A i \in 1..Len(fresh) : fresh[i] = Junk
  BY ONLY <1>1, <1>3, <1>4 DEF Fresh, Byte
<1>6. PICK g : g = Grown(content, size)
  BY Zenon
<1>7. g = content \o fresh
  BY ONLY Zenon, <1>2, <1>4, <1>6 DEF Grown
<1>8. g \in Seq(Byte) /\ Len(g) = Len(content) + Len(fresh)
      /\ \A i \in 1..(Len(content) + Len(fresh)) :
            g[i] = IF i <= Len(content) THEN content[i] ELSE fresh[i - Len(content)]
  BY ONLY Zenon, <1>5, <1>7, ConcatIs, content \in Seq(Byte)
<1>9. Len(g) >= size /\ Len(g) >= Len(content)
  BY ONLY <1>1, <1>3, <1>5, <1>8, size \in Nat
<1>10. ASSUME NEW i \in 1..Len(g)
       PROVE  g[i] = IF i <= Len(content) THEN content[i] ELSE Junk
  <2>1. g[i] = IF i <= Len(content) THEN content[i] ELSE fresh[i - Len(content)]
    BY ONLY Zenon, <1>8, <1>10
  <2>2. ~(i <= Len(content)) => i - Len(content) \in 1..Len(fresh)
    BY ONLY <1>1, <1>3, <1>5, <1>8, <1>10
  <2> QED BY ONLY Zenon, <1>5, <2>1, <2>2
<1> QED BY Zenon, <1>6, <1>8, <1>9, <1>10

\* What ramfs_write leaves in the node: with -1 the old data, or none if the file was
\* to become longer, else the buffer over the bytes there were.
LEMMA WriteIs ==
    ASSUME TreeInv(nodes), NEW n \in DOMAIN nodes, NEW buf \in Seq(BYTES), NEW offset \in Nat,
           NEW gotData, NEW gotContent, NEW w,
           w = ramfs_write(n, buf, offset, gotData, gotContent)
    PROVE  /\ w.data \in Data /\ (w.data # NoData => Filled(w.data))
           /\ nodes[n].type = "DIRECTORY" => w.data = NoData
           /\ \/ w.ret = -1 /\ Bytes(w.data) = Bytes(nodes[n].data)
              \/ /\ w.ret = -1 /\ Bytes(w.data) = <<>>
                 /\ offset + Len(buf) > Len(Bytes(nodes[n].data))
              \/ /\ w.ret = Len(buf)
                 /\ Bytes(w.data) = Files!Over(Bytes(nodes[n].data), offset, buf)
<1>1. PICK old : old = nodes[n].data
  BY Zenon
<1>2. PICK data : data = IF old = NoData THEN [content |-> <<>>, size |-> 0] ELSE old
  BY Zenon
<1>3. PICK new_size : new_size = offset + Len(buf)
  BY Zenon
<1>4. PICK room : room = IF new_size > Len(data.content)
                         THEN [data EXCEPT !.content = Grown(@, new_size)] ELSE data
  BY Zenon
<1>5. /\ w = IF nodes[n].type # "FILE" \/ (old = NoData /\ ~gotData)
             THEN [ret |-> -1, data |-> old]
             ELSE IF new_size > Len(data.content) /\ ~gotContent
             THEN [ret |-> -1, data |-> NoData]
             ELSE [ret |-> Len(buf), data |-> Stored(room, buf, offset)]
  BY ONLY Zenon, <1>1, <1>2, <1>3, <1>4, w = ramfs_write(n, buf, offset, gotData, gotContent)
     DEF ramfs_write
<1>6. /\ old \in Data /\ (old # NoData => Filled(old))
      /\ nodes[n].type = "DIRECTORY" => old = NoData
      /\ nodes[n].type \in TYPES
  BY Zenon, <1>1, FieldsOf DEF TreeInv, Sized
<1>7. NoData \in Data /\ Bytes(NoData) = <<>>
  <2>1. NoData \in Data
    BY ONLY DEF NoData, Data, NULL
  <2> QED BY ONLY Zenon, <2>1 DEF Bytes
<1>8. CASE nodes[n].type # "FILE" \/ (old = NoData /\ ~gotData)
  <2>1. w = [ret |-> -1, data |-> old]
    BY ONLY Zenon, <1>5, <1>8
  <2>2. w.ret = -1 /\ w.data = old
    BY ONLY <2>1
  <2> QED BY ONLY Zenon, <1>1, <1>6, <2>2
<1>9. CASE /\ ~(nodes[n].type # "FILE" \/ (old = NoData /\ ~gotData))
           /\ new_size > Len(data.content) /\ ~gotContent
  <2>1. w = [ret |-> -1, data |-> NoData]
    BY ONLY Zenon, <1>5, <1>9
  <2>2. w.ret = -1 /\ w.data = NoData
    BY ONLY <2>1
  <2>3. new_size > Len(Bytes(old))
    <3>1. CASE old = NoData
      <4>1. data.content = <<>>
        BY ONLY <1>2, <3>1
      <4> QED BY ONLY Zenon, <1>7, <1>9, <3>1, <4>1
    <3>2. CASE old # NoData
      <4>1. Len(Bytes(old)) = old.size
        BY ONLY Zenon, <1>6, <3>2, BytesAre
      <4>2. old.size \in 0..Len(old.content) /\ Len(old.content) \in Nat /\ data = old
        BY ONLY <1>2, <1>6, <3>2 DEF Filled, Data
      <4>3. new_size \in Nat
        BY ONLY <1>3, buf \in Seq(BYTES), offset \in Nat
      <4> QED BY ONLY <1>9, <4>1, <4>2, <4>3
    <3> QED BY Zenon, <3>1, <3>2
  <2> QED BY ONLY Zenon, <1>1, <1>3, <1>7, <2>2, <2>3
<1>10. CASE /\ ~(nodes[n].type # "FILE" \/ (old = NoData /\ ~gotData))
            /\ ~(new_size > Len(data.content) /\ ~gotContent)
  <2>1. w = [ret |-> Len(buf), data |-> Stored(room, buf, offset)]
    BY ONLY Zenon, <1>5, <1>10
  <2>2. w.ret = Len(buf) /\ w.data = Stored(room, buf, offset)
    BY ONLY <2>1
  <2>3. nodes[n].type # "DIRECTORY"
    BY ONLY <1>10
  <2>4. data \in Data /\ Filled(data) /\ Bytes(data) = Bytes(old)
    <3>1. CASE old # NoData
      BY ONLY Zenon, <1>2, <1>6, <3>1
    <3>2. CASE old = NoData
      <4>1. data = [content |-> <<>>, size |-> 0]
        BY ONLY Zenon, <1>2, <3>2
      <4>2. data \in Data /\ Filled(data) /\ data.size = 0
        BY ONLY <4>1 DEF Data, Filled
      <4>3. Bytes(data) \in Seq(Byte) /\ Len(Bytes(data)) = 0
        BY ONLY Zenon, <4>2, BytesAre
      <4>4. Bytes(data) = <<>>
        BY ONLY <4>3
      <4> QED BY ONLY Zenon, <1>7, <3>2, <4>2, <4>4
    <3> QED BY Zenon, <3>1, <3>2
  <2>5. new_size \in Nat /\ Len(buf) \in Nat
    BY ONLY <1>3, buf \in Seq(BYTES), offset \in Nat
  <2>6. /\ room \in Data /\ Filled(room) /\ new_size <= Len(room.content)
        /\ Bytes(room) = Bytes(data)
    <3>1. CASE ~(new_size > Len(data.content))
      <4>1. room = data
        BY ONLY Zenon, <1>4, <3>1
      <4>2. Len(data.content) \in Nat
        BY ONLY <2>4 DEF Data
      <4> QED BY ONLY <2>4, <2>5, <3>1, <4>1, <4>2
    <3>2. CASE new_size > Len(data.content)
      <4>1. PICK c : c = data.content
        BY Zenon
      <4>2. PICK g : g = Grown(c, new_size)
        BY Zenon
      <4>3. room = [content |-> g, size |-> data.size]
        BY ONLY <1>4, <2>4, <3>2, <4>1, <4>2 DEF Data
      <4>4. c \in Seq(Byte) /\ Len(c) \in Nat /\ data.size \in 0..Len(c) /\ data.size \in Int
            /\ \A i \in 1..Len(c) : i > data.size => c[i] = Junk
        BY ONLY <2>4, <4>1 DEF Data, Filled
      <4>5. /\ g \in Seq(Byte) /\ Len(g) >= new_size /\ Len(g) >= Len(c)
            /\ \A i \in 1..Len(g) : g[i] = IF i <= Len(c) THEN c[i] ELSE Junk
        BY ONLY Zenon, <2>5, <4>2, <4>4, GrownIs
      <4>6. Len(g) \in Nat
        BY ONLY <4>5
      <4>7. room.content = g /\ room.size = data.size
        BY ONLY Zenon, <4>3
      <4>8. room \in Data /\ new_size <= Len(room.content)
        BY ONLY <2>5, <4>3, <4>4, <4>5, <4>6 DEF Data
      <4>9. Filled(room)
        <5>1. data.size \in 0..Len(g)
          BY ONLY <4>4, <4>5, <4>6
        <5>2. ASSUME NEW i \in 1..Len(g), i > data.size PROVE g[i] = Junk
          <6>1. i <= Len(c) => i \in 1..Len(c)
            BY ONLY <4>4, <4>6, <5>2
          <6> QED BY ONLY Zenon, <4>4, <4>5, <5>2, <6>1
        <5> QED BY ONLY Zenon, <4>7, <5>1, <5>2 DEF Filled
      <4>10. /\ Bytes(room) \in Seq(Byte) /\ Len(Bytes(room)) = data.size
             /\ \A i \in 1..data.size : Bytes(room)[i] = g[i]
        BY ONLY Zenon, <4>7, <4>8, <4>9, BytesAre
      <4>11. /\ Bytes(data) \in Seq(Byte) /\ Len(Bytes(data)) = data.size
             /\ \A i \in 1..data.size : Bytes(data)[i] = c[i]
        BY ONLY Zenon, <2>4, <4>1, BytesAre
      <4>12. ASSUME NEW i \in 1..data.size PROVE g[i] = c[i]
        <5>1. i \in 1..Len(g) /\ i <= Len(c)
          BY ONLY <4>4, <4>5, <4>6, <4>12
        <5> QED BY ONLY Zenon, <4>5, <5>1
      <4>13. Bytes(room) = Bytes(data)
        <5>1. \A i \in 1..Len(Bytes(room)) : Bytes(room)[i] = Bytes(data)[i]
          BY ONLY Zenon, <4>10, <4>11, <4>12
        <5> QED BY ONLY Zenon, <4>10, <4>11, <5>1, SameSeq
      <4> QED BY ONLY Zenon, <4>8, <4>9, <4>13
    <3> QED BY Zenon, <3>1, <3>2
  <2>7. w.data \in Data /\ Filled(w.data) /\ Bytes(w.data) = Files!Over(Bytes(room), offset, buf)
    BY ONLY <1>3, <2>2, <2>6, StoredIs, buf \in Seq(BYTES), offset \in Nat
  <2> QED BY ONLY Zenon, <1>1, <2>2, <2>3, <2>4, <2>6, <2>7
<1> QED BY Zenon, <1>8, <1>9, <1>10

\* vfs_write puts the buffer at the position and moves it, or fails and keeps or
\* empties the file.
LEMMA WriteStep ==
    ASSUME VfsInv, bound' = bound, NEW d \in Fd, NEW buf \in Buffers,
           NEW gotData, NEW gotContent, vfs_write(d, buf, gotData, gotContent)
    PROVE  VfsInv' /\ (Files!Writes \/ Files!Loses \/ Files!Fails)
<1>0. <<"write", d>> \in Files!Calls
  BY ONLY Zenon, d \in Fd DEF Files!Calls
<1>1. CASE fd_table[d].node = NULL
  <2>1. /\ nodes' = nodes /\ fd_table' = fd_table
        /\ out' = [call |-> <<"write", d>>, ret |-> -1, buf |-> <<>>]
    BY Zenon, <1>1 DEF vfs_write, Return
  <2> QED BY Zenon, <1>0, <2>1, FailStep
<1>2. CASE fd_table[d].node # NULL
  <2>1. PICK n : n = fd_table[d].node
    BY Zenon
  <2>2. PICK from : from = fd_table[d].offset
    BY Zenon
  <2>3. PICK w : w = ramfs_write(n, buf, from, gotData, gotContent)
    BY Zenon
  <2>4. /\ nodes' = [nodes EXCEPT ![n].data = w.data] /\ fd_table' = Advanced(d, w.ret)
        /\ out' = [call |-> <<"write", d>>, ret |-> w.ret, buf |-> <<>>]
    BY ONLY Zenon, <1>2, <2>1, <2>2, <2>3, vfs_write(d, buf, gotData, gotContent)
       DEF vfs_write, Return
  <2>5. TreeInv(nodes) /\ fd_table \in FdType
    BY Zenon DEF VfsInv, FdType
  <2>6. fd_table[d] \in [node : Links(nodes), offset : Nat]
    BY Zenon, <2>5 DEF FdType
  <2>7. n \in Links(nodes) /\ from \in Nat
    BY ONLY <2>1, <2>2, <2>6
  <2>8. n \in DOMAIN nodes
    BY Zenon, <1>2, <2>1, <2>7 DEF Links
  <2>9. buf \in Seq(BYTES) /\ Len(buf) \in Nat
    <3>1. PICK k \in COUNTS : buf \in [1..k -> BYTES]
      BY ONLY Zenon, buf \in Buffers DEF Buffers
    <3>2. k \in Nat
      BY Zenon, VfsAssumption
    <3> QED BY ONLY <3>1, <3>2
  <2>10. /\ w.data \in Data /\ (w.data # NoData => Filled(w.data))
         /\ nodes[n].type = "DIRECTORY" => w.data = NoData
         /\ \/ w.ret = -1 /\ Bytes(w.data) = Bytes(nodes[n].data)
            \/ /\ w.ret = -1 /\ Bytes(w.data) = <<>>
               /\ from + Len(buf) > Len(Bytes(nodes[n].data))
            \/ /\ w.ret = Len(buf)
               /\ Bytes(w.data) = Files!Over(Bytes(nodes[n].data), from, buf)
    BY ONLY <2>3, <2>5, <2>7, <2>8, <2>9, WriteIs
  <2>11. /\ TreeInv(nodes') /\ DOMAIN nodes' = DOMAIN nodes
         /\ \A m \in DOMAIN nodes : nodes'[m].data = (IF m = n THEN w.data ELSE nodes[m].data)
    <3>1. PICK v : v = w.data
      BY Zenon
    <3>2. Fits(nodes, n, v) /\ nodes' = WithData(nodes, n, v)
      BY ONLY Zenon, <2>4, <2>10, <3>1 DEF Fits, WithData
    <3>3. TreeInv(nodes') /\ DOMAIN nodes' = DOMAIN nodes /\ DataSet(nodes, nodes', n, v)
      BY ONLY <2>5, <2>8, <3>2, DataKeeps
    <3> QED BY ONLY Zenon, <3>1, <3>3 DEF DataSet
  <2>12. FileMap' = [FileMap EXCEPT ![n] = Bytes(w.data)]
    BY Zenon, <2>8, <2>11, FileSet
  <2>13. DOMAIN FileMap = NodeId /\ n \in NodeId /\ FileMap[n] = Bytes(nodes[n].data)
    BY Zenon, <2>8, NodesBounded, FileIs DEF FileMap
  <2>14. ASSUME fd_table' \in FdType, w.ret \in Nat \cup {-1} PROVE VfsInv'
    <3>1. Links(nodes') = Links(nodes)
      BY Zenon, <2>11 DEF Links
    <3>2. out'.ret = w.ret
      BY ONLY <2>4
    <3> QED BY Zenon, <2>11, <2>14, <3>1, <3>2 DEF VfsInv, FdType
  <2>15. d \in DOMAIN FdMap /\ FdMap[d].node = n /\ FdMap[d].offset = from
    BY Zenon, <1>2, <2>1, <2>2, FdsAre
  <2>16. CASE /\ w.ret = -1
              /\ \/ Bytes(w.data) = Bytes(nodes[n].data)
                 \/ /\ Bytes(w.data) = <<>>
                    /\ from + Len(buf) > Len(Bytes(nodes[n].data))
    <3>1. fd_table' = fd_table
      <4>1. ~(-1 > 0)
        OBVIOUS
      <4> QED BY ONLY Zenon, <2>4, <2>16, <4>1 DEF Advanced
    <3>2. VfsInv'
      BY Zenon, <2>5, <2>14, <2>16, <3>1
    <3>3. FdMap' = FdMap /\ out' = [call |-> <<"write", d>>, ret |-> -1, buf |-> <<>>]
      BY Zenon, <2>4, <2>16, <3>1 DEF FdMap
    <3>4. CASE Bytes(w.data) = Bytes(nodes[n].data)
      <4>1. FileMap' = FileMap
        <5>1. FileMap = [m \in NodeId |-> FileMap[m]]
          BY ONLY Zenon DEF FileMap
        <5>2. [FileMap EXCEPT ![n] = FileMap[n]] = FileMap
          BY ONLY Zenon, <2>13, <5>1
        <5> QED BY ONLY Zenon, <2>12, <2>13, <3>4, <5>2
      <4>2. Files!Fails
        BY ONLY Zenon, <1>0, <3>3, <4>1 DEF Files!Fails, Files!Returned, FileMap, FdMap
      <4> QED BY Zenon, <3>2, <4>2
    <3>5. CASE Bytes(w.data) = <<>> /\ from + Len(buf) > Len(Bytes(nodes[n].data))
      <4>1. /\ FileMap' = [FileMap EXCEPT ![FdMap[d].node] = <<>>]
            /\ FdMap[d].offset + Len(buf) > Len(FileMap[FdMap[d].node])
        BY ONLY Zenon, <2>12, <2>13, <2>15, <3>5
      <4>2. Files!Loses
        BY ONLY ZenonT(40), <2>15, <3>3, <4>1, buf \in Buffers
           DEF Files!Loses, Files!Returned, FileMap, FdMap
      <4> QED BY Zenon, <3>2, <4>2
    <3> QED BY Zenon, <2>16, <3>4, <3>5
  <2>17. CASE /\ w.ret = Len(buf)
              /\ Bytes(w.data) = Files!Over(Bytes(nodes[n].data), from, buf)
    <3>1. fd_table' = Advanced(d, Len(buf))
      BY ONLY Zenon, <2>4, <2>17
    <3>2. fd_table' \in FdType /\ FdMap' = [FdMap EXCEPT ![d].offset = @ + Len(buf)]
      BY ONLY <1>2, <2>5, <2>9, <3>1, AdvancedIs, d \in Fd
    <3>3. VfsInv'
      BY Zenon, <2>9, <2>14, <2>17, <3>2
    <3>4. out' = [call |-> <<"write", d>>, ret |-> Len(buf), buf |-> <<>>]
      BY ONLY Zenon, <2>4, <2>17
    <3>5. FileMap' = [FileMap EXCEPT ![FdMap[d].node] = Files!Over(@, FdMap[d].offset, buf)]
      BY ONLY Zenon, <2>12, <2>13, <2>15, <2>17
    <3>6. Files!Writes
      BY ONLY ZenonT(40), <2>15, <3>2, <3>4, <3>5, buf \in Buffers
         DEF Files!Writes, Files!Returned, FileMap, FdMap
    <3> QED BY Zenon, <3>3, <3>6
  <2> QED BY Zenon, <2>10, <2>16, <2>17
<1> QED BY Zenon, <1>1, <1>2

\* The descriptors of a behaviour are among all, and vfs_open takes the first free one.
LEMMA FreeFdIs ==
    ASSUME VfsInv, FreeFds # {}
    PROVE  /\ Min(FreeFds) \in Fd /\ fd_table[Min(FreeFds)].node = NULL
           /\ \A e \in Fd : fd_table[e].node = NULL => Min(FreeFds) <= e
<1>1. FreeFds \subseteq Nat
  BY ONLY DEF FreeFds, Fd
<1>2. \E m \in FreeFds : \A j \in FreeFds : m <= j
  BY Zenon, <1>1, LeastOf
<1>3. Min(FreeFds) \in FreeFds /\ \A j \in FreeFds : Min(FreeFds) <= j
  BY ONLY Zenon, <1>2 DEF Min
<1>4. PICK m : m = Min(FreeFds)
  BY Zenon
<1>5. m \in Fd /\ m < bound.fds /\ fd_table[m].node = NULL /\ m \in Nat
  BY ONLY Zenon, <1>1, <1>3, <1>4 DEF FreeFds
<1>6. bound.fds \in Nat
  BY VfsAssumption DEF VfsInv
<1>7. ASSUME NEW e \in Fd, fd_table[e].node = NULL PROVE m <= e
  <2>1. CASE e < bound.fds
    BY ONLY Zenon, <1>3, <1>4, <1>7, <2>1 DEF FreeFds
  <2>2. CASE ~(e < bound.fds)
    BY ONLY <1>5, <1>6, <1>7, <2>2 DEF Fd
  <2> QED BY Zenon, <2>1, <2>2
<1> QED BY Zenon, <1>4, <1>5, <1>7

\* vfs_open opens the lowest free descriptor at position 0, or fails.
LEMMA OpenStep ==
    ASSUME VfsInv, bound' = bound, NEW node \in Links(nodes), vfs_open(node)
    PROVE  VfsInv' /\ (Files!Opens \/ Files!Fails)
<1>1. CASE node = NULL \/ FreeFds = {}
  <2>1. /\ nodes' = nodes /\ fd_table' = fd_table
        /\ out' = [call |-> <<"open">>, ret |-> -1, buf |-> <<>>]
    BY Zenon, <1>1 DEF vfs_open, Return
  <2>2. <<"open">> \in Files!Calls
    BY ONLY Zenon DEF Files!Calls
  <2> QED BY Zenon, <2>1, <2>2, FailStep
<1>2. CASE ~(node = NULL \/ FreeFds = {})
  <2>1. PICK d : d = Min(FreeFds)
    BY Zenon
  <2>2. /\ nodes' = nodes /\ out' = [call |-> <<"open">>, ret |-> d, buf |-> <<>>]
        /\ fd_table' = [fd_table EXCEPT ![d] = [node |-> node, offset |-> 0]]
    BY Zenon, <1>2, <2>1 DEF vfs_open, Return
  <2>3. /\ d \in Fd /\ fd_table[d].node = NULL
        /\ \A e \in Fd : fd_table[e].node = NULL => d <= e
    BY Zenon, <1>2, <2>1, FreeFdIs
  <2>4. node \in NodeId /\ node \in DOMAIN nodes
    BY Zenon, <1>2, NodesBounded DEF Links
  <2>5. fd_table \in FdType
    BY Zenon DEF VfsInv, FdType
  <2>6. PICK r : r = [node |-> node, offset |-> 0]
    BY Zenon
  <2>7. r \in [node : Links(nodes), offset : Nat] /\ r.node # NULL
    BY ONLY <1>2, <2>6, node \in Links(nodes)
  <2>8. fd_table' \in FdType
    BY ONLY Zenon, <2>2, <2>3, <2>5, <2>6, <2>7 DEF FdType
  <2>9. out'.ret \in Nat \cup {-1}
    <3>1. out'.ret = d
      BY ONLY <2>2
    <3> QED BY ONLY <2>3, <3>1 DEF Fd
  <2>10. VfsInv' /\ FileMap' = FileMap
    BY Zenon, <2>2, <2>8, <2>9, CallInv
  <2>11. ASSUME NEW e \in Fd PROVE fd_table'[e] = IF e = d THEN r ELSE fd_table[e]
    BY ONLY Zenon, <2>2, <2>5, <2>6, <2>11 DEF FdType
  <2>12. /\ d \in Fd \ DOMAIN FdMap
         /\ \A e \in Fd \ DOMAIN FdMap : d <= e
    BY ONLY Zenon, <2>3, FdsAre
  <2>13. {e \in Fd : fd_table'[e].node # NULL} = DOMAIN FdMap \cup {d}
    <3>1. ASSUME NEW e \in Fd PROVE fd_table'[e].node # NULL <=> e \in DOMAIN FdMap \cup {d}
      <4>1. CASE e = d
        BY ONLY Zenon, <2>3, <2>7, <2>11, <4>1
      <4>2. CASE e # d
        BY ONLY Zenon, <2>11, <3>1, <4>2, FdsAre
      <4> QED BY Zenon, <4>1, <4>2
    <3> QED BY ONLY Zenon, <2>3, <3>1, FdsAre
  <2>14. FdMap' = [e \in DOMAIN FdMap \cup {d} |-> IF e = d THEN r ELSE FdMap[e]]
    <3>1. FdMap' = [e \in DOMAIN FdMap \cup {d} |-> fd_table'[e]]
      BY ONLY Zenon, <2>13 DEF FdMap
    <3>2. ASSUME NEW e \in DOMAIN FdMap \cup {d}
          PROVE  fd_table'[e] = IF e = d THEN r ELSE FdMap[e]
      BY ONLY Zenon, <2>3, <2>11, <3>2, FdsAre
    <3> QED BY ONLY Zenon, <3>1, <3>2
  <2>15. FdMap' = [e \in DOMAIN FdMap \cup {d} |->
                     IF e = d THEN [node |-> node, offset |-> 0] ELSE FdMap[e]]
    BY ONLY Zenon, <2>6, <2>14
  <2>16. Files!Opens
    BY ONLY Zenon, <2>2, <2>4, <2>10, <2>12, <2>15
       DEF Files!Opens, Files!Returned, FileMap, FdMap
  <2> QED BY Zenon, <2>10, <2>16
<1> QED BY Zenon, <1>1, <1>2

-----------------------------------------------------------------------------
(* The theorems.                                                           *)

\* A step keeps the invariant and is a step of the abstract files, or none.
LEMMA StepHolds ==
    ASSUME VfsInv, [VfsNext]_vfsVars
    PROVE  VfsInv' /\ (Files!FsNext \/ Moved)
<1>1. CASE UNCHANGED vfsVars
  <2>1. nodes' = nodes /\ fd_table' = fd_table /\ out' = out /\ bound' = bound
    BY ONLY Zenon, <1>1 DEF vfsVars
  <2>2. fd_table' \in FdType /\ out'.ret \in Nat \cup {-1}
    BY Zenon, <2>1 DEF VfsInv, FdType
  <2>3. VfsInv' /\ FileMap' = FileMap
    BY Zenon, <2>1, <2>2, CallInv
  <2>4. FdMap' = FdMap
    BY ONLY Zenon, <2>1 DEF FdMap
  <2> QED BY Zenon, <2>1, <2>3, <2>4 DEF Moved
<1>2. CASE VfsNext
  <2>1. bound' = bound
    BY ONLY Zenon, <1>2 DEF VfsNext
  <2>2. CASE Create \/ TakeOut \/ PutBack
    BY Zenon, <2>1, <2>2, CreateStep, TakeOutStep, PutBackStep
  <2>3. ASSUME NEW node \in {resolve_path(PathTo(n)) : n \in Tree} \cup {NULL},
               vfs_open(node) \/ vfs_stat(node)
        PROVE  VfsInv' /\ (Files!FsNext \/ Moved)
    <3>1. node \in Links(nodes)
      <4>1. TreeInv(nodes) /\ Typed(nodes)
        BY Zenon DEF VfsInv, TreeInv
      <4>2. \A n \in Tree : resolve_path(PathTo(n)) = n /\ n \in DOMAIN nodes
        BY Zenon, <4>1, PathFinds, TreeFacts
      <4> QED BY Zenon, <2>3, <4>2 DEF Links
    <3> QED BY Zenon, <2>1, <2>3, <3>1, OpenStep, StatStep DEF Files!FsNext
  <2>4. ASSUME NEW d \in 0..(bound.fds - 1),
               \/ vfs_close(d)
               \/ \E count \in COUNTS : vfs_read(d, count)
               \/ \E buf \in Buffers, gotData, gotContent \in BOOLEAN :
                     vfs_write(d, buf, gotData, gotContent)
        PROVE  VfsInv' /\ (Files!FsNext \/ Moved)
    <3>1. bound.fds \in 1..MAX_OPEN_FILES /\ MAX_OPEN_FILES \in Nat
      BY Zenon, VfsAssumption DEF VfsInv
    <3>2. d \in Fd
      BY ONLY <2>4, <3>1 DEF Fd
    <3> QED BY Zenon, <2>1, <2>4, <3>2, CloseStep, ReadStep, WriteStep DEF Files!FsNext
  <2> QED BY ONLY Zenon, <1>2, <2>2, <2>3, <2>4 DEF VfsNext, Call
<1> QED BY Zenon, <1>1, <1>2

\* The invariant holds for ever.
THEOREM VfsInvHolds == VfsSpec => []VfsInv
<1>1. vfs_init => VfsInv
  BY Zenon, InitHolds
<1>2. VfsInv /\ [VfsNext]_vfsVars => VfsInv'
  BY Zenon, StepHolds
<1> QED BY <1>1, <1>2, PTL DEF VfsSpec

\* For any number of nodes and names, and after any sequence of creating, moving and
\* writing: the two lists of each directory that vfs_dir_add_child and
\* vfs_dir_remove_child maintain have exactly its children, and resolve_path finds
\* each node of the tree under its path and its directory under "..".
THEOREM TreeStaysConsistent == VfsSpec => []TreeConsistent
<1>1. VfsInv => TreeConsistent
  <2> SUFFICES ASSUME VfsInv PROVE TreeConsistent
    BY Zenon
  <2>1. TreeInv(nodes)
    BY Zenon DEF VfsInv
  <2>2. VfsTypeOK
    BY Zenon, InvTypes
  <2> QED BY Zenon, <2>1, <2>2, ListsAgree, PathsAreResolved DEF TreeConsistent
<1> QED BY <1>1, VfsInvHolds, PTL

\* Every step of the file system is one that FileStore allows or none: what a call
\* reads is what was written there last, for contents of any length, however the
\* capacity of ramfs_write doubles and whichever allocations fail; and of the calls
\* that fail only a write that was to make its file longer changes anything.
THEOREM FilesImplemented == VfsSpec => ImplementsFiles
<1>1. vfs_init => Files!FsInit
  <2> SUFFICES ASSUME vfs_init PROVE Files!FsInit
    BY Zenon
  <2>1. FileMap = [n \in NodeId |-> <<>>]
    <3>1. DOMAIN nodes = {Root} /\ nodes[Root] = vfs_create_node("/", "DIRECTORY", NULL)
      BY ONLY Zenon, vfs_init DEF vfs_init
    <3>2. nodes[Root].data = NoData
      BY ONLY <3>1 DEF vfs_create_node
    <3>3. \A n : FileOf(n) = <<>>
      BY ONLY Zenon, <3>1, <3>2 DEF FileOf
    <3> QED BY ONLY Zenon, <3>3 DEF FileMap
  <2>2. FdMap = [d \in {} |-> <<>>]
    <3>1. \A d \in Fd : fd_table[d] = ClosedFd
      BY ONLY Zenon, vfs_init DEF vfs_init
    <3>2. ClosedFd.node = NULL
      BY ONLY DEF ClosedFd
    <3>3. {d \in Fd : fd_table[d].node # NULL} = {}
      BY ONLY Zenon, <3>1, <3>2
    <3> QED BY ONLY Zenon, <3>3 DEF FdMap
  <2>3. out = [call |-> <<"init">>, ret |-> 0, buf |-> <<>>]
    BY ONLY Zenon, vfs_init DEF vfs_init
  <2> QED BY ONLY Zenon, <2>1, <2>2, <2>3 DEF Files!FsInit, FileMap, FdMap
<1>2. VfsInv /\ [VfsNext]_vfsVars => [Files!FsNext]_Files!fsVars
  <2>1. Moved => UNCHANGED Files!fsVars
    BY ONLY Zenon DEF Moved, Files!fsVars, FileMap, FdMap
  <2> QED BY Zenon, <2>1, StepHolds
<1> QED BY <1>1, <1>2, VfsInvHolds, PTL DEF VfsSpec, ImplementsFiles, Files!FsSpec

=============================================================================
