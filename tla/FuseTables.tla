----------------------------- MODULE FuseTables -----------------------------
(***************************************************************************)
(* The storage of the high-level library's nodes (libfuse/lib/fuse.c): the *)
(* two hash tables, by id and by name, which grow and shrink one bucket at *)
(* a time, and the slabs the nodes are allocated from.  FuseTree works on  *)
(* what these keep: a set of nodes that can be found by id and by name.    *)
(***************************************************************************)
EXTENDS Integers, Sequences, FiniteSets, SequencesExt

CONSTANTS
    NodeIds,     \* node ids, natural numbers
    MinSize,     \* NODE_TABLE_MIN_SIZE
    SlabNodes,   \* nodes per slab
    SlabPages,   \* pages slabs are mapped at
    MaxShrinks   \* bound on allocations that fail

ASSUME TablesAssumption ==
    /\ NodeIds \subseteq Nat /\ MinSize \in {2, 4, 8} /\ SlabNodes \in Nat \ {0} /\ MaxShrinks \in Nat

VARIABLES
    id_table, name_table,   \* size, split, use and the chains of the buckets
    named,                  \* the nodes that have a name
    slabs,                  \* slabs[p]: the slab at page p: mapped, list, used, free
    mem,                    \* mem[x]: the page and slot of node x
    failed                  \* allocations that failed
tableVars == <<id_table, name_table, named, slabs, mem, failed>>

NoMem == <<>>
Chains(size) == [b \in 0..(size - 1) |-> <<>>]
node_table_init == [size |-> MinSize, split |-> 0, use |-> 0, array |-> Chains(MinSize)]

-----------------------------------------------------------------------------
(***************************************************************************)
(* The tables.  hash is the full hash of a key; buckets below split, of    *)
(* the lower half, have been divided with the upper half.                  *)
(***************************************************************************)
BucketLate(t, hash) ==
    LET h == hash % t.size
        oldhash == h % (t.size \div 2)
    IN IF oldhash > t.split THEN oldhash ELSE h
Bucket(t, hash) ==
    LET h == hash % t.size
        oldhash == h % (t.size \div 2)
    IN IF oldhash >= t.split THEN oldhash ELSE h

IdHash(x) == (x * 7) % 64         \* stands for the multiplication by 2654435761
NameHash(x) == x * 31 + (x % 3)     \* of the parent's id and the name's characters
id_hash(t, x) == Bucket(t, IdHash(x))
name_hash(t, x) == Bucket(t, NameHash(x))

\* realloc of the array: to a larger size it may fail, and then nothing changes.
node_table_resize(t, ok) ==
    IF ok THEN [t EXCEPT !.size = 2 * t.size, !.split = 0,
                         !.array = [b \in 0..(2 * t.size - 1) |-> IF b < t.size THEN t.array[b] ELSE <<>>]]
          ELSE t
node_table_reduce(t) ==
    LET newsize == t.size \div 2 IN
    IF newsize < MinSize THEN t
    ELSE [t EXCEPT !.size = newsize, !.split = newsize \div 2,
                   !.array = [b \in 0..(newsize - 1) |-> t.array[b]]]

\* One bucket is divided: what now hashes to the upper half goes there, each node in
\* front of the others.
Rehash(t, hash(_, _), ok) ==
    LET b == t.split
        t1 == [t EXCEPT !.split = @ + 1]
        Moves(x) == hash(t1, x) # b
        t2 == [t1 EXCEPT !.array = [c \in DOMAIN t.array |->
                  IF c = b THEN SelectSeq(t.array[b], LAMBDA x : ~Moves(x))
                  ELSE Reverse(SelectSeq(t.array[b], LAMBDA x : Moves(x) /\ hash(t1, x) = c)) \o t.array[c]]]
    IN IF t.split = t.size \div 2 THEN t
       ELSE IF t2.split = t2.size \div 2 THEN node_table_resize(t2, ok) ELSE t2
rehash_id(t, ok) == Rehash(t, id_hash, ok)
rehash_name(t, ok) == Rehash(t, name_hash, ok)

\* Upper buckets are put behind their lower ones, up to the first that is not empty
\* and at most eight.
Remerge(t0) ==
    LET t == IF t0.split = 0 THEN node_table_reduce(t0) ELSE t0
        half == t.size \div 2
        full == {b \in 0..(t.split - 1) : b >= t.split - 8 /\ t.array[b + half] # <<>>}
        last == IF full # {} THEN CHOOSE b \in full : \A c \in full : c <= b
                ELSE IF t.split > 8 THEN t.split - 8 ELSE 0
    IN IF t.split = 0 THEN t
       ELSE [t EXCEPT !.split = last,
                      !.array = IF full = {} THEN @
                                ELSE [@ EXCEPT ![last] = @ \o t.array[last + half], ![last + half] = <<>>]]
remerge_id(t) == Remerge(t)
remerge_name(t) == Remerge(t)

Added(t, b, x) == [t EXCEPT !.array[b] = <<x>> \o @, !.use = @ + 1]
Taken(t, b, x) == [t EXCEPT !.array[b] = SelectSeq(@, LAMBDA y : y # x), !.use = @ - 1]
hash_id(t, x, ok) ==
    LET u == Added(t, id_hash(t, x), x) IN IF u.use >= u.size \div 2 THEN rehash_id(u, ok) ELSE u
hash_name(t, x, ok) ==
    LET u == Added(t, name_hash(t, x), x) IN IF u.use >= u.size \div 2 THEN rehash_name(u, ok) ELSE u
unhash_id(t, x) ==
    LET u == Taken(t, id_hash(t, x), x) IN IF u.use < u.size \div 4 THEN remerge_id(u) ELSE u
unhash_name(t, x) ==
    LET u == Taken(t, name_hash(t, x), x) IN IF u.use < u.size \div 4 THEN remerge_name(u) ELSE u
get_node_nocheck(t, x) == Contains(t.array[id_hash(t, x)], x)

-----------------------------------------------------------------------------
(***************************************************************************)
(* Slabs: a page of nodes with the list of the free ones; "list" is the    *)
(* list of slabs it is in.                                                 *)
(***************************************************************************)
Slots == 1..SlabNodes
NoSlab == [list |-> "none", used |-> 0, free |-> {}]
alloc_slab(ss, p) == [ss EXCEPT ![p] = [list |-> "partial", used |-> 0, free |-> Slots]]

\* alloc_node: from a slab of partial_slabs, the slot s.
alloc_node(ss, p, s) ==
    [ss EXCEPT ![p].used = @ + 1, ![p].free = @ \ {s},
               ![p].list = IF ss[p].free = {s} THEN "full" ELSE @]
free_slab(ss, p) == [ss EXCEPT ![p] = NoSlab]
free_node_mem(ss, p, s) ==
    IF ss[p].used = 1 THEN free_slab(ss, p)
    ELSE [ss EXCEPT ![p].used = @ - 1, ![p].free = @ \union {s}, ![p].list = "partial"]

-----------------------------------------------------------------------------
TablesInit ==
    /\ id_table = node_table_init /\ name_table = node_table_init /\ named = {}
    /\ slabs = [p \in SlabPages |-> NoSlab] /\ mem = [x \in NodeIds |-> NoMem] /\ failed = 0

\* find_node makes a node: memory, id and name.
MakeNode ==
    \E x \in NodeIds, p \in SlabPages, s \in Slots, ok \in BOOLEAN :
       LET partial == {q \in SlabPages : slabs[q].list = "partial"}
           ss == IF partial = {} THEN alloc_slab(slabs, p) ELSE slabs
       IN /\ mem[x] = NoMem
          /\ IF partial = {} THEN slabs[p] = NoSlab ELSE p \in partial
          /\ s \in ss[p].free /\ \A r \in ss[p].free : s <= r
          /\ slabs' = alloc_node(ss, p, s) /\ mem' = [mem EXCEPT ![x] = <<p, s>>]
          /\ ~ok => failed < MaxShrinks
          /\ failed' = IF ok THEN failed ELSE failed + 1
          /\ id_table' = hash_id(id_table, x, ok) /\ name_table' = hash_name(name_table, x, ok)
          /\ named' = named \union {x}

\* remove_node takes the name of a node that is still referenced.
TakeName ==
    \E x \in named :
       /\ name_table' = unhash_name(name_table, x) /\ named' = named \ {x}
       /\ UNCHANGED <<id_table, slabs, mem, failed>>

\* delete_node.
DeleteNode ==
    \E x \in NodeIds :
       /\ mem[x] # NoMem
       /\ name_table' = IF x \in named THEN unhash_name(name_table, x) ELSE name_table
       /\ id_table' = unhash_id(id_table, x) /\ named' = named \ {x}
       /\ slabs' = free_node_mem(slabs, mem[x][1], mem[x][2])
       /\ mem' = [mem EXCEPT ![x] = NoMem]
       /\ UNCHANGED failed

TablesNext == MakeNode \/ TakeName \/ DeleteNode
TablesSpec == TablesInit /\ [][TablesNext]_tableVars

-----------------------------------------------------------------------------
Live == {x \in NodeIds : mem[x] # NoMem}

\* The tables and the slabs hold exactly the live nodes: however often the tables grew and
\* shrank a node is found by its id, and by its name if it has one (get_node aborts on a node
\* it does not find); no chain leads to a freed node; and no live node is on a page that was
\* unmapped or in a slot that is free, a page with a free slot being on the partial list.
NodesExact ==
    /\ \A x \in Live : get_node_nocheck(id_table, x)
    /\ \A x \in named : Contains(name_table.array[name_hash(name_table, x)], x)
    /\ MapThenSumSet(LAMBDA b : Len(id_table.array[b]), DOMAIN id_table.array) = Cardinality(Live)
    /\ id_table.use = Cardinality(Live) /\ name_table.use = Cardinality(named)
    /\ \A p \in SlabPages :
          /\ slabs[p].list = "partial" => slabs[p].free # {} /\ slabs[p].used > 0
          /\ slabs[p].list = "full" => slabs[p].free = {}
    /\ \A x \in Live : slabs[mem[x][1]] # NoSlab /\ mem[x][2] \notin slabs[mem[x][1]].free
=============================================================================
