------------------------------ MODULE FuseTree ------------------------------
(***************************************************************************)
(* The node tree of the path-based layer of libfuse (lib/fuse.c): nodes    *)
(* with their reference and lookup counts, the path locks with their       *)
(* queue, hidden files, and the request handlers that use them, run by     *)
(* several threads at a time.                                              *)
(*                                                                         *)
(* A section under f.lock is one step, and so is a call of the file        *)
(* system.  The file system is the set of the paths that exist; files and  *)
(* directories are not told apart.                                         *)
(***************************************************************************)
EXTENDS Integers, Sequences, FiniteSets, SequencesExt

CONSTANTS
    Ids,          \* node numbers other than the root's
    Names,        \* names the kernel uses
    HiddenNames,  \* the names .fuse_hidden...
    TreeThreads,  \* threads that handle requests
    UsedKinds,    \* the kinds of request the kernel makes
    MaxOps        \* bound: requests

ASSUME TreeAssumption == Cardinality(Ids) > 1 /\ Names # {} /\ MaxOps \in Nat

VARIABLES
    node,    \* node[i]: the node with number i
    lockq,   \* f.lockq: the threads in the queue
    th,      \* th[t]: the request thread t handles, with its queue element
    fs,      \* the paths that exist
    known,   \* known[i]: lookups of i the kernel has to forget
    opened,  \* opened[i]: open handles of i the kernel has
    ops      \* requests so far

treeVars == <<node, lockq, th, fs, known, opened, ops>>

Root == "root"
NoNode == "none"
NoName == "unnamed"
AllIds == Ids \cup {Root}

TREELOCK_WRITE == -1
TREELOCK_WAIT_OFFSET == -100   \* INT_MIN

\* Which paths a handler locks: that of a node, that of a name in a directory,
\* the latter with the named node locked for writing, or two paths.
Reads  == {"attr", "open", "release", "dot"}
Enters == {"lookup", "make", "create"}
Writes == {"unlink"}
Twos   == {"rename", "exchange", "link"}
ChangesDirectory == {"make", "create", "unlink"} \cup Twos

IdleThread ==
    [pc |-> "idle", kind |-> "attr", id1 |-> Root, name1 |-> NoName, id2 |-> Root,
     name2 |-> NoName, n |-> 0, done |-> FALSE, err |-> "ok", first |-> FALSE,
     second |-> FALSE, wn1 |-> NoNode, wn2 |-> NoNode, p1 |-> <<>>, p2 |-> <<>>,
     entry |-> NoNode, replied |-> FALSE]

FreeNode == [live |-> FALSE, parent |-> NoNode, name |-> NoName, nlookup |-> 0,
             refctr |-> 0, treelock |-> 0, open |-> 0, hidden |-> FALSE]

\* The kernel has looked up a directory and, if it likes, opened a file in it; an
\* earlier process may have left hidden files there.
NodeAt(dir, name, refs, opens) ==
    [FreeNode EXCEPT !.live = TRUE, !.parent = dir, !.name = name, !.nlookup = 1,
                     !.refctr = refs, !.open = opens]

TreeInit ==
    LET d == CHOOSE j \in Ids : TRUE
        i == CHOOSE j \in Ids : j # d
        a == CHOOSE x \in Names : TRUE
    IN  \E o \in 0..1, left \in SUBSET HiddenNames :
        /\ node = [j \in AllIds |->
                     IF j = Root THEN [FreeNode EXCEPT !.live = TRUE, !.nlookup = 1, !.refctr = 2]
                     ELSE IF j = d THEN NodeAt(Root, a, 2, 0)
                     ELSE IF j = i THEN NodeAt(d, a, 1, o)
                     ELSE FreeNode]
        /\ lockq = <<>>
        /\ th = [t \in TreeThreads |-> IdleThread]
        /\ fs = {<<>>, <<a>>, <<a, a>>} \cup {<<a, h>> : h \in left}
        /\ known = [j \in Ids |-> IF j \in {d, i} THEN 1 ELSE 0]
        /\ opened = [j \in Ids |-> IF j = i THEN o ELSE 0]
        /\ ops = 0

-----------------------------------------------------------------------------
\* Nodes.  nd is the table of nodes.

lookup_node(nd, dir, name) ==
    IF \E i \in Ids : nd[i].live /\ nd[i].parent = dir /\ nd[i].name = name
    THEN CHOOSE i \in Ids : nd[i].live /\ nd[i].parent = dir /\ nd[i].name = name
    ELSE NoNode

\* The nodes from i up to the root, which is left out.
Chain(nd, i) ==
    LET up[j \in AllIds] ==
            IF j = Root THEN <<>>
            ELSE IF nd[j].parent = NoNode THEN <<j>> ELSE <<j>> \o up[nd[j].parent]
    IN  up[i]

PathOf(nd, i, name) ==
    LET c == Chain(nd, i)
    IN  [k \in 1..Len(c) |-> nd[c[Len(c) + 1 - k]].name] \o
        (IF name = NoName THEN <<>> ELSE <<name>>)

\* A reference less.  With the last one the node is deleted, and its parent
\* loses one too.
RECURSIVE unref_node(_, _)
unref_node(nd, i) ==
    LET deleted == [nd EXCEPT ![i] = FreeNode]
    IN  IF nd[i].refctr > 1 THEN [nd EXCEPT ![i].refctr = @ - 1]
        ELSE IF nd[i].parent = NoNode THEN deleted
        ELSE unref_node(deleted, nd[i].parent)

unhash_name(nd, i) ==
    IF nd[i].name = NoName THEN nd
    ELSE [unref_node(nd, nd[i].parent) EXCEPT ![i].name = NoName, ![i].parent = NoNode]

hash_name(nd, i, dir, name) ==
    [nd EXCEPT ![i].name = name, ![i].parent = dir, ![dir].refctr = @ + 1]

inc_nlookup(nd, i) ==
    [nd EXCEPT ![i].nlookup = @ + 1,
               ![i].refctr = IF nd[i].nlookup = 0 THEN @ + 1 ELSE @]

\* find_node: the named node, or a new one with a number that is free (next_id).
\* When all numbers of the model are in use there is none.
FreeIds(nd) == {i \in Ids : ~nd[i].live}
FoundNode(nd, dir, name) ==
    IF name = NoName THEN {dir}
    ELSE IF lookup_node(nd, dir, name) # NoNode THEN {lookup_node(nd, dir, name)}
    ELSE FreeIds(nd)
find_node(nd, i, dir, name) ==
    inc_nlookup(IF nd[i].live THEN nd
                ELSE hash_name([nd EXCEPT ![i].live = TRUE], i, dir, name), i)

\* remove_node, with unlink_node.
remove_node(nd, dir, name) ==
    LET i == lookup_node(nd, dir, name)
    IN  IF i = NoNode THEN nd ELSE unhash_name(nd, i)

\* rename_node; hide marks the node as hidden.
rename_node(nd, dir1, name1, dir2, name2, hide) ==
    LET i == lookup_node(nd, dir1, name1)
        cleared == remove_node(nd, dir2, name2)
        moved == hash_name(unhash_name(cleared, i), i, dir2, name2)
    IN  IF i = NoNode THEN nd
        ELSE IF hide THEN [moved EXCEPT ![i].hidden = TRUE] ELSE moved

exchange_node(nd, dir1, name1, dir2, name2) ==
    LET i == lookup_node(nd, dir1, name1)
        j == lookup_node(nd, dir2, name2)
        bare1 == IF i = NoNode THEN nd ELSE unhash_name(nd, i)
        bare == IF j = NoNode THEN bare1 ELSE unhash_name(bare1, j)
        half == IF i = NoNode THEN bare ELSE hash_name(bare, i, dir2, name2)
    IN  IF j = NoNode THEN half ELSE hash_name(half, j, dir1, name1)

-----------------------------------------------------------------------------
\* Path locks.

\* Bug: a path is taken though a node on it is locked for writing.
TryGetPathAnyway(nd, i, name, wr) ==
    LET c == Chain(nd, i)
        w == IF wr THEN lookup_node(nd, i, name) ELSE NoNode
    IN  IF w # NoNode /\ nd[w].treelock # 0
        THEN [err |-> "EAGAIN", node |-> nd, path |-> <<>>, wnode |-> NoNode]
        ELSE [err |-> "ok", path |-> PathOf(nd, i, name), wnode |-> w,
              node |-> [j \in AllIds |-> IF j = w THEN [nd[j] EXCEPT !.treelock = TREELOCK_WRITE]
                        ELSE IF j \in ToSet(c) THEN [nd[j] EXCEPT !.treelock = @ + 1] ELSE nd[j]]]

\* The named node, if it is to be written, must not be locked at all: if it is
\* locked for reading no new reader gets in.  No node up to the root may be
\* locked for writing, or wait for that.  A failure on the way up takes back
\* what was locked.
try_get_path(nd, i, name, wr) ==
    LET c == Chain(nd, i)
        w == IF wr THEN lookup_node(nd, i, name) ELSE NoNode
        bad == {k \in 1..Len(c) : nd[c[k]].name = NoName \/ nd[c[k]].treelock < 0}
        stop == CHOOSE k \in bad : \A m \in bad : k <= m
        Fail(e, n) == [err |-> e, node |-> n, path |-> <<>>, wnode |-> NoNode]
    IN  IF w # NoNode /\ nd[w].treelock # 0
        THEN Fail("EAGAIN", IF nd[w].treelock > 0
                            THEN [nd EXCEPT ![w].treelock = @ + TREELOCK_WAIT_OFFSET] ELSE nd)
        ELSE IF bad # {}
        THEN Fail(IF nd[c[stop]].name = NoName THEN "ENOENT" ELSE "EAGAIN", nd)
        ELSE [err |-> "ok", path |-> PathOf(nd, i, name), wnode |-> w,
              node |-> [j \in AllIds |-> IF j = w THEN [nd[j] EXCEPT !.treelock = TREELOCK_WRITE]
                        ELSE IF j \in ToSet(c) THEN [nd[j] EXCEPT !.treelock = @ + 1] ELSE nd[j]]]

\* Bug: the last reader leaves the mark of a waiting writer.
UnlockPathOnly(nd, i, w) ==
    [j \in AllIds |-> IF j = w THEN [nd[j] EXCEPT !.treelock = 0]
        ELSE IF j \in ToSet(Chain(nd, i)) THEN [nd[j] EXCEPT !.treelock = @ - 1] ELSE nd[j]]

unlock_path(nd, i, w) ==
    [j \in AllIds |-> IF j = w THEN [nd[j] EXCEPT !.treelock = 0]
        ELSE IF j \in ToSet(Chain(nd, i))
             THEN [nd[j] EXCEPT !.treelock = IF @ - 1 = TREELOCK_WAIT_OFFSET THEN 0 ELSE @ - 1]
             ELSE nd[j]]

\* The node forget_node is called for.
Forgotten(r) == IF r.kind = "forget" THEN r.id1 ELSE r.entry

Wr(r) == r.kind \in {"unlink", "rename", "exchange"}
Two(r) == r.kind \in Twos
Try1(nd, r) == try_get_path(nd, r.id1, r.name1, Wr(r))
Try2(nd, r) == try_get_path(nd, r.id2, r.name2, Wr(r))

\* free_path, free_path_wrlock, free_path2 and queue_element_unlock.
Unlocked(nd, r) ==
    LET one == IF r.first THEN unlock_path(nd, r.id1, r.wn1) ELSE nd
    IN  IF r.second THEN unlock_path(one, r.id2, r.wn2) ELSE one

Lock1(r, g) == [r EXCEPT !.first = TRUE, !.p1 = g.path, !.wn1 = g.wnode]
Lock2(r, g) == [r EXCEPT !.second = TRUE, !.p2 = g.path, !.wn2 = g.wnode]
NoLocks(r) == [r EXCEPT !.first = FALSE, !.second = FALSE]

\* queue_element_wakeup.  A forget is told when its node is not locked; another
\* element takes the paths it has not, and only the first element of the queue
\* may keep one of two.
queue_element_wakeup(s, t, head) ==
    LET r == s.th[t]
        g1 == IF r.first THEN [err |-> "ok", node |-> s.node] ELSE Try1(s.node, r)
        r1 == IF r.first \/ g1.err # "ok" THEN r ELSE Lock1(r, g1)
        g2 == IF r1.second \/ ~Two(r) THEN [err |-> "ok", node |-> g1.node] ELSE Try2(g1.node, r1)
        r2 == IF r1.second \/ ~Two(r) \/ g2.err # "ok" THEN r1 ELSE Lock2(r1, g2)
        Done(e, x, nd) == [node |-> nd, th |-> [s.th EXCEPT ![t] =
                             [x EXCEPT !.done = TRUE, !.err = e]]]
    IN  IF r.pc = "forget"
        THEN [s EXCEPT !.th[t].done = @ \/ s.node[Forgotten(r)].treelock = 0]
        ELSE IF g1.err = "ENOENT" THEN Done("ENOENT", NoLocks(r1), Unlocked(g1.node, r1))
        ELSE IF g2.err = "ENOENT" THEN Done("ENOENT", NoLocks(r2), Unlocked(g2.node, r2))
        ELSE IF r2.first /\ (r2.second \/ ~Two(r)) THEN Done("ok", r2, g2.node)
        ELSE IF t = head THEN [node |-> g2.node, th |-> [s.th EXCEPT ![t] = r2]]
        ELSE [node |-> Unlocked(g2.node, r2), th |-> [s.th EXCEPT ![t] = NoLocks(r2)]]

\* Everybody in the queue tries again, in order.
wake_up_queued(nd, threads) ==
    FoldLeft(LAMBDA s, t : queue_element_wakeup(s, t, Head(lockq)),
             [node |-> nd, th |-> threads], lockq)

-----------------------------------------------------------------------------
\* The kernel.  It holds the nodes that its unanswered requests name, and
\* serialises the changes of one directory, and the moves between directories.

Pending(t) == th[t].pc # "idle" /\ ~th[t].replied /\ th[t].kind # "forget"
Dirs(r) == (IF r.name1 = NoName THEN {} ELSE {r.id1}) \cup
           (IF r.name2 = NoName THEN {} ELSE {r.id2})
HeldLocks(i) ==
    \/ opened[i] > 0
    \/ \E j \in Ids : node[j].parent = i /\ known[j] > 0
    \/ \E t \in TreeThreads : Pending(t) /\ (\/ i \in {th[t].id1, th[t].id2, th[t].wn1, th[t].wn2}
                                            \/ lookup_node(node, th[t].id1, th[t].name1) = i
                                            \/ lookup_node(node, th[t].id2, th[t].name2) = i)

Allowed(r) ==
    /\ IF r.kind = "dot" THEN r.id1 # Root /\ node[r.id1].live
       ELSE \A i \in {r.id1, r.id2} \ {Root} : known[i] > 0
    /\ \A t \in TreeThreads : Pending(t) =>
        /\ ~(ChangesDirectory \cap {r.kind, th[t].kind} # {} /\ Dirs(r) \cap Dirs(th[t]) # {})
        /\ ~({r.kind, th[t].kind} \subseteq {"rename", "exchange"}
             /\ r.id1 # r.id2 /\ th[t].id1 # th[t].id2)
    /\ r.kind \in {"rename", "exchange"} =>
        LET i == lookup_node(node, r.id1, r.name1)
            j == lookup_node(node, r.id2, r.name2)
        IN  /\ <<r.id1, r.name1>> # <<r.id2, r.name2>>
            /\ i # NoNode /\ known[i] > 0 /\ i \notin ToSet(Chain(node, r.id2))
            /\ j \notin ToSet(Chain(node, r.id1)) /\ (j \in Ids => known[j] > 0)
            /\ r.kind = "exchange" => j # NoNode
    /\ r.kind = "unlink" => \E i \in Ids : known[i] > 0 /\ lookup_node(node, r.id1, r.name1) = i
    /\ r.kind \in {"open", "release", "link"} => r.id1 # Root
    /\ r.kind = "release" => opened[r.id1] > 0

\* The arguments a request of kind k may have.
Requests(k) ==
    LET r0 == [IdleThread EXCEPT !.pc = "get", !.kind = k]
    IN  IF k \in Reads THEN {[r0 EXCEPT !.id1 = i] : i \in AllIds}
        ELSE IF k \in Enters \cup Writes
        THEN {[r0 EXCEPT !.id1 = i, !.name1 = a] : i \in AllIds, a \in Names}
        ELSE IF k = "link"
        THEN {[r0 EXCEPT !.id1 = i, !.id2 = d, !.name2 = a] :
                  i \in Ids, d \in AllIds, a \in Names}
        ELSE {[r0 EXCEPT !.id1 = d, !.name1 = a, !.id2 = e, !.name2 = b] :
                  d \in AllIds, a \in Names, e \in AllIds, b \in Names}

Set(t, r) == th' = [th EXCEPT ![t] = r]
Go(t, p) == Set(t, [th[t] EXCEPT !.pc = p])

\* A thread takes a request.  A release is counted by the kernel at once.
Request(t, k) ==
    /\ th[t].pc = "idle" /\ ops < MaxOps
    /\ ops' = ops + 1
    /\ \E r \in Requests(k) :
        /\ Allowed(r)
        \* lookup of ".": the node itself gets a reference for the time
        /\ node' = (IF k = "dot" THEN [node EXCEPT ![r.id1].refctr = @ + 1] ELSE node)
        /\ opened' = (IF k = "release" THEN [opened EXCEPT ![r.id1] = @ - 1] ELSE opened)
        /\ Set(t, r)
    /\ UNCHANGED <<lockq, fs, known>>

\* FORGET, for all the lookups of a node at once.
RequestForget(t, i) ==
    /\ th[t].pc = "idle" /\ known[i] > 0 /\ ~HeldLocks(i)
    /\ known' = [known EXCEPT ![i] = 0]
    /\ Set(t, [IdleThread EXCEPT !.pc = "forget", !.kind = "forget", !.id1 = i, !.n = known[i]])
    /\ UNCHANGED <<node, lockq, fs, opened, ops>>

-----------------------------------------------------------------------------
\* get_path_common and get_path2: the paths are locked now, or else the thread
\* enters the queue.
GetPath(t) ==
    LET r == th[t]
        g1 == Try1(node, r)
        g2 == Try2(g1.node, Lock1(r, g1))
        end == IF r.kind = "release" THEN "op" ELSE "free"
    IN  /\ r.pc = "get"
        /\ \/ /\ g1.err = "ok" /\ ~Two(r)
              /\ node' = g1.node /\ lockq' = lockq
              /\ Set(t, [Lock1(r, g1) EXCEPT !.pc = "op"])
           \/ /\ g1.err = "ok" /\ Two(r) /\ g2.err = "ok"
              /\ node' = g2.node /\ lockq' = lockq
              /\ Set(t, [Lock2(Lock1(r, g1), g2) EXCEPT !.pc = "op"])
           \/ /\ "EAGAIN" = IF g1.err = "ok" /\ Two(r) THEN g2.err ELSE g1.err
              /\ node' = (IF g1.err = "ok" THEN unlock_path(g2.node, r.id1, g1.wnode)
                          ELSE g1.node)
              /\ lockq' = Append(lockq, t)
              /\ Set(t, [r EXCEPT !.pc = "queued"])
           \/ /\ "ENOENT" = IF g1.err = "ok" /\ Two(r) THEN g2.err ELSE g1.err
              /\ node' = (IF g1.err = "ok" THEN unlock_path(g2.node, r.id1, g1.wnode)
                          ELSE g1.node)
              /\ lockq' = lockq
              /\ Set(t, [r EXCEPT !.pc = end, !.err = "ENOENT"])
        /\ UNCHANGED <<fs, known, opened, ops>>

\* wait_path: the thread has been told, and leaves the queue.
WaitPath(t) ==
    LET r == th[t]
    IN  /\ r.pc = "queued" /\ r.done
        /\ lockq' = SelectSeq(lockq, LAMBDA q : q # t)
        /\ Set(t, [r EXCEPT !.done = FALSE,
                   !.pc = IF r.err = "ok" \/ r.kind = "release" THEN "op" ELSE "free"])
        /\ UNCHANGED <<node, fs, known, opened, ops>>

\* Open and create free the path after the answer, the others before it.
Late(r) == r.kind \in {"open", "create"} /\ r.first
Fail(t, e) == Set(t, [th[t] EXCEPT !.pc = IF Late(th[t]) THEN "reply" ELSE "free", !.err = e])

\* Calls of the file system, by path.
Beneath(p) == {q \in fs : IsPrefix(p, q)}
Moved(p, q) == {q \o SubSeq(x, Len(p) + 1, Len(x)) : x \in Beneath(p)}
FsMake(p) == Front(p) \in fs /\ p \notin fs
FsRemove(p) == p \in fs /\ Beneath(p) = {p}

\* Lookup, make, create and link: the path is made if it is to be, then looked
\* up; the next step enters the node.
EnterPath(t) ==
    LET r == th[t]
        p == IF r.kind = "link" THEN r.p2 ELSE r.p1
    IN  /\ r.pc = "op" /\ r.kind \in Enters \cup {"link", "dot"}
        /\ \/ /\ r.kind \in {"lookup", "dot"} /\ p \in fs
              /\ Go(t, "node") /\ fs' = fs
           \/ /\ r.kind \notin {"lookup", "dot"} /\ FsMake(p)
              /\ r.kind = "link" => r.p1 \in fs
              /\ Go(t, "node") /\ fs' = fs \cup {p}
           \/ /\ \/ r.kind \in {"lookup", "dot"} /\ p \notin fs
                 \/ r.kind \notin {"lookup", "dot"} /\ ~FsMake(p)
                 \/ r.kind = "link" /\ r.p1 \notin fs
              /\ Fail(t, "error") /\ fs' = fs
        /\ UNCHANGED <<node, lockq, known, opened, ops>>

\* do_lookup: the entry's node.  A create counts an open too.
EnterNode(t) ==
    LET r == th[t]
        d == IF r.kind = "link" THEN r.id2 ELSE r.id1
        a == IF r.kind = "link" THEN r.name2 ELSE r.name1
        opens == IF r.kind = "create" THEN 1 ELSE 0
    IN  /\ r.pc = "node" /\ r.kind \in Enters \cup {"link", "dot"}
        /\ \/ \E i \in FoundNode(node, d, a) :
                /\ node' = [find_node(node, i, d, a) EXCEPT ![i].open = @ + opens]
                /\ Set(t, [r EXCEPT !.entry = i, !.pc = IF opens = 1 THEN "reply" ELSE "free"])
           \/ /\ FoundNode(node, d, a) = {}
              /\ node' = node
              /\ Fail(t, "ENOMEM")
        /\ UNCHANGED <<lockq, fs, known, opened, ops>>

\* Operations on a node that exists: getattr and its like; open.
UsePath(t) ==
    LET r == th[t]
    IN  /\ r.pc = "op" /\ r.kind \in {"attr", "open"}
        /\ \/ r.kind = "attr" /\ Go(t, "free")
           \/ r.kind = "open" /\ r.p1 \in fs /\ Go(t, "node")
           \/ r.kind = "open" /\ Fail(t, "error")
        /\ UNCHANGED <<node, lockq, fs, known, opened, ops>>

OpenNode(t) ==
    /\ th[t].pc = "node" /\ th[t].kind = "open"
    /\ node' = [node EXCEPT ![th[t].id1].open = @ + 1]
    /\ Set(t, [th[t] EXCEPT !.pc = "reply", !.entry = th[t].id1])
    /\ UNCHANGED <<lockq, fs, known, opened, ops>>

\* hide_node: the file gets a hidden name in its directory, if one is free.
HiddenFor(dir, p) ==
    {h \in HiddenNames : lookup_node(node, dir, h) = NoNode /\ Append(Front(p), h) \notin fs}
is_open(dir, name) ==
    LET i == lookup_node(node, dir, name) IN i # NoNode /\ node[i].open > 0

UnlinkPath(t) ==
    LET r == th[t]
        open == is_open(r.id1, r.name1)
    IN  /\ r.pc = "op" /\ r.kind = "unlink"
        /\ \/ ~open /\ FsRemove(r.p1) /\ fs' = fs \ {r.p1} /\ node' = node /\ Go(t, "node")
           \/ ~open /\ ~FsRemove(r.p1) /\ UNCHANGED <<fs, node>> /\ Fail(t, "error")
           \/ \E h \in HiddenFor(r.id1, r.p1) :
                /\ open /\ r.p1 \in fs
                /\ fs' = (fs \ Beneath(r.p1)) \cup Moved(r.p1, Append(Front(r.p1), h))
                /\ node' = rename_node(node, r.id1, r.name1, r.id1, h, TRUE)
                /\ Go(t, "free")
           \/ /\ open /\ (HiddenFor(r.id1, r.p1) = {} \/ r.p1 \notin fs)
              /\ UNCHANGED <<fs, node>> /\ Fail(t, "EBUSY")
        /\ UNCHANGED <<lockq, known, opened, ops>>

\* Rename: an open target is hidden first, in a step of its own.
RenameHides(t) ==
    LET r == th[t]
    IN  /\ r.pc = "op" /\ r.kind = "rename" /\ is_open(r.id2, r.name2)
        /\ \/ \E h \in HiddenFor(r.id2, r.p2) :
                /\ r.p2 \in fs
                /\ fs' = (fs \ Beneath(r.p2)) \cup Moved(r.p2, Append(Front(r.p2), h))
                /\ node' = rename_node(node, r.id2, r.name2, r.id2, h, TRUE)
                /\ th' = th
           \/ /\ HiddenFor(r.id2, r.p2) = {} \/ r.p2 \notin fs
              /\ UNCHANGED <<fs, node>> /\ Fail(t, "EBUSY")
        /\ UNCHANGED <<lockq, known, opened, ops>>

RenamePath(t) ==
    LET r == th[t]
        ok == /\ r.p1 \in fs /\ Front(r.p2) \in fs /\ ~IsPrefix(r.p1, r.p2)
              /\ IF r.kind = "exchange" THEN r.p2 \in fs /\ ~IsPrefix(r.p2, r.p1)
                 ELSE Beneath(r.p2) \subseteq {r.p2}
        rest == fs \ (Beneath(r.p1) \cup Beneath(r.p2))
    IN  /\ r.pc = "op" /\ r.kind \in {"rename", "exchange"}
        /\ r.kind = "rename" => ~is_open(r.id2, r.name2)
        /\ \/ /\ ok /\ Go(t, "node")
              /\ fs' = rest \cup Moved(r.p1, r.p2) \cup
                       (IF r.kind = "exchange" THEN Moved(r.p2, r.p1) ELSE {})
           \/ ~ok /\ fs' = fs /\ Fail(t, "error")
        /\ UNCHANGED <<node, lockq, known, opened, ops>>

\* After a successful call the nodes follow.
ChangeNode(t) ==
    LET r == th[t]
    IN  /\ r.pc = "node" /\ r.kind \in {"unlink", "rename", "exchange"}
        /\ node' = (IF r.kind = "unlink" THEN remove_node(node, r.id1, r.name1)
                    ELSE IF r.kind = "rename"
                    THEN rename_node(node, r.id1, r.name1, r.id2, r.name2, FALSE)
                    ELSE exchange_node(node, r.id1, r.name1, r.id2, r.name2))
        /\ Go(t, "free")
        /\ UNCHANGED <<lockq, fs, known, opened, ops>>

\* fuse_do_release: one open less; the last one of a hidden file removes it by
\* the path that was locked, if there was one.
ReleaseNode(t) ==
    LET r == th[t]
        i == IF r.kind = "release" THEN r.id1 ELSE r.entry
        last == node[i].hidden /\ node[i].open = 1
        next == IF r.kind = "release" THEN "free" ELSE IF r.kind = "create" THEN "forget" ELSE "free"
    IN  /\ \/ r.pc = "op" /\ r.kind = "release"
           \/ r.pc = "release"
        /\ node' = [node EXCEPT ![i].open = @ - 1, ![i].hidden = @ /\ ~last]
        /\ fs' = (IF last /\ r.first /\ FsRemove(r.p1) THEN fs \ {r.p1} ELSE fs)
        /\ Set(t, [r EXCEPT !.pc = next, !.n = 1])
        /\ UNCHANGED <<lockq, known, opened, ops>>

-----------------------------------------------------------------------------
\* The answer.  Open and create answer before they free the path; an answer
\* the kernel no longer waits for (ENOENT) takes back what was given.
AnswersRequest(t) ==
    LET r == th[t]
    IN  /\ r.pc = "reply"
        /\ \/ /\ known' = (IF r.entry # NoNode /\ r.kind # "open"
                           THEN [known EXCEPT ![r.entry] = @ + 1] ELSE known)
              /\ opened' = (IF Late(r) /\ r.entry # NoNode
                            THEN [opened EXCEPT ![r.entry] = @ + 1] ELSE opened)
              /\ Set(t, IF Late(r) THEN [r EXCEPT !.pc = "free", !.replied = TRUE]
                        ELSE IdleThread)
           \/ /\ r.entry # NoNode
              /\ Set(t, [r EXCEPT !.pc = IF Late(r) THEN "release" ELSE "forget",
                         !.n = 1, !.replied = TRUE])
              /\ UNCHANGED <<known, opened>>
        /\ UNCHANGED <<node, lockq, fs, ops>>

\* free_path and its like, then the queue is woken.
FreePath(t) ==
    LET r == th[t]
        s == IF r.first THEN wake_up_queued(Unlocked(node, r), th)
             ELSE [node |-> node, th |-> th]
    IN  /\ r.pc = "free"
        /\ node' = (IF r.kind = "dot" THEN unref_node(s.node, r.id1) ELSE s.node)
        /\ th' = [s.th EXCEPT ![t] =
                    IF r.replied THEN IdleThread ELSE [NoLocks(r) EXCEPT !.pc = "reply"]]
        /\ UNCHANGED <<lockq, fs, known, opened, ops>>

\* forget_node: waits as long as these are the last lookups of a locked node.
Forget(t) ==
    LET r == th[t]
        i == Forgotten(r)
        wait == node[i].nlookup = r.n /\ node[i].treelock # 0
        queued == t \in ToSet(lockq)
    IN  /\ r.pc = "forget" /\ (queued => r.done)
        /\ IF wait
           THEN /\ Set(t, [r EXCEPT !.done = FALSE])
                /\ lockq' = (IF queued THEN lockq ELSE Append(lockq, t))
                /\ node' = node
           ELSE /\ lockq' = SelectSeq(lockq, LAMBDA q : q # t)
                /\ node' = (IF node[i].nlookup = r.n
                            THEN unref_node([node EXCEPT ![i].nlookup = 0], i)
                            ELSE [node EXCEPT ![i].nlookup = @ - r.n])
                /\ Set(t, IF r.first THEN [r EXCEPT !.pc = "free"] ELSE IdleThread)
        /\ UNCHANGED <<fs, known, opened, ops>>

TreeStep(t) ==
    \/ GetPath(t) \/ WaitPath(t) \/ EnterPath(t) \/ EnterNode(t) \/ UsePath(t)
    \/ OpenNode(t) \/ UnlinkPath(t) \/ RenameHides(t) \/ RenamePath(t)
    \/ ChangeNode(t) \/ ReleaseNode(t) \/ AnswersRequest(t) \/ FreePath(t) \/ Forget(t)

TreeNext ==
    \E t \in TreeThreads :
        \/ \E k \in UsedKinds : Request(t, k)
        \/ \E i \in Ids : RequestForget(t, i)
        \/ TreeStep(t)

-----------------------------------------------------------------------------
\* The path a call of the file system gets is the path of its node at that
\* time, though other threads rename and remove (fuse.c:1037, :1049).
PathsHold ==
    \A t \in TreeThreads : th[t].pc = "op" /\ th[t].first =>
        /\ th[t].p1 = PathOf(node, th[t].id1, th[t].name1)
        /\ th[t].second => th[t].p2 = PathOf(node, th[t].id2, th[t].name2)

Waiting(t) == t \in ToSet(lockq) /\ ~th[t].done

\* A thread that waits in the queue is not forgotten: somebody who holds a path
\* and waits for nothing is going to free it and wake the queue.  So two
\* threads that lock two paths each do not wait for each other either
\* ("locking two paths needs deadlock checking", fuse.c:1317; :1131).
SomebodyWakes ==
    (\E t \in TreeThreads : Waiting(t)) =>
        \E u \in TreeThreads : ~Waiting(u) /\ th[u].first
=============================================================================
