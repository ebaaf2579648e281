--------------------------- MODULE PassthroughLL ---------------------------
(***************************************************************************)
(* example/passthrough_ll.c: a file system that mirrors a directory with   *)
(* the low-level interface, served by several threads.  An inode number of *)
(* the kernel is the address of a lo_inode, which keeps a descriptor.      *)
(***************************************************************************)
EXTENDS Naturals, Sequences, FiniteSets, FiniteSetsExt, SequencesExt

CONSTANTS
    LoNames,     \* positions of the names in the source directory, from 1
    LoFiles,     \* files (device and inode number)
    LoInodes,    \* addresses
    LoThreads,
    LoOps,       \* operations the kernel asks for
    MaxLoCalls, MaxLoFaults
LoNil == 0
NotReading == [from |-> LoNil, size |-> LoNil, got |-> <<>>]

VARIABLES
    source,      \* the source directory: name -> file or LoNil
    lo,          \* lo_inodes: [file, refcount, listed]; file # LoNil while allocated
    known,       \* kernel's look-up count of each
    lofds,       \* number of open descriptors
    lost,        \* descriptors lo_create forgot
    fhs,         \* kernel's open files
    dirp,        \* the lo_dirp
    lot,         \* the threads
    localls, lofaults
loVars == <<source, lo, known, lofds, lost, fhs, dirp, lot, localls, lofaults>>

IdleThread == [pc |-> "idle", op |-> "none", ino |-> LoNil, name |-> LoNil, newfd |-> FALSE, file |-> LoNil,
               e |-> LoNil, fh |-> LoNil, left |-> 0, dir |-> NotReading]
NoDirp == [open |-> FALSE, entry |-> LoNil, pos |-> 0, offset |-> 0]
FreeInode == [file |-> LoNil, refcount |-> 0, listed |-> FALSE]

LoInit ==
    /\ \E f \in LoFiles : source \in {[n \in LoNames |-> IF n <= k THEN f ELSE LoNil] : k \in {1, Cardinality(LoNames)}}
    /\ lo = [o \in LoInodes |-> FreeInode] /\ known = [o \in LoInodes |-> 0]
    /\ lofds = 1 /\ lost = 0 /\ fhs = [f \in LoFiles |-> 0] /\ dirp = NoDirp
    /\ lot = [t \in LoThreads |-> IdleThread] /\ localls = 0 /\ lofaults = 0

LoFault == lofaults < MaxLoFaults /\ lofaults' = lofaults + 1
NoLoFault == lofaults' = lofaults
LoGoes(t, r) == lot' = [lot EXCEPT ![t] = r]
LoAt(t, pc) == lot[t].pc = pc
\* A number is free for a new file when nobody has the old one.
LoUnused(f) ==
    /\ f \notin Range(source) /\ fhs[f] = 0
    /\ \A o \in LoInodes : lo[o].file # f
    /\ \A t \in LoThreads : f \notin {lot[t].file, lot[t].fh}

-----------------------------------------------------------------------------
\* The requests.  The kernel keeps an inode while a request or an open file uses it, and
\* gives back all its look-ups at once.
LoInUse(o) == fhs[lo[o].file] > 0 \/ \E t \in LoThreads : lot[t].ino = o
LoRequest(t, op, r) ==
    /\ LoAt(t, "idle") /\ op \in LoOps /\ localls < MaxLoCalls /\ localls' = localls + 1
    /\ LoGoes(t, [r EXCEPT !.op = op]) /\ UNCHANGED <<source, lo, lofds, lost, fhs, lofaults>>
LoTo(pc) == [IdleThread EXCEPT !.pc = pc]
Knows(o) == known[o] > 0

\* The handlers that make calls of the system on the inode's descriptor, or on the open
\* file's, and answer with the first error, or at the end.
InodeCalls(n) == [on |-> "inode", n |-> n]
FileCalls(n) == [on |-> "file", n |-> n]
lo_getattr == InodeCalls(1)
lo_setattr == InodeCalls(5)
lo_readlink == InodeCalls(1)
lo_getxattr == InodeCalls(1)
lo_listxattr == InodeCalls(1)
lo_setxattr == InodeCalls(1)
lo_removexattr == InodeCalls(1)
lo_statfs == InodeCalls(1)
lo_read == FileCalls(1)
lo_write_buf == FileCalls(1)
lo_flush == FileCalls(2)
lo_fsync == FileCalls(1)
lo_fallocate == FileCalls(1)
lo_flock == FileCalls(1)
lo_copy_file_range == FileCalls(1)
lo_lseek == FileCalls(1)
lo_oper ==
    [getattr |-> lo_getattr, setattr |-> lo_setattr, readlink |-> lo_readlink, getxattr |-> lo_getxattr,
     listxattr |-> lo_listxattr, setxattr |-> lo_setxattr, removexattr |-> lo_removexattr, statfs |-> lo_statfs,
     read |-> lo_read, write_buf |-> lo_write_buf, flush |-> lo_flush, fsync |-> lo_fsync, fallocate |-> lo_fallocate,
     flock |-> lo_flock, copy_file_range |-> lo_copy_file_range, lseek |-> lo_lseek]

KernelAsks(t) ==
    \/ \E n \in LoNames : /\ \/ LoRequest(t, "lookup", [LoTo("open") EXCEPT !.name = n])
                             \/ LoRequest(t, "make", [LoTo("make") EXCEPT !.name = n])
                             \/ LoRequest(t, "create", [LoTo("make") EXCEPT !.name = n])
                             \/ LoRequest(t, "unlink", [LoTo("unlink") EXCEPT !.name = n])
                             \/ LoRequest(t, "rename", [LoTo("rename") EXCEPT !.name = n])
                          /\ UNCHANGED <<known, dirp>>
    \/ \E o \in LoInodes, n \in LoNames : /\ Knows(o)
                                          /\ LoRequest(t, "link", [LoTo("link") EXCEPT !.ino = o, !.name = n])
                                          /\ UNCHANGED <<known, dirp>>
    \/ \E o \in LoInodes : /\ Knows(o)
                           /\ \/ LoRequest(t, "open", [LoTo("openfile") EXCEPT !.ino = o])
                              \/ \E h \in {g \in DOMAIN lo_oper : lo_oper[g].on = "inode"} :
                                    LoRequest(t, h, [LoTo("calls") EXCEPT !.ino = o, !.left = lo_oper[h].n])
                           /\ UNCHANGED <<known, dirp>>
    \/ \E f \in LoFiles : /\ fhs[f] > 0
                          /\ \/ \E h \in {g \in DOMAIN lo_oper : lo_oper[g].on = "file"} :
                                   LoRequest(t, h, [LoTo("calls") EXCEPT !.fh = f, !.left = lo_oper[h].n])
                          /\ UNCHANGED <<known, dirp>>
    \/ \E o \in LoInodes : /\ Knows(o) /\ ~LoInUse(o)
                           /\ LoRequest(t, "forget", [LoTo("unref") EXCEPT !.ino = o, !.left = known[o]])
                           /\ known' = [known EXCEPT ![o] = 0] /\ UNCHANGED dirp
    \/ /\ ~dirp.open /\ (\A u \in LoThreads : lot[u].op # "opendir")
       /\ LoRequest(t, "opendir", LoTo("opendir")) /\ UNCHANGED <<known, dirp>>
    \/ /\ dirp.open /\ (\A u \in LoThreads : lot[u].op \notin {"readdir", "readdirplus"})
       /\ \E op \in {"readdir", "readdirplus"}, off \in {0, dirp.offset}, size \in 1..2 :
             LoRequest(t, op, [LoTo("readdir") EXCEPT !.dir = [NotReading EXCEPT !.from = off, !.size = size]])
       /\ UNCHANGED <<known, dirp>>

\* Release is a request of its own; the handle is the thread's from then on.
KernelReleases(t) ==
    \/ \E f \in LoFiles :
          /\ fhs[f] > 0 /\ (\A u \in LoThreads : lot[u].fh # f)
          /\ LoAt(t, "idle") /\ "release" \in LoOps /\ LoGoes(t, [LoTo("close") EXCEPT !.op = "release", !.fh = f])
          /\ fhs' = [fhs EXCEPT ![f] = @ - 1]
          /\ UNCHANGED <<source, lo, known, lofds, lost, dirp, localls, lofaults>>
    \/ /\ dirp.open /\ (\A u \in LoThreads : lot[u].op \notin {"readdir", "readdirplus"})
       /\ LoAt(t, "idle") /\ "releasedir" \in LoOps /\ LoGoes(t, [LoTo("close") EXCEPT !.op = "releasedir"])
       /\ dirp' = NoDirp
       /\ UNCHANGED <<source, lo, known, lofds, lost, fhs, localls, lofaults>>

-----------------------------------------------------------------------------
LoAnswers(t) == LoGoes(t, IdleThread)
lo_close(t) ==
    /\ LoAt(t, "close") /\ lofds' = lofds - 1 /\ LoAnswers(t)
    /\ UNCHANGED <<source, lo, known, lost, fhs, dirp, localls, lofaults>>

SystemCall(t) ==
    /\ LoAt(t, "calls") /\ UNCHANGED <<source, lo, known, lofds, lost, fhs, dirp, localls>>
    /\ \/ LoFault /\ LoAnswers(t)
       \/ NoLoFault /\ IF lot[t].left = 1 THEN LoAnswers(t) ELSE LoGoes(t, [lot[t] EXCEPT !.left = @ - 1])

\* mknod_wrapper, and the first call of lo_create.
lo_mknod_symlink(t) ==
    /\ LoAt(t, "make") /\ UNCHANGED <<lo, known, lost, fhs, localls>>
    /\ LET n == lot[t].name IN
       \/ /\ (LoFault \/ (NoLoFault /\ source[n] # LoNil /\ lot[t].op = "make"))
          /\ LoAnswers(t) /\ UNCHANGED <<source, dirp, lofds>>
       \/ /\ NoLoFault
          /\ \E f \in LoFiles : /\ IF source[n] = LoNil THEN LoUnused(f) ELSE f = source[n] /\ lot[t].op = "create"
                                /\ source' = [source EXCEPT ![n] = f] /\ UNCHANGED dirp
                                /\ lofds' = IF lot[t].op = "create" THEN lofds + 1 ELSE lofds
                                /\ LoGoes(t, [lot[t] EXCEPT !.pc = "open", !.fh = IF lot[t].op = "create" THEN f ELSE @])

\* lo_do_lookup.
LookupFails(t) ==
    /\ lofds' = IF lot[t].newfd THEN lofds - 1 ELSE lofds
    /\ LoGoes(t, [lot[t] EXCEPT !.pc = "notfound", !.newfd = FALSE, !.file = LoNil])
LookupOpen(t) ==
    /\ LoAt(t, "open") /\ UNCHANGED <<source, lo, known, lost, fhs, dirp, localls>>
    /\ \/ (LoFault \/ (NoLoFault /\ source[lot[t].name] = LoNil)) /\ LookupFails(t)
       \/ /\ NoLoFault /\ source[lot[t].name] # LoNil /\ lofds' = lofds + 1
          /\ LoGoes(t, [lot[t] EXCEPT !.pc = "stat", !.newfd = TRUE, !.file = source[lot[t].name]])
LookupStat(t) ==
    /\ LoAt(t, "stat") /\ UNCHANGED <<source, lo, known, lost, fhs, dirp, localls>>
    /\ \/ LoFault /\ LookupFails(t)
       \/ NoLoFault /\ lofds' = lofds /\ LoGoes(t, [lot[t] EXCEPT !.pc = "find"])
Found(t, o) == [lot[t] EXCEPT !.pc = "found", !.e = o, !.newfd = FALSE, !.file = LoNil]
\* The code takes the match that was listed last; the model takes any.
lo_find(t) == {o \in LoInodes : lo[o].listed /\ lo[o].file = lot[t].file}
LookupFind(t) ==
    /\ LoAt(t, "find") /\ UNCHANGED <<source, known, lost, fhs, dirp, localls, lofaults>>
    /\ IF lo_find(t) = {} THEN LoGoes(t, [lot[t] EXCEPT !.pc = "alloc"]) /\ UNCHANGED <<lo, lofds>>
       ELSE \E o \in lo_find(t) : /\ lo' = [lo EXCEPT ![o].refcount = @ + 1]
                                  /\ lofds' = lofds - 1 /\ LoGoes(t, Found(t, o))
lo_do_lookup(t) ==
    /\ LoAt(t, "alloc") /\ UNCHANGED <<source, known, lost, fhs, dirp, localls, lofaults>>
    /\ LET free == {o \in LoInodes : lo[o].file = LoNil} IN
       IF free = {} THEN LookupFails(t) /\ UNCHANGED lo
       ELSE /\ lo' = [lo EXCEPT ![Min(free)] = [file |-> lot[t].file, refcount |-> 1, listed |-> TRUE]]
            /\ LoGoes(t, Found(t, Min(free))) /\ UNCHANGED lofds

\* lo_lookup, lo_mknod_symlink and lo_create answer with the entry.
IsReading(t) == lot[t].op \in {"readdir", "readdirplus"}
lo_lookup(t) ==
    /\ LoAt(t, "found") /\ ~IsReading(t) /\ known' = [known EXCEPT ![lot[t].e] = @ + 1] /\ LoAnswers(t)
    /\ fhs' = IF lot[t].op = "create" THEN [fhs EXCEPT ![lot[t].fh] = @ + 1] ELSE fhs
    /\ UNCHANGED <<source, lo, lofds, lost, dirp, localls, lofaults>>
lo_create(t) ==
    /\ LoAt(t, "notfound") /\ ~IsReading(t) /\ LoAnswers(t)
    /\ lost' = IF lot[t].op = "create" THEN lost + 1 ELSE lost
    /\ UNCHANGED <<source, lo, known, lofds, fhs, dirp, localls, lofaults>>

lo_link(t) ==
    \/ /\ LoAt(t, "link") /\ UNCHANGED <<lo, known, lofds, lost, fhs, localls>>
       /\ \/ (LoFault \/ (NoLoFault /\ source[lot[t].name] # LoNil)) /\ LoAnswers(t) /\ UNCHANGED <<source, dirp>>
          \/ /\ NoLoFault /\ source[lot[t].name] = LoNil
             /\ source' = [source EXCEPT ![lot[t].name] = lo[lot[t].ino].file] /\ UNCHANGED dirp
             /\ LoGoes(t, [lot[t] EXCEPT !.pc = "linked"])
    \/ /\ LoAt(t, "linked") /\ UNCHANGED <<source, known, lofds, lost, fhs, dirp, localls>>
       /\ \/ LoFault /\ LoAnswers(t) /\ UNCHANGED lo
          \/ /\ NoLoFault /\ lo' = [lo EXCEPT ![lot[t].ino].refcount = @ + 1]
             /\ LoGoes(t, [lot[t] EXCEPT !.pc = "found", !.e = lot[t].ino])

lo_unlink(t) ==
    /\ LoAt(t, "unlink") /\ LoAnswers(t) /\ UNCHANGED <<lo, known, lofds, lost, fhs, localls>>
    /\ \/ LoFault /\ UNCHANGED <<source, dirp>>
       \/ NoLoFault /\ source' = [source EXCEPT ![lot[t].name] = LoNil] /\ UNCHANGED dirp
lo_rename(t) ==
    /\ LoAt(t, "rename") /\ LoAnswers(t) /\ UNCHANGED <<lo, known, lofds, lost, fhs, localls>>
    /\ \/ LoFault /\ UNCHANGED <<source, dirp>>
       \/ /\ NoLoFault /\ source[lot[t].name] # LoNil
          /\ \E n \in LoNames \ {lot[t].name} :
                source' = [source EXCEPT ![n] = source[lot[t].name], ![lot[t].name] = LoNil]
          /\ UNCHANGED dirp
       \/ NoLoFault /\ source[lot[t].name] = LoNil /\ UNCHANGED <<source, dirp>>

\* unref_inode: off the list under the mutex; closed and freed after it.
Dropped(o, n) == [lo[o] EXCEPT !.refcount = @ - n, !.listed = lo[o].refcount > n]
unref_inode(t) ==
    \/ /\ LoAt(t, "unref") /\ UNCHANGED <<source, known, lofds, lost, fhs, dirp, localls, lofaults>>
       /\ LET o == lot[t].ino IN
          /\ lo' = [lo EXCEPT ![o] = Dropped(o, lot[t].left)]
          /\ IF lo'[o].listed THEN LoGoes(t, [lot[t] EXCEPT !.pc = "forgotten"]) ELSE LoGoes(t, [lot[t] EXCEPT !.pc = "free"])
    \/ /\ LoAt(t, "free") /\ UNCHANGED <<source, known, lost, fhs, dirp, localls, lofaults>>
       /\ lo' = [lo EXCEPT ![lot[t].ino] = FreeInode] /\ lofds' = lofds - 1
       /\ LoGoes(t, [lot[t] EXCEPT !.pc = "forgotten"])
lo_forget(t) ==
    /\ LoAt(t, "forgotten") /\ UNCHANGED <<source, lo, known, lofds, lost, fhs, dirp, localls, lofaults>>
    /\ LoGoes(t, IF lot[t].op = "forget" THEN IdleThread ELSE [lot[t] EXCEPT !.pc = "dirreply", !.ino = LoNil])

lo_open(t) ==
    /\ LoAt(t, "openfile") /\ LoAnswers(t) /\ UNCHANGED <<source, lo, known, lost, dirp, localls>>
    /\ \/ LoFault /\ UNCHANGED <<lofds, fhs>>
       \/ NoLoFault /\ lofds' = lofds + 1 /\ fhs' = [fhs EXCEPT ![lo[lot[t].ino].file] = @ + 1]

-----------------------------------------------------------------------------
lo_opendir(t) ==
    \/ /\ LoAt(t, "opendir") /\ UNCHANGED <<source, lo, known, lost, fhs, dirp, localls>>
       /\ \/ LoFault /\ LoAnswers(t) /\ UNCHANGED lofds
          \/ NoLoFault /\ lofds' = lofds + 1 /\ LoGoes(t, [lot[t] EXCEPT !.pc = "fdopendir", !.newfd = TRUE])
    \/ /\ LoAt(t, "fdopendir") /\ LoAnswers(t) /\ UNCHANGED <<source, lo, known, lost, fhs, localls>>
       /\ \/ LoFault /\ lofds' = lofds - 1 /\ UNCHANGED dirp
          \/ /\ NoLoFault /\ UNCHANGED lofds
             /\ dirp' = [NoDirp EXCEPT !.open = TRUE]

\* lo_do_readdir: the seek, the next entry, the look-up, and the entry put in the buffer.
Seeked(off) == IF off # dirp.offset THEN [dirp EXCEPT !.entry = LoNil, !.offset = off, !.pos = off] ELSE dirp
lo_do_readdir(t) ==
    /\ LoAt(t, "readdir") /\ UNCHANGED <<source, lo, known, lofds, lost, fhs, localls>>
    /\ \/ LoFault /\ UNCHANGED dirp /\ LoGoes(t, [lot[t] EXCEPT !.pc = "dirreply"])
       \/ NoLoFault /\ dirp' = Seeked(lot[t].dir.from) /\ LoGoes(t, [lot[t] EXCEPT !.pc = "entry"])
ReadEntry(t) ==
    /\ LoAt(t, "entry") /\ UNCHANGED <<source, lo, known, lofds, lost, fhs, localls>>
    /\ LET ahead == {n \in LoNames : n > dirp.pos /\ source[n] # LoNil}
           lookedUp(n) == [lot[t] EXCEPT !.pc = IF lot[t].op = "readdirplus" THEN "open" ELSE "found", !.name = n]
       IN \/ dirp.entry # LoNil /\ NoLoFault /\ UNCHANGED dirp /\ LoGoes(t, lookedUp(dirp.entry))
          \/ /\ dirp.entry = LoNil /\ LoFault /\ UNCHANGED dirp
             /\ LoGoes(t, [lot[t] EXCEPT !.pc = "dirreply"])
          \/ /\ dirp.entry = LoNil /\ NoLoFault /\ ahead = {} /\ UNCHANGED dirp
             /\ LoGoes(t, [lot[t] EXCEPT !.pc = "dirreply"])
          \/ /\ dirp.entry = LoNil /\ NoLoFault /\ ahead # {}
             /\ dirp' = [dirp EXCEPT !.entry = Min(ahead), !.pos = Min(ahead)]
             /\ LoGoes(t, lookedUp(Min(ahead)))
\* The entry that did not fit is kept for the next call, but its look-up is given back.
UnfitCounted(t) == [lot[t] EXCEPT !.pc = "dirreply", !.e = LoNil]
UnfitForgotten(t) ==
    IF lot[t].e = LoNil THEN [lot[t] EXCEPT !.pc = "dirreply"]
    ELSE [lot[t] EXCEPT !.pc = "unref", !.ino = lot[t].e, !.left = 1, !.e = LoNil]
AddDirEntry(t) ==
    /\ IsReading(t) /\ UNCHANGED <<source, lo, known, lofds, lost, fhs, localls, lofaults>>
    /\ \/ LoAt(t, "notfound") /\ UNCHANGED dirp /\ LoGoes(t, [lot[t] EXCEPT !.pc = "dirreply"])
       \/ /\ LoAt(t, "found") /\ Len(lot[t].dir.got) < lot[t].dir.size
          /\ dirp' = [dirp EXCEPT !.entry = LoNil, !.offset = dirp.entry]
          /\ LoGoes(t, [lot[t] EXCEPT !.pc = "entry", !.e = LoNil, !.dir.got = Append(@, <<lot[t].name, lot[t].e>>)])
       \/ LoAt(t, "found") /\ Len(lot[t].dir.got) = lot[t].dir.size /\ UNCHANGED dirp /\ LoGoes(t, UnfitForgotten(t))
GotCount(d, o) == Cardinality({i \in DOMAIN d.got : d.got[i][2] = o})
lo_readdirplus(t) ==
    /\ LoAt(t, "dirreply") /\ LoAnswers(t) /\ UNCHANGED <<source, lo, lofds, lost, fhs, dirp, localls, lofaults>>
    /\ known' = [o \in LoInodes |-> known[o] + GotCount(lot[t].dir, o)]

LoStep(t) ==
    \/ KernelAsks(t) \/ KernelReleases(t) \/ lo_close(t) \/ SystemCall(t) \/ lo_mknod_symlink(t) \/ LookupOpen(t)
    \/ LookupStat(t) \/ LookupFind(t) \/ lo_do_lookup(t) \/ lo_lookup(t) \/ lo_create(t) \/ lo_link(t) \/ lo_unlink(t)
    \/ lo_rename(t) \/ unref_inode(t) \/ lo_forget(t) \/ lo_open(t) \/ lo_opendir(t) \/ lo_do_readdir(t) \/ ReadEntry(t)
    \/ AddDirEntry(t) \/ lo_readdirplus(t)
LoNext == \E t \in LoThreads : LoStep(t)
LoSpec == LoInit /\ [][LoNext]_loVars

-----------------------------------------------------------------------------
\* Look-ups a handler has made and not yet answered.
Pending(t, o) == (IF lot[t].e = o THEN 1 ELSE 0) + GotCount(lot[t].dir, o)
                 + (IF lot[t].ino = o /\ LoAt(t, "unref") THEN lot[t].left ELSE 0)

\* References and descriptors are counted exactly, whatever look-ups and forgets run in other
\* threads.  The refcount is what the kernel knows and the handlers are about to tell it; an
\* entry of readdirplus that did not fit is not counted (lo_do_readdir, lo_link).  Every open
\* descriptor is the root's, an inode's, an open file's or a handler's, but for those of files
\* created whose look-up failed (lo_do_lookup, lo_opendir).
CountsExact ==
    /\ \A o \in LoInodes : lo[o].listed =>
          lo[o].refcount = known[o] + MapThenSumSet(LAMBDA t : Pending(t, o), LoThreads)
    /\ lofds = 1 + lost + Cardinality({o \in LoInodes : lo[o].file # LoNil})
               + MapThenSumSet(LAMBDA f : fhs[f], LoFiles) + (IF dirp.open THEN 1 ELSE 0)
               + Cardinality({t \in LoThreads : lot[t].newfd})
               + Cardinality({t \in LoThreads : LoAt(t, "close") \/ (lot[t].op = "create" /\ lot[t].fh # LoNil)})

=============================================================================
