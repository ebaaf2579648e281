------------------------------ MODULE F3Inodes ------------------------------
(***************************************************************************)
(* The inode table of the FUSE driver (src/f3/fuse/f3.cc): fs.inodes, from *)
(* source inode numbers to Inode objects whose addresses the kernel holds; *)
(* the mutex of the table and the one of each object; look-up counts,      *)
(* forgets, and the reuse of an object when its inode number is reused.    *)
(* One directory of the source; time-outs are zero, as with --nocache.     *)
(* The driver runs one thread (--single) or several.                       *)
(***************************************************************************)
EXTENDS Integers, FiniteSets

CONSTANTS
    DirNames,     \* names of the directory
    IdDirNames,   \* those of ID files
    Numbers,      \* inode numbers of the source file system
    Objects,      \* Inode objects (their addresses)
    LoopThreads,  \* threads of the session loop
    MaxCalls      \* bound on the requests

VARIABLES
    dirent,   \* dirent[n]: the source inode number of name n, or Nil
    inodes,   \* inodes[i]: the object of the table for number i, or Nil
    inode,    \* inode[o]: the object's fields
    kcount,   \* kcount[o]: the look-ups the kernel will forget
    opens,    \* opens[o]: the open files
    fsmutex,  \* the thread that holds fs.mutex, or Nil
    thr,      \* thr[t]: what a thread is doing
    single,   \* whether the loop runs one thread
    calls     \* the number of requests, for the bound
inodeVars == <<dirent, inodes, inode, kcount, opens, fsmutex, thr, single, calls>>

Nil == "nil"
ASSUME InodesAssumption ==
    /\ IdDirNames \subseteq DirNames /\ IsFiniteSet(LoopThreads)
    /\ Nil \notin LoopThreads /\ Nil \notin Objects /\ Nil \notin Numbers
\* fd: "none" (-1), "open", or "gone" (-ENOENT); num: the number of the file fd
\* refers to; key: the table key that src_ino and src_dev make, of the source or
\* of the local file; m: the thread that holds the mutex.
NewInode == [alive |-> TRUE, fd |-> "none", num |-> Nil, key |-> Nil, nlookup |-> 0,
             nopen |-> 0, generation |-> 0, is_id |-> FALSE, m |-> Nil]
Freed == [NewInode EXCEPT !.alive = FALSE]
Idle == [pc |-> "idle", op |-> Nil, n |-> Nil, i |-> Nil, o |-> Nil, got |-> {}, left |-> {}]

InodesInit ==
    /\ dirent = [n \in DirNames |-> Nil] /\ inodes = [i \in Numbers |-> Nil]
    /\ inode = [o \in Objects |-> Freed]
    /\ kcount = [o \in Objects |-> 0] /\ opens = [o \in Objects |-> 0]
    /\ fsmutex = Nil /\ thr = [t \in LoopThreads |-> Idle]
    /\ single \in BOOLEAN /\ calls = 0

Free(o) == inode[o].m = Nil
NlinkOne(i) == Cardinality({n \in DirNames : dirent[n] = i}) <= 1
\* A number is in use while a name, an Inode's descriptor, an open file or the
\* descriptor of a look-up under way refers to its file.
InodesInUse(i) ==
    \/ \E n \in DirNames : dirent[n] = i
    \/ \E o \in Objects : inode[o].alive /\ inode[o].num = i /\ (inode[o].fd = "open" \/ inode[o].nopen > 0)
    \/ \E t \in LoopThreads : thr[t].pc = "find" /\ thr[t].i = i

\* Whatever follows the use of a freed object, which several threads can bring
\* about, is undefined and is not followed.
Defined == \A t \in LoopThreads : thr[t].o # Nil => inode[thr[t].o].alive
At(t, pc) == thr[t].pc = pc /\ Defined
-----------------------------------------------------------------------------
(***************************************************************************)
(* Requests.  The kernel lets changes of a directory exclude its other     *)
(* requests, looks up a name before it removes it, and forgets no more     *)
(* than it was given.                                                      *)
(***************************************************************************)
Busy == {t \in LoopThreads : thr[t].pc # "idle"}
DirOps == {"lookup", "readdirplus", "create", "unlink"}
Request(op) ==
    /\ calls < MaxCalls /\ calls' = calls + 1
    /\ Defined
    /\ single => Busy = {}
    /\ op \in {"create", "unlink"} => \A t \in Busy : thr[t].op \notin DirOps
    /\ op \in DirOps => \A t \in Busy : thr[t].op \notin {"create", "unlink"}
Starts(t, r) == thr[t].pc = "idle" /\ thr' = [thr EXCEPT ![t] = r]

\* openat and fstatat of do_lookup: the descriptor holds the number.
StartLookup(t) ==
    \E n \in DirNames, op \in {"lookup", "unlink"} :
       /\ Request(op) /\ dirent[n] # Nil
       /\ op = "unlink" => \E o \in Objects : kcount[o] > 0 /\ inode[o].num = dirent[n]
       /\ Starts(t, [Idle EXCEPT !.pc = "find", !.op = op, !.n = n, !.i = dirent[n]])
       /\ UNCHANGED <<dirent, inodes, inode, kcount, opens, fsmutex, single>>

\* sfs_create makes the file, which gets a free number, and looks it up.
StartCreate(t) ==
    \E n \in DirNames, i \in Numbers :
       /\ Request("create") /\ dirent[n] = Nil /\ ~InodesInUse(i)
       /\ dirent' = [dirent EXCEPT ![n] = i]
       /\ Starts(t, [Idle EXCEPT !.pc = "find", !.op = "create", !.n = n, !.i = i])
       /\ UNCHANGED <<inodes, inode, kcount, opens, fsmutex, single>>

\* do_readdir with plus set: the entries are looked up one by one.
StartReaddir(t) ==
    /\ Request("readdirplus")
    /\ Starts(t, [Idle EXCEPT !.pc = "next", !.op = "readdirplus",
                              !.left = {n \in DirNames : dirent[n] # Nil}])
    /\ UNCHANGED <<dirent, inodes, inode, kcount, opens, fsmutex, single>>

StartForget(t) ==
    \E o \in Objects :
       /\ Request("forget") /\ kcount[o] > 0 /\ opens[o] = 0
       /\ \A x \in Busy : thr[x].op \in {"open", "release"} => thr[x].o # o
       /\ Starts(t, [Idle EXCEPT !.pc = "forget", !.op = "forget", !.o = o, !.i = kcount[o]])
       /\ kcount' = [kcount EXCEPT ![o] = 0]
       /\ UNCHANGED <<dirent, inodes, inode, opens, fsmutex, single>>

StartOpen(t) ==
    \E o \in Objects, op \in {"open", "release"} :
       /\ Request(op) /\ kcount[o] > 0
       /\ op = "open" => inode[o].fd = "open"     \* else the open fails, and changes nothing
       /\ op = "release" => opens[o] > 0
       /\ opens' = IF op = "release" THEN [opens EXCEPT ![o] = @ - 1] ELSE opens
       /\ Starts(t, [Idle EXCEPT !.pc = "nopen", !.op = op, !.o = o])
       /\ UNCHANGED <<dirent, inodes, inode, kcount, fsmutex, single>>

-----------------------------------------------------------------------------
(***************************************************************************)
(* do_lookup.                                                              *)
(***************************************************************************)
To(t, pc) == thr' = [thr EXCEPT ![t].pc = pc]

\* The table is locked and the object found or made.  An object with a descriptor
\* is only counted, after the table is unlocked; the others are filled in.
FindInode(t) ==
    LET i == thr[t].i IN
    /\ At(t, "find") /\ fsmutex = Nil
    /\ \E o \in Objects :
          /\ IF inodes[i] = Nil
             THEN /\ ~inode[o].alive /\ kcount[o] = 0 /\ opens[o] = 0
                  /\ \A x \in LoopThreads : thr[x].o # o /\ o \notin thr[x].got
             ELSE o = inodes[i]
          /\ inodes' = [inodes EXCEPT ![i] = o]
          /\ inode' = IF inodes[i] = Nil THEN [inode EXCEPT ![o] = NewInode] ELSE inode
          /\ LET exists == inode'[o].fd = "open" IN
                /\ thr' = [thr EXCEPT ![t].o = o, ![t].pc = IF exists THEN "count" ELSE "fill"]
                /\ fsmutex' = IF exists THEN Nil ELSE t
    /\ UNCHANGED <<dirent, kcount, opens, single, calls>>

\* f3.cc:662-672.
CountLookup(t) ==
    /\ At(t, "count") /\ Free(thr[t].o)
    /\ inode' = [inode EXCEPT ![thr[t].o].nlookup = @ + 1]
    /\ To(t, "attr")
    /\ UNCHANGED <<dirent, inodes, kcount, opens, fsmutex, single, calls>>

\* The object's mutex is taken while the table's is held.  nlookup is kept, and so
\* are is_id, needs_download and the sizes, which are only ever set.
FilledIn(old, n, i) ==
    [old EXCEPT !.fd = "open", !.num = i, !.key = <<"src", i>>, !.nlookup = @ + 1,
                !.is_id = @ \/ n \in IdDirNames]
FillInode(t) ==
    LET o == thr[t].o IN
    /\ At(t, "fill") /\ Free(o)
    /\ inode' = [inode EXCEPT ![o] = FilledIn(inode[o], thr[t].n, thr[t].i)]
    /\ fsmutex' = Nil /\ To(t, "attr")
    /\ UNCHANGED <<dirent, inodes, kcount, opens, single, calls>>

\* For an ID file the attributes, and with them src_ino and src_dev, become those
\* of the local file.
WithIdAttr(x) == IF x.is_id THEN [x EXCEPT !.key = <<"id", x.num>>] ELSE x

\* do_lookup returns to its caller.
LookupDone(t) ==
    LET o == thr[t].o
        op == thr[t].op
    IN /\ At(t, "attr")
       /\ op = "create" => Free(o)
       /\ LET x == WithIdAttr(inode[o]) IN
          inode' = [inode EXCEPT ![o] = IF op = "create" THEN [x EXCEPT !.nopen = @ + 1] ELSE x]
       /\ kcount' = IF op \in {"lookup", "create"} THEN [kcount EXCEPT ![o] = @ + 1] ELSE kcount
       /\ opens' = IF op = "create" THEN [opens EXCEPT ![o] = @ + 1] ELSE opens
       /\ thr' = [thr EXCEPT ![t] =
                    CASE op = "unlink" -> [thr[t] EXCEPT !.pc = IF NlinkOne(thr[t].i) THEN "release" ELSE "unlink"]
                      [] op = "readdirplus" -> [thr[t] EXCEPT !.pc = "entry"]
                      [] OTHER -> Idle]
       /\ UNCHANGED <<dirent, inodes, fsmutex, single, calls>>

\* do_readdir: the next entry is looked up; one that went away, or an error, ends
\* the listing.  The buffer is sent when it is full or nothing is left: the kernel
\* counts a look-up of each entry in it.
ReaddirNext(t) ==
    /\ At(t, "next")
    /\ \/ \E n \in thr[t].left :
             /\ dirent[n] # Nil
             /\ thr' = [thr EXCEPT ![t] = [thr[t] EXCEPT !.pc = "find", !.n = n, !.i = dirent[n],
                                                   !.left = @ \ {n}]]
             /\ UNCHANGED kcount
       \/ /\ kcount' = [o \in Objects |-> IF o \in thr[t].got THEN kcount[o] + 1 ELSE kcount[o]]
          /\ thr' = [thr EXCEPT ![t] = Idle]
    /\ UNCHANGED <<dirent, inodes, inode, opens, fsmutex, single, calls>>

\* The entry fits, or the look-up is undone with forget_one and the buffer sent.
EntryThatDoesNotFit(t) ==
    thr' = [thr EXCEPT ![t] = [thr[t] EXCEPT !.pc = "forget", !.left = {}, !.i = 1]]
ReaddirEntry(t) ==
    /\ At(t, "entry")
    /\ \/ thr' = [thr EXCEPT ![t] = [thr[t] EXCEPT !.pc = "next", !.got = @ \union {thr[t].o}]]
       \/ EntryThatDoesNotFit(t)
    /\ UNCHANGED <<dirent, inodes, inode, kcount, opens, fsmutex, single, calls>>

\* sfs_unlink, time-outs zero: the descriptors of a file that is not open are closed
\* before its last name goes, and the object is left for the next file with the
\* number.  The count of the look-up made here is never given back.
ReleaseOpen(x) == x.fd = "open"
MayRelease(x) == x.fd = "open" /\ x.nopen = 0
ReleaseInode(t) ==
    LET o == thr[t].o IN
    /\ At(t, "release") /\ Free(o)
    /\ IF MayRelease(inode[o])
       THEN inode' = [inode EXCEPT ![o].m = t] /\ To(t, "close")
       ELSE UNCHANGED inode /\ To(t, "unlink")
    /\ UNCHANGED <<dirent, inodes, kcount, opens, fsmutex, single, calls>>

\* The generation is counted modulo 2: what matters is that it changes.
ReleasedForgets(x) == [x EXCEPT !.fd = "gone", !.generation = 1 - @, !.m = Nil, !.nlookup = @ - 1]
Released(x) == [x EXCEPT !.fd = "gone", !.generation = 1 - @, !.m = Nil]
CloseInode(t) ==
    /\ At(t, "close") /\ fsmutex = Nil
    /\ inode' = [inode EXCEPT ![thr[t].o] = Released(@)]
    /\ To(t, "unlink")
    /\ UNCHANGED <<dirent, inodes, kcount, opens, fsmutex, single, calls>>

UnlinkName(t) ==
    /\ At(t, "unlink")
    /\ dirent' = [dirent EXCEPT ![thr[t].n] = Nil]
    /\ thr' = [thr EXCEPT ![t] = Idle]
    /\ UNCHANGED <<inodes, inode, kcount, opens, fsmutex, single, calls>>

\* forget_one.  Nothing is left: the object's mutex is held until the table's is
\* taken, and the entry under src_ino and src_dev, if there is one, is erased.
AfterForget(t) == IF thr[t].op = "readdirplus" THEN [thr[t] EXCEPT !.pc = "next", !.o = Nil] ELSE Idle
EraseAlways(x) == TRUE
Unused(x) == x.nlookup = 0
ForgetLookups(t) ==
    LET o == thr[t].o
        x == [inode[o] EXCEPT !.nlookup = @ - thr[t].i]
    IN /\ At(t, "forget") /\ Free(o)
       /\ inode' = [inode EXCEPT ![o] = IF Unused(x) THEN [x EXCEPT !.m = t] ELSE x]
       /\ thr' = [thr EXCEPT ![t] = IF Unused(x) THEN [thr[t] EXCEPT !.pc = "erase"] ELSE AfterForget(t)]
       /\ UNCHANGED <<dirent, inodes, kcount, opens, fsmutex, single, calls>>

EraseInode(t) ==
    LET o == thr[t].o
        i == inode[o].num
    IN /\ At(t, "erase") /\ fsmutex = Nil
       /\ IF inode[o].key = <<"src", i>>
          THEN inodes' = [inodes EXCEPT ![i] = Nil] /\ inode' = [inode EXCEPT ![o] = Freed]
          ELSE UNCHANGED inodes /\ inode' = [inode EXCEPT ![o].m = Nil]
       /\ thr' = [thr EXCEPT ![t] = AfterForget(t)]
       /\ UNCHANGED <<dirent, kcount, opens, fsmutex, single, calls>>

\* The counting of open files in sfs_open and sfs_release.
CountOpen(t) ==
    LET o == thr[t].o
        d == IF thr[t].op = "open" THEN 1 ELSE -1
    IN /\ At(t, "nopen") /\ Free(o)
       /\ inode' = [inode EXCEPT ![o].nopen = @ + d]
       /\ opens' = IF d = 1 THEN [opens EXCEPT ![o] = @ + 1] ELSE opens
       /\ thr' = [thr EXCEPT ![t] = Idle]
       /\ UNCHANGED <<dirent, inodes, kcount, fsmutex, single, calls>>

InodesNext == \E t \in LoopThreads :
    \/ StartLookup(t) \/ StartCreate(t) \/ StartReaddir(t) \/ StartForget(t) \/ StartOpen(t)
    \/ FindInode(t) \/ CountLookup(t) \/ FillInode(t) \/ LookupDone(t)
    \/ ReaddirNext(t) \/ ReaddirEntry(t)
    \/ ReleaseInode(t) \/ CloseInode(t) \/ UnlinkName(t)
    \/ ForgetLookups(t) \/ EraseInode(t) \/ CountOpen(t)
InodesSpec == InodesInit /\ [][InodesNext]_inodeVars

-----------------------------------------------------------------------------
\* With --single, an object whose address the kernel or a handler holds is alive and
\* counts at least the kernel's look-ups, so that forget_one never meets a count
\* that is too small and nothing is used after it was freed.
KernelInodesAlive ==
    single =>
        /\ \A o \in Objects : kcount[o] > 0 => inode[o].alive /\ inode[o].nlookup >= kcount[o]
        /\ Defined
        /\ \A o \in Objects : inode[o].nlookup >= 0

\* With --single, a file that is open keeps its Inode's descriptor: sfs_unlink does
\* not close it, and sfs_release can still set the size on it.
OpenKeepsDescriptor ==
    single => \A o \in Objects : opens[o] > 0 => inode[o].alive /\ inode[o].fd = "open"

\* With any number of threads, and until a freed object is used, nobody holds fs.mutex and waits for an Inode mutex
\* whose holder waits for fs.mutex.
NoLockCycle ==
    \A t, u \in LoopThreads :
        ~(/\ fsmutex = t /\ thr[t].pc = "fill" /\ inode[thr[t].o].m = u
          /\ thr[u].pc \in {"close", "erase"})
=============================================================================
