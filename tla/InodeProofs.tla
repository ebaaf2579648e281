---------------------------- MODULE InodeProofs -----------------------------
(***************************************************************************)
(* The inode table of the driver for any number of threads, names, inode   *)
(* numbers and objects (F3Inodes): the look-up counts, and what they mean  *)
(* for the life of the objects and for the order of the locks.             *)
(***************************************************************************)
EXTENDS F3Inodes, FiniteSetTheorems, TLAPS

-----------------------------------------------------------------------------
(***************************************************************************)
(* Sums over finite sets, as the number of the shares that the elements    *)
(* have.                                                                   *)
(***************************************************************************)
Shares(w) == UNION {{x} \X (1..w[x]) : x \in DOMAIN w}
Total(w) == Cardinality(Shares(w))

LEMMA OneShare ==
    ASSUME NEW x, NEW n \in Nat
    PROVE  IsFiniteSet({x} \X (1..n)) /\ Cardinality({x} \X (1..n)) = n
<1>1. IsFiniteSet(1..n) /\ Cardinality(1..n) = n
  BY FS_Interval
<1>2. IsFiniteSet({x}) /\ Cardinality({x}) = 1
  BY FS_Singleton
<1>3. IsFiniteSet({x} \X (1..n)) /\ Cardinality({x} \X (1..n)) = Cardinality({x}) * Cardinality(1..n)
  BY <1>1, <1>2, FS_Product
<1> QED BY <1>1, <1>2, <1>3

LEMMA SharesFinite ==
    ASSUME NEW S, IsFiniteSet(S), NEW w \in [S -> Nat]
    PROVE  IsFiniteSet(Shares(w))
<1> DEFINE part == [x \in S |-> {x} \X (1..w[x])]
           parts == {{x} \X (1..w[x]) : x \in S}
<1>1. part \in Surjection(S, parts)
  BY Zenon DEF Surjection
<1>2. IsFiniteSet(parts)
  BY <1>1, FS_Surjection
<1>3. ASSUME NEW x \in S PROVE IsFiniteSet({x} \X (1..w[x]))
  BY Zenon, OneShare
<1>4. IsFiniteSet(UNION parts)
  BY Zenon, <1>2, <1>3, FS_UNION
<1> QED BY <1>4 DEF Shares

\* A sum without one of its terms, and the term.
LEMMA TotalSplit ==
    ASSUME NEW S, IsFiniteSet(S), NEW w \in [S -> Nat], NEW x \in S
    PROVE  LET others == Shares([w EXCEPT ![x] = 0]) IN
           /\ Total(w) = Cardinality(others) + w[x]
           /\ Cardinality(others) \in Nat
<1> DEFINE v == [w EXCEPT ![x] = 0]
           mine == {x} \X (1..w[x])
<1>1. v \in [S -> Nat]
  OBVIOUS
<1>2. IsFiniteSet(Shares(v))
  BY Zenon, <1>1, SharesFinite
<1>3. IsFiniteSet(mine) /\ Cardinality(mine) = w[x]
  BY Zenon, OneShare
<1>4. Shares(w) = Shares(v) \cup mine
  <2>1. ASSUME NEW y \in S, y # x PROVE 1..v[y] = 1..w[y]
    BY <2>1
  <2>2. 1..v[x] = {}
    OBVIOUS
  <2>3. \A p : p \in Shares(w) <=> \E y \in S : p \in {y} \X (1..w[y])
    BY DEF Shares
  <2>4. \A p : p \in Shares(v) <=> \E y \in S : p \in {y} \X (1..v[y])
    BY DEF Shares
  <2>5. \A p : p \in Shares(v) <=> \E y \in S \ {x} : p \in {y} \X (1..w[y])
    BY Zenon, <2>1, <2>2, <2>4
  <2> QED BY Zenon, <2>3, <2>5
<1>5. Shares(v) \cap mine = {}
  <2> SUFFICES ASSUME NEW p \in Shares(v), p \in mine PROVE FALSE
    BY Zenon
  <2>1. PICK y \in S : p \in {y} \X (1..v[y])
    BY DEF Shares
  <2>2. p[1] = y /\ p[1] = x /\ p[2] \in 1..v[y]
    BY <2>1
  <2> QED BY <2>2
<1>6. Cardinality(Shares(w)) = Cardinality(Shares(v)) + Cardinality(mine) - 0
  <2>1. Cardinality(Shares(v) \cup mine) = Cardinality(Shares(v)) + Cardinality(mine) - Cardinality(Shares(v) \cap mine)
    BY Zenon, <1>2, <1>3, FS_Union
  <2> QED BY Zenon, <2>1, <1>4, <1>5, FS_EmptySet
<1> QED BY <1>2, <1>3, <1>6, FS_CardinalityType DEF Total

LEMMA TotalUpdate ==
    ASSUME NEW S, IsFiniteSet(S), NEW w \in [S -> Nat], NEW x \in S, NEW n \in Nat
    PROVE  /\ Total([w EXCEPT ![x] = n]) = Total(w) - w[x] + n
           /\ Total(w) \in Nat /\ Total(w) >= w[x]
<1> DEFINE v == [w EXCEPT ![x] = n]
           c == Cardinality(Shares([w EXCEPT ![x] = 0]))
<1>1. v \in [S -> Nat] /\ v[x] = n /\ [v EXCEPT ![x] = 0] = [w EXCEPT ![x] = 0]
  BY Zenon
<1>2. Total(w) = c + w[x] /\ c \in Nat
  BY Zenon, TotalSplit
<1>3. Total(v) = c + n
  BY Zenon, <1>1, TotalSplit
<1>4. w[x] \in Nat
  OBVIOUS
<1> QED BY <1>2, <1>3, <1>4

LEMMA TotalUpdateTwo ==
    ASSUME NEW S, IsFiniteSet(S), NEW w \in [S -> Nat], NEW x \in S, NEW y \in S, x # y, NEW m \in Nat, NEW n \in Nat,
           NEW v \in [S -> Nat], v[x] = m, v[y] = n, \A z \in S \ {x, y} : v[z] = w[z]
    PROVE  Total(v) = Total(w) - w[x] + m - w[y] + n
<1> DEFINE u == [w EXCEPT ![x] = m]
<1>1. Total(u) = Total(w) - w[x] + m /\ Total(w) \in Nat
  BY Zenon, TotalUpdate
<1>2. u \in [S -> Nat]
  OBVIOUS
<1>3. u[y] = w[y] /\ v = [u EXCEPT ![y] = n]
  OBVIOUS
<1> HIDE DEF u
<1>4. Total([u EXCEPT ![y] = n]) = Total(u) - u[y] + n
  BY Zenon, <1>2, TotalUpdate
<1> QED BY <1>1, <1>3, <1>4

LEMMA TotalZero ==
    ASSUME NEW S, NEW w \in [S -> Nat], \A x \in S : w[x] = 0
    PROVE  Total(w) = 0
<1>1. \A x \in S : 1..w[x] = {}
  OBVIOUS
<1>2. Shares(w) = {}
  BY <1>1 DEF Shares
<1> QED BY <1>2, FS_EmptySet DEF Total

-----------------------------------------------------------------------------
(***************************************************************************)
(* The inductive invariant.                                                *)
(***************************************************************************)
ObjectPcs == {"count", "fill", "attr", "entry", "release", "close", "unlink", "forget", "erase", "nopen"}
Pcs == ObjectPcs \cup {"idle", "find", "next"}

IsInode(x) ==
    /\ DOMAIN x = {"alive", "fd", "num", "key", "nlookup", "nopen", "generation", "is_id", "m"}
    /\ x.fd \in {"none", "open", "gone"} /\ x.nlookup \in Int /\ x.nopen \in Int /\ x.m \in LoopThreads \cup {Nil}

\* What a thread has at hand in each place of its handler.
IsThread(r) ==
    /\ DOMAIN r = {"pc", "op", "n", "i", "o", "got", "left"}
    /\ r.pc \in Pcs /\ r.o \in Objects \cup {Nil} /\ r.got \subseteq Objects /\ r.left \subseteq DirNames
    /\ r.pc = "idle" => r = Idle
    /\ r.pc \in ObjectPcs => r.o \in Objects
    /\ r.pc \in {"find", "count", "fill"} => r.i \in Numbers
    /\ r.pc = "forget" => r.i \in Nat \ {0}
    /\ r.pc \in {"find", "count", "fill", "attr"} => r.op \in DirOps
    /\ r.pc \in {"next", "entry"} => r.op = "readdirplus"
    /\ r.pc = "nopen" => r.op \in {"open", "release"}

InodesTypeOK ==
    /\ dirent \in [DirNames -> Numbers \cup {Nil}] /\ inodes \in [Numbers -> Objects \cup {Nil}]
    /\ DOMAIN inode = Objects /\ \A o \in Objects : IsInode(inode[o])
    /\ kcount \in [Objects -> Nat] /\ opens \in [Objects -> Nat]
    /\ fsmutex \in LoopThreads \cup {Nil}
    /\ DOMAIN thr = LoopThreads /\ \A t \in LoopThreads : IsThread(thr[t])

\* fs.mutex is held by the thread that fills an object in, an object's mutex by the one that
\* closes its descriptors or erases it; only objects without a descriptor are filled in, and
\* only objects with one are closed or erased.
MutexInv ==
    /\ \A t \in LoopThreads : thr[t].pc = "fill" <=> fsmutex = t
    /\ \A t \in LoopThreads : thr[t].pc \in {"close", "erase"} => inode[thr[t].o].m = t /\ inode[thr[t].o].fd = "open"
    /\ \A t \in LoopThreads : thr[t].pc = "erase" => inode[thr[t].o].nlookup = 0
    /\ \A t \in LoopThreads : thr[t].pc = "fill" => inode[thr[t].o].fd # "open"
    /\ \A o \in Objects, t \in LoopThreads : inode[o].m = t => thr[t].pc \in {"close", "erase"} /\ thr[t].o = o

\* An object that is not filled in has no look-ups.
FreshInv == \A o \in Objects :
    /\ ~inode[o].alive => inode[o] = Freed
    /\ inode[o].fd = "none" => inode[o].nlookup = 0
    /\ inode[o].fd = "none" /\ inode[o].alive => \A t \in LoopThreads : ~(thr[t].pc = "count" /\ thr[t].o = o)

\* The look-ups that a thread has counted and not passed on, or has to take back.
AtHand(t, o) ==
    IF thr[t].o # o THEN 0
    ELSE IF thr[t].pc \in {"attr", "entry", "release", "close"} THEN 1
    ELSE IF thr[t].pc = "forget" THEN thr[t].i ELSE 0
Listed(t, o) == IF o \in thr[t].got THEN 1 ELSE 0
Owed(t, o) == AtHand(t, o) + Listed(t, o)
Due(o) == [x \in LoopThreads \cup {Nil} |-> IF x = Nil THEN kcount[o] ELSE Owed(x, o)]

\* nlookup covers what the kernel and the threads hold, and one more once sfs_unlink has closed
\* the descriptors: the look-up made there is never taken back.
LookupsInv == \A o \in Objects :
    inode[o].nlookup >= Total(Due(o)) + (IF inode[o].fd = "gone" THEN 1 ELSE 0)

InodesInv == InodesTypeOK /\ MutexInv /\ FreshInv /\ LookupsInv

\* The objects of the table are alive, each under the number it is filled in with.
TableInv ==
    /\ \A i \in Numbers, o \in Objects : inodes[i] = o => inode[o].alive /\ (inode[o].fd # "none" => inode[o].num = i)
    /\ \A i, j \in Numbers, o \in Objects : inodes[i] = o /\ inodes[j] = o => i = j
    /\ \A t \in LoopThreads : thr[t].pc = "fill" => inodes[thr[t].i] = thr[t].o

\* With one thread: what a request has at hand stays as it was found, and open files are counted.
ThreadFits(t) ==
    /\ thr[t].o # Nil => inode[thr[t].o].alive
    /\ thr[t].pc \in {"count", "attr", "entry", "release"} => inode[thr[t].o].fd = "open"
    /\ thr[t].pc = "nopen" =>
         /\ kcount[thr[t].o] > 0
         /\ thr[t].op = "open" => inode[thr[t].o].fd = "open"
         /\ thr[t].op = "release" => inode[thr[t].o].nopen > opens[thr[t].o]
    /\ thr[t].pc = "close" => inode[thr[t].o].nopen = 0
OpensFit(o) ==
    /\ opens[o] > 0 => kcount[o] > 0 /\ inode[o].fd = "open"
    /\ inode[o].nopen >= opens[o]
OneInv ==
    /\ \A t, u \in LoopThreads : thr[t].pc # "idle" /\ thr[u].pc # "idle" => t = u
    /\ \A t \in LoopThreads : ThreadFits(t)
    /\ \A o \in Objects : OpensFit(o)
SingleInv == single => OneInv

-----------------------------------------------------------------------------
USE InodesAssumption

LEMMA InodesInitType == InodesInit => InodesTypeOK
BY DEF InodesInit, InodesTypeOK, IsInode, IsThread, Freed, NewInode, Idle, Pcs, ObjectPcs

LEMMA InodesTypeStep ==
    ASSUME InodesTypeOK, NEW t \in LoopThreads
    PROVE  /\ StartLookup(t) => InodesTypeOK'
           /\ StartCreate(t) => InodesTypeOK'
           /\ StartReaddir(t) => InodesTypeOK'
           /\ StartForget(t) => InodesTypeOK'
           /\ StartOpen(t) => InodesTypeOK'
           /\ FindInode(t) => InodesTypeOK'
           /\ CountLookup(t) => InodesTypeOK'
           /\ FillInode(t) => InodesTypeOK'
           /\ LookupDone(t) => InodesTypeOK'
           /\ ReaddirNext(t) => InodesTypeOK'
           /\ ReaddirEntry(t) => InodesTypeOK'
           /\ ReleaseInode(t) => InodesTypeOK'
           /\ CloseInode(t) => InodesTypeOK'
           /\ UnlinkName(t) => InodesTypeOK'
           /\ ForgetLookups(t) => InodesTypeOK'
           /\ EraseInode(t) => InodesTypeOK'
           /\ CountOpen(t) => InodesTypeOK'
<1> USE DEF InodesTypeOK, IsInode, IsThread, Idle, Pcs, ObjectPcs, DirOps
<1>1. ASSUME StartLookup(t) PROVE InodesTypeOK'
  BY <1>1 DEF StartLookup, Starts
<1>2. ASSUME StartCreate(t) PROVE InodesTypeOK'
  BY <1>2 DEF StartCreate, Starts
<1>3. ASSUME StartReaddir(t) PROVE InodesTypeOK'
  BY <1>3 DEF StartReaddir, Starts
<1>4. ASSUME StartForget(t) PROVE InodesTypeOK'
  BY <1>4 DEF StartForget, Starts
<1>5. ASSUME StartOpen(t) PROVE InodesTypeOK'
  BY <1>5 DEF StartOpen, Starts
<1>6. ASSUME FindInode(t) PROVE InodesTypeOK'
  BY <1>6 DEF FindInode, At, NewInode
<1>7. ASSUME CountLookup(t) PROVE InodesTypeOK'
  BY <1>7 DEF CountLookup, At, To
<1>8. ASSUME FillInode(t) PROVE InodesTypeOK'
  BY <1>8 DEF FillInode, FilledIn, At, To
<1>9. ASSUME LookupDone(t) PROVE InodesTypeOK'
  <2>1. thr[t].o \in Objects
    BY <1>9 DEF LookupDone, At
  <2>2. \A u \in LoopThreads : IsThread(thr'[u])
    <3>1. CASE thr[t].op = "unlink"
      BY <1>9, <3>1 DEF LookupDone, At
    <3>2. CASE thr[t].op = "readdirplus"
      BY <1>9, <3>2 DEF LookupDone, At
    <3>3. CASE thr[t].op \notin {"unlink", "readdirplus"}
      <4>1. thr' = [thr EXCEPT ![t] = Idle]
        BY Zenon, <1>9, <3>3 DEF LookupDone
      <4> QED BY <4>1
    <3> QED BY Zenon, <3>1, <3>2, <3>3
  <2>3. IsInode(WithIdAttr(inode[thr[t].o]))
    BY <2>1 DEF WithIdAttr
  <2>4. DOMAIN inode' = Objects /\ \A o \in Objects : IsInode(inode'[o])
    <3>1. CASE thr[t].op = "create"
      <4>1. inode' = [inode EXCEPT ![thr[t].o] = [WithIdAttr(inode[thr[t].o]) EXCEPT !.nopen = @ + 1]]
        BY <1>9, <3>1 DEF LookupDone
      <4> QED BY <4>1, <2>1, <2>3
    <3>2. CASE thr[t].op # "create"
      <4>1. inode' = [inode EXCEPT ![thr[t].o] = WithIdAttr(inode[thr[t].o])]
        BY <1>9, <3>2 DEF LookupDone
      <4> QED BY <4>1, <2>1, <2>3
    <3> QED BY <3>1, <3>2
  <2>5. kcount' \in [Objects -> Nat] /\ opens' \in [Objects -> Nat]
    BY <1>9, <2>1 DEF LookupDone
  <2>6. DOMAIN thr' = LoopThreads /\ UNCHANGED <<dirent, inodes, fsmutex>>
    BY <1>9 DEF LookupDone
  <2> QED BY Zenon, <2>2, <2>4, <2>5, <2>6
<1>10. ASSUME ReaddirNext(t) PROVE InodesTypeOK'
  <2>1. CASE thr' = [thr EXCEPT ![t] = Idle]
    <3>1. kcount' \in [Objects -> Nat]
      <4>1. CASE UNCHANGED kcount
        BY Zenon, <4>1
      <4>2. CASE kcount' = [o \in Objects |-> IF o \in thr[t].got THEN kcount[o] + 1 ELSE kcount[o]]
        BY <4>2
      <4> QED BY Zenon, <1>10, <4>1, <4>2 DEF ReaddirNext
    <3> QED BY Zenon, <1>10, <2>1, <3>1 DEF ReaddirNext
  <2>2. ASSUME NEW n \in thr[t].left, dirent[n] # Nil, UNCHANGED kcount,
               thr' = [thr EXCEPT ![t] = [thr[t] EXCEPT !.pc = "find", !.n = n, !.i = dirent[n], !.left = @ \ {n}]]
        PROVE  InodesTypeOK'
    <3>1. PICK r : r = thr[t] /\ IsThread(r) /\ r.pc = "next"
      BY Zenon, <1>10 DEF ReaddirNext, At
    <3>2. PICK i \in Numbers : i = dirent[n]
      BY <2>2, <3>1
    <3> DEFINE q == [r EXCEPT !.pc = "find", !.n = n, !.i = i, !.left = @ \ {n}]
    <3>3. IsThread(q)
      BY <3>1, <3>2
    <3>4. thr' = [thr EXCEPT ![t] = q]
      BY <2>2, <3>1, <3>2, Zenon
    <3> HIDE DEF q
    <3>5. \A u \in LoopThreads : IsThread(thr'[u])
      BY Zenon, <3>3, <3>4
    <3> QED BY Zenon, <1>10, <2>2, <3>4, <3>5 DEF ReaddirNext
  <2> QED BY Zenon, <1>10, <2>1, <2>2 DEF ReaddirNext
<1>11. ASSUME ReaddirEntry(t) PROVE InodesTypeOK'
  <2>1. IsThread(thr'[t])
    <3>1. CASE EntryThatDoesNotFit(t)
      BY <1>11, <3>1 DEF ReaddirEntry, EntryThatDoesNotFit, At
    <3>2. CASE ~EntryThatDoesNotFit(t)
      <4>1. thr' = [thr EXCEPT ![t] = [thr[t] EXCEPT !.pc = "next", !.got = @ \union {thr[t].o}]]
        BY <1>11, <3>2 DEF ReaddirEntry
      <4>2. thr[t].pc = "entry"
        BY <1>11 DEF ReaddirEntry, At
      <4>3. PICK r : r = thr[t]
        OBVIOUS
      <4>4. IsThread([r EXCEPT !.pc = "next", !.got = @ \union {r.o}])
        BY <4>2, <4>3
      <4>5. thr' = [thr EXCEPT ![t] = [r EXCEPT !.pc = "next", !.got = @ \union {r.o}]]
        BY <4>1, <4>3, Zenon
      <4> QED BY <4>4, <4>5
    <3> QED BY Zenon, <3>1, <3>2
  <2>2. DOMAIN thr' = LoopThreads /\ \A u \in LoopThreads \ {t} : thr'[u] = thr[u]
    BY <1>11 DEF ReaddirEntry, EntryThatDoesNotFit
  <2>3. \A u \in LoopThreads : IsThread(thr'[u])
    BY <2>1, <2>2
  <2> QED BY <1>11, <2>2, <2>3 DEF ReaddirEntry
<1>12. ASSUME ReleaseInode(t) PROVE InodesTypeOK'
  <2>1. CASE MayRelease(inode[thr[t].o])
    BY <1>12, <2>1 DEF ReleaseInode, At, To
  <2>2. CASE ~MayRelease(inode[thr[t].o])
    BY <1>12, <2>2 DEF ReleaseInode, At, To
  <2> QED BY Zenon, <2>1, <2>2
<1>13. ASSUME CloseInode(t) PROVE InodesTypeOK'
  BY <1>13 DEF CloseInode, Released, At, To
<1>14. ASSUME UnlinkName(t) PROVE InodesTypeOK'
  BY Zenon, <1>14 DEF UnlinkName, At
<1>15. ASSUME ForgetLookups(t) PROVE InodesTypeOK'
  <2>1. IsThread(AfterForget(t))
    BY <1>15 DEF ForgetLookups, AfterForget, At
  <2>2. thr[t].o \in Objects /\ thr[t].i \in Nat
    BY <1>15 DEF ForgetLookups, At
  <2>3. \A u \in LoopThreads : IsThread(thr'[u])
    <3>1. CASE thr' = [thr EXCEPT ![t] = AfterForget(t)]
      BY Zenon, <2>1, <3>1
    <3>2. CASE thr' = [thr EXCEPT ![t] = [thr[t] EXCEPT !.pc = "erase"]]
      <4>1. thr[t].pc = "forget"
        BY <1>15 DEF ForgetLookups, At
      <4>2. PICK r : r = thr[t]
        OBVIOUS
      <4>3. IsThread([r EXCEPT !.pc = "erase"])
        BY <4>1, <4>2
      <4> QED BY <3>2, <4>2, <4>3
    <3> QED BY Zenon, <1>15, <3>1, <3>2 DEF ForgetLookups
  <2>4. DOMAIN inode' = Objects /\ \A o \in Objects : IsInode(inode'[o])
    BY <1>15, <2>2 DEF ForgetLookups
  <2> QED BY Zenon, <1>15, <2>3, <2>4 DEF ForgetLookups
<1>16. ASSUME EraseInode(t) PROVE InodesTypeOK'
  <2>1. IsThread(AfterForget(t))
    BY <1>16 DEF EraseInode, AfterForget, At
  <2>2. thr[t].o \in Objects
    BY <1>16 DEF EraseInode, At
  <2>3. \A u \in LoopThreads : IsThread(thr'[u])
    BY Zenon, <1>16, <2>1 DEF EraseInode
  <2>4. IsInode(Freed)
    BY DEF Freed, NewInode
  <2>5. DOMAIN inode' = Objects /\ \A o \in Objects : IsInode(inode'[o])
    <3>1. CASE inode' = [inode EXCEPT ![thr[t].o] = Freed]
      BY <2>2, <2>4, <3>1
    <3>2. CASE inode' = [inode EXCEPT ![thr[t].o].m = Nil]
      BY <2>2, <3>2
    <3> QED BY <1>16, <3>1, <3>2 DEF EraseInode
  <2>6. inodes' \in [Numbers -> Objects \cup {Nil}]
    BY <1>16 DEF EraseInode
  <2> QED BY Zenon, <1>16, <2>3, <2>5, <2>6 DEF EraseInode
<1>17. ASSUME CountOpen(t) PROVE InodesTypeOK'
  BY <1>17 DEF CountOpen, At
<1> QED BY Zenon, <1>1, <1>2, <1>3, <1>4, <1>5, <1>6, <1>7, <1>8, <1>9, <1>10, <1>11, <1>12, <1>13, <1>14, <1>15, <1>16, <1>17

-----------------------------------------------------------------------------
(***************************************************************************)
(* What the steps do to the counts, the mutexes and the thread.            *)
(***************************************************************************)
OthersKept(t) == (\A u \in LoopThreads \ {t} : thr'[u] = thr[u]) /\ UNCHANGED single
\* The thread goes on, with the object and the entries it has.
Moved(t, pc) == thr'[t].pc = pc /\ thr'[t].o = thr[t].o /\ thr'[t].got = thr[t].got /\ thr'[t].op = thr[t].op

LEMMA IdleIs == Idle.pc = "idle" /\ Idle.o = Nil /\ Idle.got = {}
BY DEF Idle

LEMMA StartEffect ==
    ASSUME InodesTypeOK, NEW t \in LoopThreads,
           StartLookup(t) \/ StartCreate(t) \/ StartReaddir(t) \/ StartForget(t) \/ StartOpen(t)
    PROVE  /\ thr[t] = Idle /\ OthersKept(t) /\ UNCHANGED <<inode, fsmutex>> /\ (single => Busy = {}) /\ Defined
           /\ thr'[t].got = {}
           /\ \/ thr'[t].pc \in {"find", "next"} /\ thr'[t].o = Nil /\ UNCHANGED <<kcount, opens>>
              \/ \E o \in Objects : /\ thr'[t].pc = "forget" /\ thr'[t].o = o /\ thr'[t].i = kcount[o]
                                    /\ kcount[o] > 0 /\ opens[o] = 0
                                    /\ kcount' = [kcount EXCEPT ![o] = 0] /\ UNCHANGED opens
              \/ \E o \in Objects : /\ thr'[t].pc = "nopen" /\ thr'[t].o = o /\ kcount[o] > 0 /\ UNCHANGED kcount
                                    /\ \/ thr'[t].op = "open" /\ inode[o].fd = "open" /\ UNCHANGED opens
                                       \/ thr'[t].op = "release" /\ opens[o] > 0 /\ opens' = [opens EXCEPT ![o] = @ - 1]
<1> USE DEF InodesTypeOK, IsThread, OthersKept
<1>1. CASE StartLookup(t)
  <2>1. PICK n \in DirNames, op \in {"lookup", "unlink"} :
           Request(op) /\ Starts(t, [Idle EXCEPT !.pc = "find", !.op = op, !.n = n, !.i = dirent[n]])
    BY <1>1, Zenon DEF StartLookup
  <2> QED BY Zenon, <1>1, <2>1 DEF StartLookup, Starts, Request, Idle
<1>2. CASE StartCreate(t)
  <2>1. PICK n \in DirNames, i \in Numbers :
           Request("create") /\ Starts(t, [Idle EXCEPT !.pc = "find", !.op = "create", !.n = n, !.i = i])
    BY Zenon, <1>2 DEF StartCreate
  <2> QED BY Zenon, <1>2, <2>1 DEF StartCreate, Starts, Request, Idle
<1>3. CASE StartReaddir(t)
  BY <1>3 DEF StartReaddir, Starts, Request, Idle
<1>4. CASE StartForget(t)
  <2>1. PICK o \in Objects :
          /\ Request("forget") /\ kcount[o] > 0 /\ opens[o] = 0 /\ kcount' = [kcount EXCEPT ![o] = 0]
          /\ Starts(t, [Idle EXCEPT !.pc = "forget", !.op = "forget", !.o = o, !.i = kcount[o]])
    BY Zenon, <1>4 DEF StartForget
  <2>2. thr'[t].pc = "forget" /\ thr'[t].o = o /\ thr'[t].i = kcount[o] /\ thr'[t].got = {}
    BY <2>1 DEF Starts, Idle
  <2> QED BY Zenon, <1>4, <2>1, <2>2 DEF StartForget, Starts, Request
<1>5. CASE StartOpen(t)
  <2>1. PICK o \in Objects, op \in {"open", "release"} :
          /\ Request(op) /\ kcount[o] > 0 /\ (op = "open" => inode[o].fd = "open") /\ (op = "release" => opens[o] > 0)
          /\ opens' = IF op = "release" THEN [opens EXCEPT ![o] = @ - 1] ELSE opens
          /\ Starts(t, [Idle EXCEPT !.pc = "nopen", !.op = op, !.o = o])
    BY <1>5, Zenon DEF StartOpen
  <2>2. thr'[t].pc = "nopen" /\ thr'[t].o = o /\ thr'[t].op = op /\ thr'[t].got = {}
    BY <2>1 DEF Starts, Idle
  <2> QED BY Zenon, <1>5, <2>1, <2>2 DEF StartOpen, Starts, Request
<1> QED BY Zenon, <1>1, <1>2, <1>3, <1>4, <1>5

LEMMA FindEffect ==
    ASSUME InodesTypeOK, NEW t \in LoopThreads, FindInode(t)
    PROVE  /\ thr[t].pc = "find" /\ OthersKept(t) /\ UNCHANGED <<kcount, opens>> /\ Defined
           /\ fsmutex = Nil /\ thr'[t].got = thr[t].got
           /\ \E o \in Objects :
                /\ thr'[t].o = o
                /\ \/ UNCHANGED inode
                   \/ /\ ~inode[o].alive /\ kcount[o] = 0 /\ opens[o] = 0
                      /\ \A x \in LoopThreads : thr[x].o # o /\ o \notin thr[x].got
                      /\ inode' = [inode EXCEPT ![o] = NewInode]
                /\ \/ inode'[o].fd = "open" /\ thr'[t].pc = "count" /\ fsmutex' = Nil
                   \/ inode'[o].fd # "open" /\ thr'[t].pc = "fill" /\ fsmutex' = t
<1> USE DEF InodesTypeOK, IsThread
<1>1. PICK o \in Objects :
          /\ IF inodes[thr[t].i] = Nil
             THEN /\ ~inode[o].alive /\ kcount[o] = 0 /\ opens[o] = 0
                  /\ \A x \in LoopThreads : thr[x].o # o /\ o \notin thr[x].got
             ELSE o = inodes[thr[t].i]
          /\ inode' = IF inodes[thr[t].i] = Nil THEN [inode EXCEPT ![o] = NewInode] ELSE inode
          /\ thr' = [thr EXCEPT ![t].o = o, ![t].pc = IF inode'[o].fd = "open" THEN "count" ELSE "fill"]
          /\ fsmutex' = IF inode'[o].fd = "open" THEN Nil ELSE t
  BY Zenon DEF FindInode
<1>2. /\ thr'[t].o = o /\ thr'[t].pc = (IF inode'[o].fd = "open" THEN "count" ELSE "fill") /\ thr'[t].got = thr[t].got
      /\ \A u \in LoopThreads \ {t} : thr'[u] = thr[u]
  BY <1>1
<1>3. thr[t].pc = "find" /\ Defined /\ fsmutex = Nil /\ UNCHANGED <<kcount, opens, single>>
  BY DEF FindInode, At
<1> QED BY Zenon, <1>1, <1>2, <1>3 DEF OthersKept

LEMMA CountEffect ==
    ASSUME InodesTypeOK, NEW t \in LoopThreads, CountLookup(t)
    PROVE  /\ thr[t].pc = "count" /\ OthersKept(t) /\ UNCHANGED <<kcount, opens, fsmutex>> /\ Defined
           /\ Moved(t, "attr") /\ inode[thr[t].o].m = Nil
           /\ inode' = [inode EXCEPT ![thr[t].o].nlookup = @ + 1]
BY DEF InodesTypeOK, IsThread, OthersKept, Moved, CountLookup, At, To, Free

LEMMA FillEffect ==
    ASSUME InodesTypeOK, NEW t \in LoopThreads, FillInode(t)
    PROVE  /\ thr[t].pc = "fill" /\ OthersKept(t) /\ UNCHANGED <<kcount, opens>> /\ Defined
           /\ Moved(t, "attr") /\ inode[thr[t].o].m = Nil /\ fsmutex' = Nil
           /\ inode' = [inode EXCEPT ![thr[t].o] = FilledIn(inode[thr[t].o], thr[t].n, thr[t].i)]
BY DEF InodesTypeOK, IsThread, OthersKept, Moved, FillInode, At, To, Free

LEMMA DoneEffect ==
    ASSUME InodesTypeOK, NEW t \in LoopThreads, LookupDone(t)
    PROVE  /\ thr[t].pc = "attr" /\ OthersKept(t) /\ UNCHANGED fsmutex /\ Defined
           /\ \/ /\ thr[t].op = "unlink" /\ (Moved(t, "release") \/ Moved(t, "unlink")) /\ UNCHANGED <<kcount, opens>>
                 /\ inode' = [inode EXCEPT ![thr[t].o] = WithIdAttr(inode[thr[t].o])]
              \/ /\ thr[t].op = "readdirplus" /\ Moved(t, "entry") /\ UNCHANGED <<kcount, opens>>
                 /\ inode' = [inode EXCEPT ![thr[t].o] = WithIdAttr(inode[thr[t].o])]
              \/ /\ thr[t].op = "lookup" /\ thr'[t] = Idle /\ UNCHANGED opens
                 /\ kcount' = [kcount EXCEPT ![thr[t].o] = @ + 1]
                 /\ inode' = [inode EXCEPT ![thr[t].o] = WithIdAttr(inode[thr[t].o])]
              \/ /\ thr[t].op = "create" /\ thr'[t] = Idle
                 /\ kcount' = [kcount EXCEPT ![thr[t].o] = @ + 1] /\ opens' = [opens EXCEPT ![thr[t].o] = @ + 1]
                 /\ inode' = [inode EXCEPT ![thr[t].o] = [WithIdAttr(inode[thr[t].o]) EXCEPT !.nopen = @ + 1]]
<1> USE DEF InodesTypeOK, IsThread, OthersKept, Moved
<1>1. thr[t].pc = "attr" /\ Defined /\ thr[t].op \in DirOps /\ OthersKept(t) /\ UNCHANGED fsmutex
  BY DEF LookupDone, At
<1>2. CASE thr[t].op = "unlink"
  BY <1>1, <1>2 DEF LookupDone
<1>3. CASE thr[t].op = "readdirplus"
  BY <1>1, <1>3 DEF LookupDone
<1>4. CASE thr[t].op = "lookup"
  BY <1>1, <1>4 DEF LookupDone
<1>5. CASE thr[t].op = "create"
  BY <1>1, <1>5 DEF LookupDone
<1> QED BY <1>1, <1>2, <1>3, <1>4, <1>5 DEF DirOps

LEMMA ReaddirEffect ==
    ASSUME InodesTypeOK, NEW t \in LoopThreads, ReaddirNext(t)
    PROVE  /\ thr[t].pc = "next" /\ OthersKept(t) /\ UNCHANGED <<inode, opens, fsmutex>> /\ Defined
           /\ \/ Moved(t, "find") /\ UNCHANGED kcount
              \/ /\ thr'[t] = Idle
                 /\ kcount' = [o \in Objects |-> IF o \in thr[t].got THEN kcount[o] + 1 ELSE kcount[o]]
<1> USE DEF InodesTypeOK, IsThread, OthersKept, Moved
<1>1. thr[t].pc = "next" /\ Defined /\ OthersKept(t) /\ UNCHANGED <<inode, opens, fsmutex>>
  BY Zenon DEF ReaddirNext, At
<1>2. CASE thr' = [thr EXCEPT ![t] = Idle] /\ kcount' = [o \in Objects |-> IF o \in thr[t].got THEN kcount[o] + 1 ELSE kcount[o]]
  BY <1>1, <1>2
<1>3. ASSUME NEW n, UNCHANGED kcount,
             thr' = [thr EXCEPT ![t] = [thr[t] EXCEPT !.pc = "find", !.n = n, !.i = dirent[n], !.left = @ \ {n}]]
      PROVE  Moved(t, "find") /\ UNCHANGED kcount
  BY <1>3
<1> QED BY <1>1, <1>2, <1>3, Zenon DEF ReaddirNext

LEMMA EntryEffect ==
    ASSUME InodesTypeOK, NEW t \in LoopThreads, ReaddirEntry(t)
    PROVE  /\ thr[t].pc = "entry" /\ OthersKept(t) /\ UNCHANGED <<inode, opens, fsmutex, kcount>> /\ Defined
           /\ thr'[t].o = thr[t].o
           /\ \/ thr'[t].pc = "next" /\ thr'[t].got = thr[t].got \cup {thr[t].o}
              \/ thr'[t].pc = "forget" /\ thr'[t].got = thr[t].got /\ thr'[t].i = 1
<1> USE DEF InodesTypeOK, IsThread, OthersKept
<1>1. thr[t].pc = "entry" /\ Defined /\ OthersKept(t) /\ UNCHANGED <<inode, opens, fsmutex, kcount>>
  BY DEF ReaddirEntry, At, EntryThatDoesNotFit
<1>2. CASE EntryThatDoesNotFit(t)
  BY <1>1, <1>2 DEF EntryThatDoesNotFit
<1>3. CASE thr' = [thr EXCEPT ![t] = [thr[t] EXCEPT !.pc = "next", !.got = @ \union {thr[t].o}]]
  BY <1>1, <1>3
<1> QED BY <1>2, <1>3, Zenon DEF ReaddirEntry

LEMMA ReleaseEffect ==
    ASSUME InodesTypeOK, NEW t \in LoopThreads, ReleaseInode(t)
    PROVE  /\ thr[t].pc = "release" /\ OthersKept(t) /\ UNCHANGED <<kcount, opens, fsmutex>> /\ Defined
           /\ \/ /\ inode[thr[t].o].fd = "open" /\ inode[thr[t].o].nopen = 0 /\ inode[thr[t].o].m = Nil
                 /\ inode' = [inode EXCEPT ![thr[t].o].m = t] /\ Moved(t, "close")
              \/ UNCHANGED inode /\ Moved(t, "unlink")
<1> USE DEF InodesTypeOK, IsThread, OthersKept, Moved, At, To, Free
<1>1. CASE MayRelease(inode[thr[t].o])
  BY <1>1 DEF ReleaseInode, MayRelease
<1>2. CASE ~MayRelease(inode[thr[t].o])
  BY <1>2 DEF ReleaseInode
<1> QED BY <1>1, <1>2

LEMMA CloseEffect ==
    ASSUME InodesTypeOK, NEW t \in LoopThreads, CloseInode(t)
    PROVE  /\ thr[t].pc = "close" /\ OthersKept(t) /\ UNCHANGED <<kcount, opens, fsmutex>> /\ Defined
           /\ fsmutex = Nil /\ Moved(t, "unlink")
           /\ inode' = [inode EXCEPT ![thr[t].o] = Released(inode[thr[t].o])]
BY DEF InodesTypeOK, IsThread, OthersKept, Moved, CloseInode, At, To

LEMMA UnlinkEffect ==
    ASSUME InodesTypeOK, NEW t \in LoopThreads, UnlinkName(t)
    PROVE  /\ thr[t].pc = "unlink" /\ OthersKept(t) /\ UNCHANGED <<inode, kcount, opens, fsmutex>> /\ Defined
           /\ thr'[t] = Idle
BY DEF InodesTypeOK, IsThread, OthersKept, UnlinkName, At

LEMMA AfterForgetIs ==
    ASSUME InodesTypeOK, NEW t \in LoopThreads, thr[t].pc \in {"forget", "erase"}
    PROVE  /\ AfterForget(t).pc \in {"idle", "next"} /\ AfterForget(t).o = Nil /\ AfterForget(t).got \subseteq thr[t].got
BY DEF InodesTypeOK, IsThread, AfterForget, Idle

LEMMA ForgetEffect ==
    ASSUME InodesTypeOK, NEW t \in LoopThreads, ForgetLookups(t)
    PROVE  /\ thr[t].pc = "forget" /\ OthersKept(t) /\ UNCHANGED <<kcount, opens, fsmutex>> /\ Defined
           /\ inode[thr[t].o].m = Nil
           /\ \/ /\ inode[thr[t].o].nlookup - thr[t].i = 0 /\ Moved(t, "erase")
                 /\ inode' = [inode EXCEPT ![thr[t].o] = [inode[thr[t].o] EXCEPT !.nlookup = @ - thr[t].i, !.m = t]]
              \/ /\ inode[thr[t].o].nlookup - thr[t].i # 0
                 /\ thr'[t].pc \in {"idle", "next"} /\ thr'[t].o = Nil /\ thr'[t].got \subseteq thr[t].got
                 /\ inode' = [inode EXCEPT ![thr[t].o] = [inode[thr[t].o] EXCEPT !.nlookup = @ - thr[t].i]]
<1> DEFINE x == [inode[thr[t].o] EXCEPT !.nlookup = @ - thr[t].i]
<1>1. thr[t].pc = "forget" /\ Defined /\ inode[thr[t].o].m = Nil /\ thr[t].o \in Objects
  BY DEF ForgetLookups, At, Free, InodesTypeOK, IsThread, ObjectPcs
<1>2. OthersKept(t) /\ UNCHANGED <<kcount, opens, fsmutex>>
  BY DEF ForgetLookups, OthersKept, InodesTypeOK
<1>3. Unused(x) <=> inode[thr[t].o].nlookup - thr[t].i = 0
  BY <1>1 DEF Unused, InodesTypeOK, IsInode
<1>4. CASE Unused(x)
  <2>1. inode' = [inode EXCEPT ![thr[t].o] = [x EXCEPT !.m = t]] /\ thr' = [thr EXCEPT ![t] = [thr[t] EXCEPT !.pc = "erase"]]
    BY <1>4, Zenon DEF ForgetLookups
  <2>2. Moved(t, "erase")
    BY <2>1 DEF Moved, InodesTypeOK, IsThread
  <2>3. [x EXCEPT !.m = t] = [inode[thr[t].o] EXCEPT !.nlookup = @ - thr[t].i, !.m = t]
    OBVIOUS
  <2> QED BY <1>1, <1>2, <1>3, <1>4, <2>1, <2>2, <2>3
<1>5. CASE ~Unused(x)
  <2>1. inode' = [inode EXCEPT ![thr[t].o] = x] /\ thr' = [thr EXCEPT ![t] = AfterForget(t)]
    BY <1>5, Zenon DEF ForgetLookups
  <2>2. thr'[t] = AfterForget(t)
    BY <2>1 DEF InodesTypeOK
  <2> QED BY <1>1, <1>2, <1>3, <1>5, <2>1, <2>2, AfterForgetIs
<1> QED BY <1>4, <1>5

LEMMA EraseEffect ==
    ASSUME InodesTypeOK, NEW t \in LoopThreads, EraseInode(t)
    PROVE  /\ thr[t].pc = "erase" /\ OthersKept(t) /\ UNCHANGED <<kcount, opens, fsmutex>> /\ Defined
           /\ fsmutex = Nil
           /\ thr'[t].pc \in {"idle", "next"} /\ thr'[t].o = Nil /\ thr'[t].got \subseteq thr[t].got
           /\ \/ inode' = [inode EXCEPT ![thr[t].o] = Freed]
              \/ inode' = [inode EXCEPT ![thr[t].o].m = Nil]
<1>1. thr[t].pc = "erase" /\ Defined /\ fsmutex = Nil /\ UNCHANGED <<kcount, opens, fsmutex>>
  BY DEF EraseInode, At
<1>2. thr' = [thr EXCEPT ![t] = AfterForget(t)] /\ UNCHANGED single
  BY DEF EraseInode
<1>3. thr'[t] = AfterForget(t) /\ OthersKept(t)
  BY <1>2 DEF InodesTypeOK, OthersKept
<1> QED BY <1>1, <1>3, AfterForgetIs DEF EraseInode

LEMMA OpenEffect ==
    ASSUME InodesTypeOK, NEW t \in LoopThreads, CountOpen(t)
    PROVE  /\ thr[t].pc = "nopen" /\ OthersKept(t) /\ UNCHANGED <<kcount, fsmutex>> /\ Defined
           /\ inode[thr[t].o].m = Nil /\ thr'[t] = Idle
           /\ \/ /\ thr[t].op = "open" /\ opens' = [opens EXCEPT ![thr[t].o] = @ + 1]
                 /\ inode' = [inode EXCEPT ![thr[t].o].nopen = @ + 1]
              \/ /\ thr[t].op = "release" /\ UNCHANGED opens
                 /\ inode' = [inode EXCEPT ![thr[t].o].nopen = @ + -1]
<1>1. thr[t].pc = "nopen" /\ Defined /\ inode[thr[t].o].m = Nil /\ UNCHANGED <<kcount, fsmutex, single>>
  BY DEF CountOpen, At, Free
<1>2. thr' = [thr EXCEPT ![t] = Idle]
  BY DEF CountOpen
<1>3. thr'[t] = Idle /\ OthersKept(t)
  BY <1>1, <1>2 DEF InodesTypeOK, OthersKept
<1>4. CASE thr[t].op = "open"
  BY <1>1, <1>3, <1>4 DEF CountOpen
<1>5. CASE thr[t].op = "release"
  BY <1>1, <1>3, <1>5 DEF CountOpen
<1>6. thr[t].op \in {"open", "release"}
  BY <1>1 DEF InodesTypeOK, IsThread
<1> QED BY <1>4, <1>5, <1>6

-----------------------------------------------------------------------------
(***************************************************************************)
(* The sum of what the kernel and the threads hold.                        *)
(***************************************************************************)
LEMMA OwedType ==
    ASSUME InodesTypeOK, NEW t \in LoopThreads, NEW o \in Objects
    PROVE  Owed(t, o) \in Nat /\ AtHand(t, o) \in Nat /\ Listed(t, o) \in {0, 1}
<1>1. AtHand(t, o) \in Nat
  BY DEF InodesTypeOK, IsThread, AtHand
<1>2. Listed(t, o) \in {0, 1}
  BY DEF Listed
<1> QED BY <1>1, <1>2 DEF Owed

LEMMA OwedTypeNext ==
    ASSUME InodesTypeOK', NEW t \in LoopThreads, NEW o \in Objects
    PROVE  Owed(t, o)' \in Nat /\ AtHand(t, o)' \in Nat /\ Listed(t, o)' \in {0, 1}
<1>1. AtHand(t, o)' \in Nat
  BY DEF InodesTypeOK, IsThread, AtHand
<1>2. Listed(t, o)' \in {0, 1}
  BY DEF Listed
<1> QED BY <1>1, <1>2 DEF Owed

LEMMA DueType ==
    ASSUME InodesTypeOK, NEW o \in Objects
    PROVE  Due(o) \in [LoopThreads \cup {Nil} -> Nat] /\ IsFiniteSet(LoopThreads \cup {Nil})
<1>1. \A t \in LoopThreads : Owed(t, o) \in Nat
  BY OwedType
<1>2. kcount[o] \in Nat
  BY DEF InodesTypeOK
<1>3. IsFiniteSet(LoopThreads \cup {Nil})
  BY FS_AddElement
<1> QED BY <1>1, <1>2, <1>3 DEF Due

LEMMA DueParts ==
    ASSUME InodesTypeOK, NEW t \in LoopThreads, NEW o \in Objects
    PROVE  /\ Total(Due(o)) \in Nat
           /\ Total(Due(o)) >= Owed(t, o) /\ Total(Due(o)) >= kcount[o]
<1>1. Due(o)[t] = Owed(t, o) /\ Due(o)[Nil] = kcount[o]
  BY DEF Due
<1>2. Total(Due(o)) \in Nat /\ Total(Due(o)) >= Due(o)[t]
  BY DueType, TotalUpdate
<1>3. Total(Due(o)) >= Due(o)[Nil]
  BY DueType, TotalUpdate
<1> QED BY <1>1, <1>2, <1>3

LEMMA Balance ==
    ASSUME InodesTypeOK, InodesTypeOK', NEW t \in LoopThreads, NEW o \in Objects, OthersKept(t)
    PROVE  Total(Due(o)') = Total(Due(o)) - Owed(t, o) + Owed(t, o)' - kcount[o] + kcount'[o]
<1> DEFINE S == LoopThreads \cup {Nil}
<1>1. PICK a \in Nat : a = Owed(t, o)'
  BY OwedTypeNext
<1>2. PICK k \in Nat : k = kcount'[o]
  BY DEF InodesTypeOK
<1>3. PICK w \in [S -> Nat] : w = Due(o)
  BY DueType
<1>4. w[t] = Owed(t, o) /\ w[Nil] = kcount[o] /\ IsFiniteSet(S) /\ t \in S /\ Nil \in S /\ t # Nil
  BY <1>3, DueType DEF Due
<1>5. PICK v : v = Due(o)'
  OBVIOUS
<1>6. v = [x \in S |-> IF x = Nil THEN k ELSE Owed(x, o)']
  BY <1>2, <1>5 DEF Due
<1>7. \A u \in LoopThreads \ {t} : v[u] = w[u]
  <2>1. \A u \in LoopThreads \ {t} : Owed(u, o)' = Owed(u, o)
    BY DEF OthersKept, Owed, AtHand, Listed
  <2> QED BY <1>3, <1>6, <2>1 DEF Due
<1>8. v[t] = a /\ v[Nil] = k
  BY <1>1, <1>4, <1>6
<1>9. v \in [S -> Nat]
  <2>1. \A u \in S : v[u] \in Nat
    BY <1>7, <1>8
  <2> QED BY <1>6, <2>1
<1>10. Total(v) = Total(w) - w[t] + a - w[Nil] + k
  BY <1>4, <1>7, <1>8, <1>9, TotalUpdateTwo
<1> QED BY <1>1, <1>2, <1>3, <1>4, <1>5, <1>10

-----------------------------------------------------------------------------
(***************************************************************************)
(* The mutexes.                                                            *)
(***************************************************************************)
\* A step that leaves the mutexes, the descriptors and the look-ups alone.
LEMMA QuietMutex ==
    ASSUME MutexInv, FreshInv, NEW t \in LoopThreads, OthersKept(t), UNCHANGED fsmutex,
           thr[t].pc \notin {"count", "fill", "close", "erase"}, thr'[t].pc \notin {"count", "fill", "close", "erase"},
           \A p \in Objects : /\ inode'[p].m = inode[p].m /\ inode'[p].fd = inode[p].fd
                              /\ inode'[p].alive = inode[p].alive /\ inode'[p].nlookup = inode[p].nlookup
                              /\ ~inode[p].alive => inode'[p] = inode[p],
           \A u \in LoopThreads : thr[u].pc \in {"fill", "close", "erase"} => thr[u].o \in Objects
    PROVE  MutexInv' /\ FreshInv'
<1>1. \A u \in LoopThreads : thr'[u].pc \in {"count", "close", "erase", "fill"} => thr'[u] = thr[u]
  BY DEF OthersKept
<1>2. \A u \in LoopThreads : thr[u].pc \in {"count", "close", "erase", "fill"} => thr'[u] = thr[u]
  BY DEF OthersKept
<1>3. FreshInv'
  BY <1>1 DEF FreshInv
<1>4. \A u \in LoopThreads : thr'[u].pc = "fill" <=> fsmutex' = u
  BY <1>1, <1>2 DEF MutexInv
<1>5. \A u \in LoopThreads : thr'[u].pc \in {"close", "erase"} => inode'[thr'[u].o].m = u /\ inode'[thr'[u].o].fd = "open"
  BY <1>1 DEF MutexInv
<1>6. \A u \in LoopThreads : thr'[u].pc = "erase" => inode'[thr'[u].o].nlookup = 0
  BY <1>1 DEF MutexInv
<1>7. \A u \in LoopThreads : thr'[u].pc = "fill" => inode'[thr'[u].o].fd # "open"
  BY <1>1 DEF MutexInv
<1>8. \A p \in Objects, u \in LoopThreads : inode'[p].m = u => thr'[u].pc \in {"close", "erase"} /\ thr'[u].o = p
  BY <1>2 DEF MutexInv
<1> QED BY <1>3, <1>4, <1>5, <1>6, <1>7, <1>8 DEF MutexInv

LEMMA QuietMutexSteps ==
    ASSUME InodesTypeOK, MutexInv, FreshInv, NEW t \in LoopThreads,
           \/ StartLookup(t) \/ StartCreate(t) \/ StartReaddir(t) \/ StartForget(t) \/ StartOpen(t)
           \/ LookupDone(t) \/ ReaddirNext(t) \/ ReaddirEntry(t) \/ UnlinkName(t) \/ CountOpen(t)
    PROVE  MutexInv' /\ FreshInv'
<1>1. \A u \in LoopThreads : thr[u].pc \in {"fill", "close", "erase"} => thr[u].o \in Objects
  BY DEF InodesTypeOK, IsThread, ObjectPcs
<1>2. CASE StartLookup(t) \/ StartCreate(t) \/ StartReaddir(t) \/ StartForget(t) \/ StartOpen(t)
  <2>1. thr[t] = Idle /\ OthersKept(t) /\ inode' = inode /\ UNCHANGED fsmutex
    BY <1>2, StartEffect
  <2>2. thr'[t].pc \in {"find", "next", "forget", "nopen"}
    BY Zenon, <1>2, StartEffect
  <2>3. thr[t].pc = "idle"
    BY Zenon, <2>1, IdleIs
  <2> QED BY Zenon, <1>1, <2>1, <2>2, <2>3, QuietMutex
<1>3. CASE LookupDone(t)
  <2>1. PICK o \in Objects : o = thr[t].o
    BY Zenon, <1>3, DoneEffect DEF InodesTypeOK, IsThread, ObjectPcs
  <2>2. /\ thr[t].pc = "attr" /\ OthersKept(t) /\ UNCHANGED fsmutex /\ Defined
        /\ \/ inode' = [inode EXCEPT ![o] = WithIdAttr(inode[o])]
           \/ inode' = [inode EXCEPT ![o] = [WithIdAttr(inode[o]) EXCEPT !.nopen = @ + 1]]
    BY <1>3, <2>1, DoneEffect
  <2>3. thr'[t].pc \in {"idle", "release", "unlink", "entry"}
    BY Zenon, <1>3, DoneEffect, IdleIs DEF Moved
  <2>4. inode[o].alive
    BY <2>1, <2>2 DEF Defined
  <2>5. \A p \in Objects : /\ inode'[p].m = inode[p].m /\ inode'[p].fd = inode[p].fd /\ inode'[p].alive = inode[p].alive
                           /\ inode'[p].nlookup = inode[p].nlookup
    BY <2>2 DEF WithIdAttr, InodesTypeOK, IsInode
  <2>6. \A p \in Objects : ~inode[p].alive => inode'[p] = inode[p]
    BY <2>2, <2>4 DEF InodesTypeOK
  <2> QED BY <1>1, <2>2, <2>3, <2>5, <2>6, QuietMutex
<1>4. CASE ReaddirNext(t)
  <2>1. OthersKept(t) /\ inode' = inode /\ UNCHANGED fsmutex /\ thr[t].pc = "next"
    BY <1>4, ReaddirEffect
  <2>2. thr'[t].pc \in {"find", "idle"}
    BY <1>4, ReaddirEffect, IdleIs DEF Moved
  <2> QED BY <1>1, <2>1, <2>2, QuietMutex
<1>5. CASE ReaddirEntry(t)
  <2>1. OthersKept(t) /\ inode' = inode /\ UNCHANGED fsmutex /\ thr[t].pc = "entry" /\ thr'[t].pc \in {"next", "forget"}
    BY Zenon, <1>5, EntryEffect
  <2> QED BY <1>1, <2>1, QuietMutex
<1>6. CASE UnlinkName(t)
  <2>1. OthersKept(t) /\ inode' = inode /\ UNCHANGED fsmutex /\ thr[t].pc = "unlink" /\ thr'[t] = Idle
    BY <1>6, UnlinkEffect
  <2> QED BY <1>1, <2>1, QuietMutex, IdleIs
<1>7. CASE CountOpen(t)
  <2>1. PICK o \in Objects : o = thr[t].o
    BY Zenon, <1>7, OpenEffect DEF InodesTypeOK, IsThread, ObjectPcs
  <2>2. OthersKept(t) /\ UNCHANGED fsmutex /\ thr[t].pc = "nopen" /\ thr'[t] = Idle /\ Defined
    BY Zenon, <1>7, OpenEffect
  <2>3. inode' = [inode EXCEPT ![o].nopen = @ + 1] \/ inode' = [inode EXCEPT ![o].nopen = @ + -1]
    BY <1>7, <2>1, OpenEffect
  <2>4. inode[o].alive
    BY <2>1, <2>2 DEF Defined
  <2>5. \A p \in Objects : /\ inode'[p].m = inode[p].m /\ inode'[p].fd = inode[p].fd /\ inode'[p].alive = inode[p].alive
                           /\ inode'[p].nlookup = inode[p].nlookup
    BY <2>3 DEF InodesTypeOK, IsInode
  <2>6. \A p \in Objects : ~inode[p].alive => inode'[p] = inode[p]
    BY <2>3, <2>4 DEF InodesTypeOK
  <2> QED BY Zenon, <1>1, <2>2, <2>5, <2>6, QuietMutex, IdleIs
<1> QED BY <1>2, <1>3, <1>4, <1>5, <1>6, <1>7

\* A thread's step on its object, whose mutex is free or the thread's own.
LEMMA ObjectMutex ==
    ASSUME InodesTypeOK, MutexInv, FreshInv, NEW t \in LoopThreads, NEW o \in Objects,
           \A u \in LoopThreads \ {t} : thr'[u] = thr[u], \A p \in Objects \ {o} : inode'[p] = inode[p],
           thr[t].o = o, inode[o].m \in {Nil, t}, inode'[o].m \in {Nil, t},
           thr'[t].pc # "fill", fsmutex' = IF thr[t].pc = "fill" THEN Nil ELSE fsmutex,
           thr'[t].pc \in {"close", "erase"} => thr'[t].o = o /\ inode'[o].m = t /\ inode'[o].fd = "open",
           thr'[t].pc = "erase" => inode'[o].nlookup = 0,
           inode'[o].m = t => thr'[t].pc \in {"close", "erase"},
           thr[t].pc # "fill" => (inode'[o].fd = "open" => inode[o].fd = "open"),
           ~inode'[o].alive => inode'[o] = Freed, inode'[o].fd = "none" => inode'[o].nlookup = 0,
           thr'[t].pc # "count", inode'[o].alive => inode[o].alive /\ (inode'[o].fd = "none" => inode[o].fd = "none")
    PROVE  MutexInv' /\ FreshInv'
<1>1. FreshInv'
  BY DEF FreshInv
<1>2. \A u \in LoopThreads \ {t} : thr[u].pc \in {"close", "erase"} => thr[u].o # o
  BY DEF MutexInv
<1>3. \A u \in LoopThreads : thr'[u].pc = "fill" <=> fsmutex' = u
  BY DEF MutexInv
<1>4. \A u \in LoopThreads \ {t} : thr[u].pc \in {"close", "erase", "fill"} => thr[u].o \in Objects
  BY DEF InodesTypeOK, IsThread, ObjectPcs
<1>5. \A u \in LoopThreads : thr'[u].pc \in {"close", "erase"} => inode'[thr'[u].o].m = u /\ inode'[thr'[u].o].fd = "open"
  BY <1>2, <1>4 DEF MutexInv
<1>6. \A u \in LoopThreads : thr'[u].pc = "erase" => inode'[thr'[u].o].nlookup = 0
  BY <1>2, <1>4 DEF MutexInv
<1>7. \A u \in LoopThreads : thr'[u].pc = "fill" => inode'[thr'[u].o].fd # "open"
  BY <1>4 DEF MutexInv
<1>8. \A p \in Objects, u \in LoopThreads : inode'[p].m = u => thr'[u].pc \in {"close", "erase"} /\ thr'[u].o = p
  BY DEF MutexInv
<1> QED BY <1>1, <1>3, <1>5, <1>6, <1>7, <1>8 DEF MutexInv

LEMMA LookupMutex ==
    ASSUME InodesTypeOK, MutexInv, FreshInv, NEW t \in LoopThreads,
           FindInode(t) \/ CountLookup(t) \/ FillInode(t)
    PROVE  MutexInv' /\ FreshInv'
<1> USE DEF InodesTypeOK, IsInode
<1>1. CASE FindInode(t)
  <2>1. /\ thr[t].pc = "find" /\ fsmutex = Nil /\ thr'[t].got = thr[t].got
        /\ \A u \in LoopThreads \ {t} : thr'[u] = thr[u]
    BY Zenon, <1>1, FindEffect DEF OthersKept
  <2>2. PICK o \in Objects :
                /\ thr'[t].o = o
                /\ \/ UNCHANGED inode
                   \/ /\ ~inode[o].alive
                      /\ \A x \in LoopThreads : thr[x].o # o
                      /\ inode' = [inode EXCEPT ![o] = NewInode]
                /\ \/ inode'[o].fd = "open" /\ thr'[t].pc = "count" /\ fsmutex' = Nil
                   \/ inode'[o].fd # "open" /\ thr'[t].pc = "fill" /\ fsmutex' = t
    BY <1>1, FindEffect
  <2>3. CASE UNCHANGED inode
    BY <2>1, <2>2, <2>3 DEF MutexInv, FreshInv
  <2>4. CASE inode' = [inode EXCEPT ![o] = NewInode] /\ \A x \in LoopThreads : thr[x].o # o
    <3>1. inode'[o].m = Nil /\ inode'[o].fd = "none" /\ inode'[o].alive /\ inode'[o].nlookup = 0
      BY Zenon, <2>4 DEF NewInode
    <3>2. \A p \in Objects \ {o} : inode'[p] = inode[p]
      BY Zenon, <2>4
    <3>4. \A u \in LoopThreads \ {t} : thr'[u].o # o
      BY Zenon, <2>1, <2>4
    <3>5. thr'[t].pc = "fill" /\ fsmutex' = t
      BY Zenon, <2>2, <3>1
    <3>3. FreshInv'
      BY <2>1, <3>1, <3>2, <3>4, <3>5 DEF FreshInv
    <3>7. \A u \in LoopThreads : thr[u].pc \in {"fill", "close", "erase"} => thr[u].o \in Objects
      BY DEF IsThread, ObjectPcs
    <3>8. \A u \in LoopThreads : thr[u].pc # "fill"
      BY Zenon, <2>1 DEF MutexInv
    <3>9. ASSUME NEW u \in LoopThreads, thr'[u].pc \in {"close", "erase"}
          PROVE  u # t /\ thr'[u] = thr[u] /\ inode'[thr'[u].o] = inode[thr[u].o]
      <4>1. u # t /\ thr'[u] = thr[u] /\ thr[u].o # o
        BY <2>1, <3>4, <3>5, <3>9
      <4>2. thr[u].o \in Objects
        BY <4>1, <3>7, <3>9
      <4> QED BY Zenon, <4>1, <4>2, <3>2
    <3>10. \A p \in Objects, u \in LoopThreads : inode'[p].m = u => p # o /\ u # t /\ thr'[u] = thr[u] /\ inode'[p] = inode[p]
      BY <2>1, <3>1, <3>2 DEF MutexInv
    <3>6. MutexInv'
      BY <2>1, <2>2, <3>1, <3>5, <3>8, <3>9, <3>10 DEF MutexInv
    <3> QED BY Zenon, <3>3, <3>6
  <2> QED BY <2>2, <2>3, <2>4
<1>2. CASE CountLookup(t)
  <2>1. PICK o \in Objects : o = thr[t].o
    BY Zenon, <1>2, CountEffect DEF IsThread, ObjectPcs
  <2>2. /\ thr[t].pc = "count" /\ OthersKept(t) /\ UNCHANGED fsmutex /\ Moved(t, "attr") /\ inode[o].m = Nil
        /\ inode' = [inode EXCEPT ![o].nlookup = @ + 1] /\ Defined
    BY <1>2, <2>1, CountEffect
  <2>3. inode'[o].m = Nil /\ inode'[o].fd = inode[o].fd /\ inode'[o].alive = inode[o].alive
    BY <2>2
  <2>4. inode[o].alive
    BY <2>1, <2>2 DEF Defined
  <2>5. inode[o].fd # "none"
    BY <2>1, <2>2, <2>4 DEF FreshInv
  <2>6. /\ \A u \in LoopThreads \ {t} : thr'[u] = thr[u]
        /\ \A p \in Objects \ {o} : inode'[p] = inode[p]
        /\ thr'[t].pc = "attr" /\ inode'[o].alive
    BY <2>2, <2>3, <2>4 DEF OthersKept, Moved
  <2> QED BY <2>1, <2>2, <2>3, <2>4, <2>5, <2>6, ObjectMutex
<1>3. CASE FillInode(t)
  <2>1. PICK o \in Objects : o = thr[t].o
    BY Zenon, <1>3, FillEffect DEF IsThread, ObjectPcs
  <2>2. /\ thr[t].pc = "fill" /\ OthersKept(t) /\ fsmutex' = Nil /\ Moved(t, "attr") /\ inode[o].m = Nil /\ Defined
        /\ inode' = [inode EXCEPT ![o] = FilledIn(inode[o], thr[t].n, thr[t].i)]
    BY Zenon, <1>3, <2>1, FillEffect
  <2>3. inode'[o].m = Nil /\ inode'[o].fd = "open" /\ inode'[o].alive = inode[o].alive
    BY <2>2 DEF FilledIn
  <2>4. inode[o].alive
    BY Zenon, <2>1, <2>2 DEF Defined
  <2>6. /\ \A u \in LoopThreads \ {t} : thr'[u] = thr[u]
        /\ \A p \in Objects \ {o} : inode'[p] = inode[p]
        /\ thr'[t].pc = "attr" /\ inode'[o].alive
    BY Zenon, <2>2, <2>3, <2>4 DEF OthersKept, Moved
  <2>7. fsmutex' = IF thr[t].pc = "fill" THEN Nil ELSE fsmutex
    BY Zenon, <2>2
  <2>8. /\ thr[t].o = o /\ inode[o].m \in {Nil, t} /\ inode'[o].m \in {Nil, t} /\ inode'[o].m # t
        /\ thr'[t].pc \notin {"close", "erase", "fill", "count"} /\ inode'[o].fd # "none" /\ inode'[o].alive /\ inode[o].alive
    BY <2>1, <2>2, <2>3, <2>4, <2>6
  <2> HIDE DEF InodesTypeOK
  <2> QED BY Zenon, <2>2, <2>6, <2>7, <2>8, ObjectMutex
<1> QED BY <1>1, <1>2, <1>3

\* A thread that has a look-up to pass on or to take back holds an object that is filled in.
LEMMA OwedCounted ==
    ASSUME InodesTypeOK, FreshInv, LookupsInv, NEW t \in LoopThreads, NEW o \in Objects
    PROVE  /\ inode[o].nlookup >= Owed(t, o) /\ inode[o].nlookup >= kcount[o] /\ inode[o].nlookup >= 0
           /\ Owed(t, o) > 0 \/ kcount[o] > 0 => inode[o].fd # "none"
           /\ inode[o].fd = "gone" => inode[o].nlookup > Owed(t, o)
<1>1. Owed(t, o) \in Nat /\ kcount[o] \in Nat /\ inode[o].nlookup \in Int
  BY OwedType DEF InodesTypeOK, IsInode
<1>2. Total(Due(o)) \in Nat /\ Total(Due(o)) >= Owed(t, o) /\ Total(Due(o)) >= kcount[o]
  BY DueParts
<1>3. inode[o].nlookup >= Total(Due(o)) + (IF inode[o].fd = "gone" THEN 1 ELSE 0)
  BY DEF LookupsInv
<1> QED BY <1>1, <1>2, <1>3 DEF FreshInv

LEMMA UnlinkMutex ==
    ASSUME InodesTypeOK, MutexInv, FreshInv, NEW t \in LoopThreads, ReleaseInode(t) \/ CloseInode(t)
    PROVE  MutexInv' /\ FreshInv'
<1>1. CASE ReleaseInode(t)
  <2>1. PICK o \in Objects : o = thr[t].o
    BY Zenon, <1>1, ReleaseEffect DEF InodesTypeOK, IsThread, ObjectPcs
  <2>2. thr[t].pc = "release" /\ OthersKept(t) /\ UNCHANGED fsmutex /\ Defined
    BY Zenon, <1>1, ReleaseEffect
  <2>3. CASE UNCHANGED inode /\ Moved(t, "unlink")
    <3>1. \A u \in LoopThreads : thr[u].pc \in {"fill", "close", "erase"} => thr[u].o \in Objects
      BY DEF InodesTypeOK, IsThread, ObjectPcs
    <3> QED BY <2>2, <2>3, <3>1, QuietMutex DEF Moved
  <2>4. CASE inode[o].fd = "open" /\ inode[o].m = Nil /\ inode' = [inode EXCEPT ![o].m = t] /\ Moved(t, "close")
    <3>1. /\ inode'[o].m = t /\ inode'[o].fd = inode[o].fd /\ inode'[o].alive = inode[o].alive
          /\ \A p \in Objects \ {o} : inode'[p] = inode[p]
      BY <2>4 DEF InodesTypeOK, IsInode
    <3>2. inode[o].alive
      BY <2>1, <2>2 DEF Defined
    <3>3. /\ thr[t].o = o /\ thr'[t].o = o /\ thr'[t].pc = "close" /\ inode'[o].alive
          /\ \A u \in LoopThreads \ {t} : thr'[u] = thr[u]
      BY <2>1, <2>2, <2>4, <3>1, <3>2 DEF Moved, OthersKept
    <3>4. fsmutex' = IF thr[t].pc = "fill" THEN Nil ELSE fsmutex
      BY <2>2
    <3> QED BY <2>2, <2>4, <3>1, <3>2, <3>3, <3>4, ObjectMutex
  <2> QED BY <1>1, <2>1, <2>3, <2>4, ReleaseEffect
<1>2. CASE CloseInode(t)
  <2>1. PICK o \in Objects : o = thr[t].o
    BY Zenon, <1>2, CloseEffect DEF InodesTypeOK, IsThread, ObjectPcs
  <2>2. /\ thr[t].pc = "close" /\ OthersKept(t) /\ UNCHANGED fsmutex /\ Defined /\ Moved(t, "unlink")
        /\ inode' = [inode EXCEPT ![o] = Released(inode[o])]
    BY Zenon, <1>2, <2>1, CloseEffect
  <2>3. /\ inode'[o].m = Nil /\ inode'[o].fd = "gone" /\ inode'[o].alive = inode[o].alive
        /\ \A p \in Objects \ {o} : inode'[p] = inode[p]
    BY <2>2 DEF InodesTypeOK, IsInode, Released
  <2>4. inode[o].alive /\ inode[o].m = t
    BY Zenon, <2>1, <2>2 DEF Defined, MutexInv
  <2>5. /\ thr[t].o = o /\ thr'[t].pc = "unlink" /\ inode'[o].alive
        /\ \A u \in LoopThreads \ {t} : thr'[u] = thr[u]
    BY Zenon, <2>1, <2>2, <2>3, <2>4 DEF Moved, OthersKept
  <2>6. fsmutex' = IF thr[t].pc = "fill" THEN Nil ELSE fsmutex
    BY Zenon, <2>2
  <2> QED BY <2>3, <2>4, <2>5, <2>6, ObjectMutex
<1> QED BY <1>1, <1>2

LEMMA ForgetMutex ==
    ASSUME InodesTypeOK, MutexInv, FreshInv, LookupsInv, NEW t \in LoopThreads, ForgetLookups(t) \/ EraseInode(t)
    PROVE  MutexInv' /\ FreshInv'
<1>1. CASE ForgetLookups(t)
  <2>1. PICK o \in Objects : o = thr[t].o
    BY Zenon, <1>1, ForgetEffect DEF InodesTypeOK, IsThread, ObjectPcs
  <2>2. thr[t].pc = "forget" /\ OthersKept(t) /\ UNCHANGED fsmutex /\ Defined /\ inode[o].m = Nil
    BY Zenon, <1>1, <2>1, ForgetEffect
  <2>3. PICK i \in Nat \ {0} : i = thr[t].i
    BY Zenon, <2>2 DEF InodesTypeOK, IsThread
  <2>4. Owed(t, o) >= i /\ Owed(t, o) \in Nat
    <3>1. AtHand(t, o) = i
      BY <2>1, <2>2, <2>3 DEF AtHand
    <3> QED BY <3>1, OwedType DEF Owed
  <2>5. inode[o].nlookup \in Int /\ inode[o].fd \in {"open", "gone"} /\ (inode[o].fd = "gone" => inode[o].nlookup > i)
    BY <2>3, <2>4, OwedCounted DEF InodesTypeOK, IsInode
  <2>6. inode[o].alive /\ fsmutex' = IF thr[t].pc = "fill" THEN Nil ELSE fsmutex
    BY <2>1, <2>2 DEF Defined
  <2>7. \A u \in LoopThreads \ {t} : thr'[u] = thr[u]
    BY <2>2 DEF OthersKept
  <2>8. CASE /\ inode[o].nlookup - i = 0 /\ Moved(t, "erase")
             /\ inode' = [inode EXCEPT ![o] = [inode[o] EXCEPT !.nlookup = @ - i, !.m = t]]
    <3>1. /\ inode'[o].m = t /\ inode'[o].fd = inode[o].fd /\ inode'[o].alive = inode[o].alive /\ inode'[o].nlookup = 0
          /\ \A p \in Objects \ {o} : inode'[p] = inode[p]
      BY <2>8 DEF InodesTypeOK, IsInode
    <3>2. inode[o].fd = "open"
      BY <2>3, <2>5, <2>8
    <3>3. thr'[t].pc = "erase" /\ thr'[t].o = o /\ thr[t].o = o
      BY <2>1, <2>8 DEF Moved
    <3> QED BY Zenon, <2>2, <2>6, <2>7, <3>1, <3>2, <3>3, ObjectMutex
  <2>9. CASE /\ thr'[t].pc \in {"idle", "next"}
             /\ inode' = [inode EXCEPT ![o] = [inode[o] EXCEPT !.nlookup = @ - i]]
    <3>1. /\ inode'[o].m = Nil /\ inode'[o].fd = inode[o].fd /\ inode'[o].alive = inode[o].alive
          /\ \A p \in Objects \ {o} : inode'[p] = inode[p]
      BY <2>2, <2>9 DEF InodesTypeOK, IsInode
    <3> QED BY <2>1, <2>2, <2>5, <2>6, <2>7, <2>9, <3>1, ObjectMutex
  <2> QED BY Zenon, <1>1, <2>1, <2>3, <2>8, <2>9, ForgetEffect
<1>2. CASE EraseInode(t)
  <2>1. PICK o \in Objects : o = thr[t].o
    BY Zenon, <1>2, EraseEffect DEF InodesTypeOK, IsThread, ObjectPcs
  <2>2. thr[t].pc = "erase" /\ OthersKept(t) /\ UNCHANGED fsmutex /\ Defined /\ thr'[t].pc \in {"idle", "next"}
    BY Zenon, <1>2, <2>1, EraseEffect
  <2>3. inode[o].m = t /\ inode[o].fd = "open" /\ inode[o].nlookup = 0 /\ inode[o].alive
    BY <2>1, <2>2 DEF MutexInv, Defined
  <2>4. fsmutex' = IF thr[t].pc = "fill" THEN Nil ELSE fsmutex
    BY <2>2
  <2>5. \A u \in LoopThreads \ {t} : thr'[u] = thr[u]
    BY <2>2 DEF OthersKept
  <2>6. CASE inode' = [inode EXCEPT ![o] = Freed]
    <3>1. inode'[o] = Freed /\ \A p \in Objects \ {o} : inode'[p] = inode[p]
      BY Zenon, <2>6 DEF InodesTypeOK
    <3>2. inode'[o].m = Nil /\ inode'[o].fd = "none" /\ ~inode'[o].alive /\ inode'[o].nlookup = 0
      BY <3>1 DEF Freed, NewInode
    <3> QED BY Zenon, <2>1, <2>2, <2>3, <2>4, <2>5, <3>1, <3>2, ObjectMutex
  <2>7. CASE inode' = [inode EXCEPT ![o].m = Nil]
    <3>1. /\ inode'[o].m = Nil /\ inode'[o].fd = inode[o].fd /\ inode'[o].alive = inode[o].alive
          /\ \A p \in Objects \ {o} : inode'[p] = inode[p]
      BY <2>7 DEF InodesTypeOK, IsInode
    <3> QED BY Zenon, <2>1, <2>2, <2>3, <2>4, <2>5, <3>1, ObjectMutex
  <2> QED BY <1>2, <2>1, <2>6, <2>7, EraseEffect
<1> QED BY <1>1, <1>2

-----------------------------------------------------------------------------
(***************************************************************************)
(* The look-ups.                                                           *)
(***************************************************************************)
Leaked(o) == IF inode[o].fd = "gone" THEN 1 ELSE 0

LEMMA TermsType ==
    ASSUME InodesTypeOK, NEW t \in LoopThreads, NEW o \in Objects
    PROVE  /\ Leaked(o) \in Int /\ inode[o].nlookup \in Int /\ kcount[o] \in Nat /\ Owed(t, o) \in Nat
           /\ AtHand(t, o) \in Nat /\ Listed(t, o) \in {0, 1} /\ Owed(t, o) = AtHand(t, o) + Listed(t, o)
<1>1. Leaked(o) \in Int /\ inode[o].nlookup \in Int /\ kcount[o] \in Nat
  BY DEF Leaked, InodesTypeOK, IsInode
<1>2. Owed(t, o) = AtHand(t, o) + Listed(t, o)
  BY DEF Owed
<1> QED BY <1>1, <1>2, OwedType

LEMMA LookupsFrom ==
    ASSUME InodesTypeOK, InodesTypeOK', LookupsInv, NEW t \in LoopThreads, OthersKept(t),
           \A o \in Objects : inode'[o].nlookup - Leaked(o)' - Owed(t, o)' - kcount'[o]
                                >= inode[o].nlookup - Leaked(o) - Owed(t, o) - kcount[o]
    PROVE  LookupsInv'
<1> SUFFICES ASSUME NEW o \in Objects
             PROVE  inode'[o].nlookup >= Total(Due(o)') + Leaked(o)'
  BY DEF LookupsInv, Leaked
<1>1. Total(Due(o)') = Total(Due(o)) - Owed(t, o) + Owed(t, o)' - kcount[o] + kcount'[o]
  BY Zenon, Balance
<1>2. inode[o].nlookup >= Total(Due(o)) + Leaked(o)
  BY DEF LookupsInv, Leaked
<1>3. /\ inode[o].nlookup \in Int /\ inode'[o].nlookup \in Int /\ kcount[o] \in Int /\ kcount'[o] \in Int
      /\ Leaked(o) \in Int /\ Leaked(o)' \in Int
  BY DEF InodesTypeOK, IsInode, Leaked
<1>4. Owed(t, o) \in Nat /\ Total(Due(o)) \in Nat
  BY Zenon, OwedType, DueParts
<1>5. Owed(t, o)' \in Nat
  BY Zenon, OwedTypeNext
<1> QED BY <1>1, <1>2, <1>3, <1>4, <1>5

LEMMA StartLookups ==
    ASSUME InodesTypeOK, InodesTypeOK', LookupsInv, NEW t \in LoopThreads,
           StartLookup(t) \/ StartCreate(t) \/ StartReaddir(t) \/ StartForget(t) \/ StartOpen(t)
    PROVE  LookupsInv'
<1>1. OthersKept(t) /\ inode' = inode /\ thr[t] = Idle /\ thr'[t].got = {}
  BY Zenon, StartEffect
<1>2. \A o \in Objects : Owed(t, o) = 0
  BY <1>1, IdleIs DEF Owed, AtHand, Listed
<1>3. \A o \in Objects : Leaked(o)' = Leaked(o) /\ Leaked(o) \in Int /\ inode[o].nlookup \in Int /\ kcount[o] \in Nat
  BY <1>1 DEF Leaked, InodesTypeOK, IsInode
<1>4. CASE thr'[t].pc \in {"find", "next"} /\ UNCHANGED <<kcount, opens>>
  <2>1. \A o \in Objects : AtHand(t, o)' = 0 /\ Listed(t, o)' = 0
    BY Zenon, <1>1, <1>4 DEF AtHand, Listed
  <2>2. \A o \in Objects : Owed(t, o)' = 0
    BY <2>1 DEF Owed
  <2> QED BY <1>1, <1>2, <1>3, <1>4, <2>2, LookupsFrom
<1>5. ASSUME NEW o \in Objects, thr'[t].pc = "forget", thr'[t].o = o, thr'[t].i = kcount[o], kcount' = [kcount EXCEPT ![o] = 0]
      PROVE  LookupsInv'
  <2>1. Owed(t, o)' = kcount[o] /\ \A p \in Objects \ {o} : Owed(t, p)' = 0
    BY <1>1, <1>3, <1>5 DEF Owed, AtHand, Listed
  <2>2. kcount'[o] = 0 /\ \A p \in Objects \ {o} : kcount'[p] = kcount[p]
    BY Zenon, <1>5 DEF InodesTypeOK
  <2> QED BY <1>1, <1>2, <1>3, <2>1, <2>2, LookupsFrom
<1>6. ASSUME NEW o \in Objects, thr'[t].pc = "nopen", UNCHANGED kcount PROVE LookupsInv'
  <2>1. \A p \in Objects : Owed(t, p)' = 0
    BY <1>1, <1>6 DEF Owed, AtHand, Listed
  <2> QED BY <1>1, <1>2, <1>3, <1>6, <2>1, LookupsFrom
<1> QED BY Zenon, <1>4, <1>5, <1>6, StartEffect

LEMMA FindLookups ==
    ASSUME InodesTypeOK, InodesTypeOK', FreshInv, LookupsInv, NEW t \in LoopThreads, FindInode(t) \/ CountLookup(t) \/ FillInode(t)
    PROVE  LookupsInv'
<1>0. \A o \in Objects : Leaked(o) \in Int /\ inode[o].nlookup \in Int /\ kcount[o] \in Nat /\ Owed(t, o) \in Nat
  BY TermsType
<1>1. CASE FindInode(t)
  <2>1. OthersKept(t) /\ kcount' = kcount /\ thr[t].pc = "find" /\ thr'[t].got = thr[t].got /\ thr'[t].pc \in {"count", "fill"}
    BY Zenon, <1>1, FindEffect
  <2>2. \A o \in Objects : Owed(t, o)' = Owed(t, o)
    BY Zenon, <2>1 DEF Owed, AtHand, Listed
  <2>3. CASE UNCHANGED inode
    BY <1>0, <2>1, <2>2, <2>3, LookupsFrom DEF Leaked
  <2>4. ASSUME NEW o \in Objects, ~inode[o].alive, inode' = [inode EXCEPT ![o] = NewInode] PROVE LookupsInv'
    <3>1. inode[o].nlookup = 0 /\ Leaked(o) = 0
      BY <2>4 DEF FreshInv, Freed, NewInode, Leaked
    <3>2. inode'[o].nlookup = 0 /\ Leaked(o)' = 0
      BY <2>4 DEF NewInode, Leaked, InodesTypeOK
    <3>3. \A p \in Objects \ {o} : inode'[p].nlookup = inode[p].nlookup /\ Leaked(p)' = Leaked(p)
      BY Zenon, <2>4 DEF Leaked, InodesTypeOK
    <3> QED BY <1>0, <2>1, <2>2, <3>1, <3>2, <3>3, LookupsFrom
  <2> QED BY <1>1, <2>3, <2>4, FindEffect
<1>2. CASE CountLookup(t)
  <2>1. PICK o \in Objects : o = thr[t].o
    BY Zenon, <1>2, CountEffect DEF InodesTypeOK, IsThread, ObjectPcs
  <2>2. OthersKept(t) /\ kcount' = kcount /\ thr[t].pc = "count" /\ Moved(t, "attr") /\ inode' = [inode EXCEPT ![o].nlookup = @ + 1]
    BY <1>2, <2>1, CountEffect
  <2>3. Owed(t, o)' = Owed(t, o) + 1 /\ \A p \in Objects \ {o} : Owed(t, p)' = Owed(t, p)
    <3>1. \A p \in Objects : Listed(t, p)' = Listed(t, p) /\ Listed(t, p) \in {0, 1}
      BY <2>2 DEF Listed, Moved
    <3>2. AtHand(t, o)' = 1 /\ AtHand(t, o) = 0 /\ \A p \in Objects \ {o} : AtHand(t, p)' = 0 /\ AtHand(t, p) = 0
      BY <2>1, <2>2 DEF AtHand, Moved
    <3> QED BY <3>1, <3>2 DEF Owed
  <2>4. /\ inode'[o].nlookup = inode[o].nlookup + 1 /\ Leaked(o)' = Leaked(o)
        /\ \A p \in Objects \ {o} : inode'[p].nlookup = inode[p].nlookup /\ Leaked(p)' = Leaked(p)
    BY <2>2 DEF Leaked, InodesTypeOK, IsInode
  <2> QED BY <1>0, <2>2, <2>3, <2>4, LookupsFrom
<1>3. CASE FillInode(t)
  <2>1. PICK o \in Objects : o = thr[t].o
    BY Zenon, <1>3, FillEffect DEF InodesTypeOK, IsThread, ObjectPcs
  <2>2. /\ OthersKept(t) /\ kcount' = kcount /\ thr[t].pc = "fill" /\ Moved(t, "attr")
        /\ inode' = [inode EXCEPT ![o] = FilledIn(inode[o], thr[t].n, thr[t].i)]
    BY Zenon, <1>3, <2>1, FillEffect
  <2>3. Owed(t, o)' = Owed(t, o) + 1 /\ \A p \in Objects \ {o} : Owed(t, p)' = Owed(t, p)
    <3>1. \A p \in Objects : Listed(t, p)' = Listed(t, p) /\ Listed(t, p) \in {0, 1}
      BY Zenon, <2>2 DEF Listed, Moved
    <3>2. AtHand(t, o)' = 1 /\ AtHand(t, o) = 0 /\ \A p \in Objects \ {o} : AtHand(t, p)' = 0 /\ AtHand(t, p) = 0
      BY Zenon, <2>1, <2>2 DEF AtHand, Moved
    <3> QED BY <3>1, <3>2 DEF Owed
  <2>4. /\ inode'[o].nlookup = inode[o].nlookup + 1 /\ Leaked(o)' = 0 /\ Leaked(o) \in Nat
        /\ \A p \in Objects \ {o} : inode'[p].nlookup = inode[p].nlookup /\ Leaked(p)' = Leaked(p)
    BY <2>2 DEF Leaked, InodesTypeOK, IsInode, FilledIn
  <2> QED BY <1>0, <2>2, <2>3, <2>4, LookupsFrom
<1> QED BY <1>1, <1>2, <1>3

LEMMA DoneLookups ==
    ASSUME InodesTypeOK, InodesTypeOK', LookupsInv, NEW t \in LoopThreads, LookupDone(t)
    PROVE  LookupsInv'
<1>0. \A o \in Objects : /\ Leaked(o) \in Int /\ inode[o].nlookup \in Int /\ kcount[o] \in Nat /\ Owed(t, o) \in Nat
                         /\ AtHand(t, o) \in Nat /\ Listed(t, o) \in {0, 1} /\ Owed(t, o) = AtHand(t, o) + Listed(t, o)
  BY TermsType
<1>1. PICK o \in Objects : o = thr[t].o
  BY Zenon, DoneEffect DEF InodesTypeOK, IsThread, ObjectPcs
<1>2. /\ thr[t].pc = "attr" /\ OthersKept(t)
      /\ \/ inode' = [inode EXCEPT ![o] = WithIdAttr(inode[o])]
         \/ inode' = [inode EXCEPT ![o] = [WithIdAttr(inode[o]) EXCEPT !.nopen = @ + 1]]
  BY <1>1, DoneEffect
<1>3. \A p \in Objects : inode'[p].nlookup = inode[p].nlookup /\ Leaked(p)' = Leaked(p)
  BY <1>2 DEF WithIdAttr, Leaked, InodesTypeOK, IsInode
<1>4. AtHand(t, o) = 1 /\ \A p \in Objects \ {o} : AtHand(t, p) = 0
  BY <1>1, <1>2 DEF AtHand
<1>5. CASE (Moved(t, "release") \/ Moved(t, "unlink") \/ Moved(t, "entry")) /\ UNCHANGED <<kcount, opens>>
  <2>1. \A p \in Objects : Listed(t, p)' = Listed(t, p)
    BY <1>5 DEF Listed, Moved
  <2>2. AtHand(t, o)' \in {0, 1} /\ \A p \in Objects \ {o} : AtHand(t, p)' = 0
    BY <1>1, <1>5 DEF AtHand, Moved
  <2>3. \A p \in Objects : Owed(t, p)' <= Owed(t, p) /\ Owed(t, p)' \in Nat
    BY <1>0, <1>4, <2>1, <2>2 DEF Owed
  <2> QED BY <1>0, <1>2, <1>3, <1>5, <2>3, LookupsFrom
<1>6. CASE thr'[t] = Idle /\ kcount' = [kcount EXCEPT ![o] = @ + 1]
  <2>1. \A p \in Objects : Owed(t, p)' = 0
    BY <1>6, IdleIs DEF Listed, AtHand, Owed
  <2>2. kcount'[o] = kcount[o] + 1 /\ \A p \in Objects \ {o} : kcount'[p] = kcount[p]
    BY <1>6 DEF InodesTypeOK
  <2> QED BY <1>0, <1>2, <1>3, <1>4, <2>1, <2>2, LookupsFrom
<1> QED BY Zenon, <1>1, <1>5, <1>6, DoneEffect

LEMMA ReaddirLookups ==
    ASSUME InodesTypeOK, InodesTypeOK', LookupsInv, NEW t \in LoopThreads, ReaddirNext(t) \/ ReaddirEntry(t)
    PROVE  LookupsInv'
<1>0. \A o \in Objects : /\ Leaked(o) \in Int /\ inode[o].nlookup \in Int /\ kcount[o] \in Nat /\ Owed(t, o) \in Nat
                         /\ AtHand(t, o) \in Nat /\ Listed(t, o) \in {0, 1} /\ Owed(t, o) = AtHand(t, o) + Listed(t, o)
  BY TermsType
<1>1. CASE ReaddirNext(t)
  <2>1. thr[t].pc = "next" /\ OthersKept(t) /\ inode' = inode
    BY <1>1, ReaddirEffect
  <2>2. \A o \in Objects : Leaked(o)' = Leaked(o) /\ AtHand(t, o) = 0
    BY <2>1 DEF Leaked, AtHand
  <2>3. CASE Moved(t, "find") /\ UNCHANGED kcount
    <3>1. \A o \in Objects : Listed(t, o)' = Listed(t, o) /\ AtHand(t, o)' = 0
      BY <2>3 DEF Moved, Listed, AtHand
    <3>2. \A o \in Objects : Owed(t, o)' = Owed(t, o)
      BY Zenon, <1>0, <2>2, <3>1 DEF Owed
    <3> QED BY <1>0, <2>1, <2>2, <2>3, <3>2, LookupsFrom
  <2>4. CASE thr'[t] = Idle /\ kcount' = [o \in Objects |-> IF o \in thr[t].got THEN kcount[o] + 1 ELSE kcount[o]]
    <3>1. \A o \in Objects : Owed(t, o)' = 0
      BY <2>4, IdleIs DEF Owed, Listed, AtHand
    <3>2. \A o \in Objects : kcount'[o] = kcount[o] + Listed(t, o)
      BY <1>0, <2>4 DEF Listed
    <3> QED BY <1>0, <2>1, <2>2, <3>1, <3>2, LookupsFrom
  <2> QED BY <1>1, <2>3, <2>4, ReaddirEffect
<1>2. CASE ReaddirEntry(t)
  <2>1. PICK o \in Objects : o = thr[t].o
    BY Zenon, <1>2, EntryEffect DEF InodesTypeOK, IsThread, ObjectPcs
  <2>2. thr[t].pc = "entry" /\ OthersKept(t) /\ inode' = inode /\ kcount' = kcount /\ thr'[t].o = o
    BY Zenon, <1>2, <2>1, EntryEffect
  <2>3. \A p \in Objects : Leaked(p)' = Leaked(p)
    BY <2>2 DEF Leaked
  <2>4. AtHand(t, o) = 1 /\ \A p \in Objects \ {o} : AtHand(t, p) = 0
    BY <2>1, <2>2 DEF AtHand
  <2>5. CASE thr'[t].pc = "next" /\ thr'[t].got = thr[t].got \cup {o}
    <3>1. \A p \in Objects : AtHand(t, p)' = 0
      BY <2>5 DEF AtHand
    <3>2. Listed(t, o)' = 1 /\ \A p \in Objects \ {o} : Listed(t, p)' = Listed(t, p)
      BY <2>5 DEF Listed
    <3>3. \A p \in Objects : Owed(t, p)' <= Owed(t, p) /\ Owed(t, p)' \in Nat
      BY <1>0, <2>4, <3>1, <3>2 DEF Owed
    <3> QED BY <1>0, <2>2, <2>3, <3>3, LookupsFrom
  <2>6. CASE thr'[t].pc = "forget" /\ thr'[t].got = thr[t].got /\ thr'[t].i = 1
    <3>1. AtHand(t, o)' = 1 /\ \A p \in Objects \ {o} : AtHand(t, p)' = 0
      BY Zenon, <2>2, <2>6 DEF AtHand
    <3>2. \A p \in Objects : Listed(t, p)' = Listed(t, p)
      BY <2>6 DEF Listed
    <3>3. \A p \in Objects : Owed(t, p)' = Owed(t, p)
      BY <1>0, <2>4, <3>1, <3>2 DEF Owed
    <3> QED BY <1>0, <2>2, <2>3, <3>3, LookupsFrom
  <2> QED BY <1>2, <2>1, <2>5, <2>6, EntryEffect
<1> QED BY <1>1, <1>2

LEMMA UnlinkLookups ==
    ASSUME InodesTypeOK, InodesTypeOK', MutexInv, LookupsInv, NEW t \in LoopThreads,
           ReleaseInode(t) \/ CloseInode(t) \/ UnlinkName(t) \/ CountOpen(t)
    PROVE  LookupsInv'
<1>0. \A o \in Objects : /\ Leaked(o) \in Int /\ inode[o].nlookup \in Int /\ kcount[o] \in Nat /\ Owed(t, o) \in Nat
                         /\ AtHand(t, o) \in Nat /\ Listed(t, o) \in {0, 1} /\ Owed(t, o) = AtHand(t, o) + Listed(t, o)
  BY Zenon, TermsType
<1>1. CASE ReleaseInode(t)
  <2>1. PICK o \in Objects : o = thr[t].o
    BY Zenon, <1>1, ReleaseEffect DEF InodesTypeOK, IsThread, ObjectPcs
  <2>2. /\ thr[t].pc = "release" /\ OthersKept(t) /\ kcount' = kcount /\ (Moved(t, "close") \/ Moved(t, "unlink"))
        /\ (inode' = inode \/ inode' = [inode EXCEPT ![o].m = t])
    BY <1>1, <2>1, ReleaseEffect
  <2>3. \A p \in Objects : inode'[p].nlookup = inode[p].nlookup /\ Leaked(p)' = Leaked(p)
    BY <2>2 DEF Leaked, InodesTypeOK, IsInode
  <2>4. AtHand(t, o) = 1 /\ \A p \in Objects \ {o} : AtHand(t, p) = 0
    BY <2>1, <2>2 DEF AtHand
  <2>5. AtHand(t, o)' \in {0, 1} /\ \A p \in Objects \ {o} : AtHand(t, p)' = 0
    BY <2>1, <2>2 DEF AtHand, Moved
  <2>6. \A p \in Objects : Listed(t, p)' = Listed(t, p)
    BY <2>2 DEF Listed, Moved
  <2>7. \A p \in Objects : Owed(t, p)' <= Owed(t, p) /\ Owed(t, p)' \in Nat
    BY <1>0, <2>4, <2>5, <2>6 DEF Owed
  <2> QED BY <1>0, <2>2, <2>3, <2>7, LookupsFrom
<1>2. CASE CloseInode(t)
  <2>1. PICK o \in Objects : o = thr[t].o
    BY Zenon, <1>2, CloseEffect DEF InodesTypeOK, IsThread, ObjectPcs
  <2>2. /\ thr[t].pc = "close" /\ OthersKept(t) /\ kcount' = kcount /\ Moved(t, "unlink")
        /\ inode' = [inode EXCEPT ![o] = Released(inode[o])]
    BY Zenon, <1>2, <2>1, CloseEffect
  <2>3. \A p \in Objects : inode'[p].nlookup = inode[p].nlookup
    BY <2>2 DEF Released, InodesTypeOK, IsInode
  <2>4. Leaked(o) = 0 /\ Leaked(o)' = 1 /\ \A p \in Objects \ {o} : Leaked(p)' = Leaked(p)
    BY <2>1, <2>2 DEF Leaked, Released, InodesTypeOK, IsInode, MutexInv
  <2>5. AtHand(t, o) = 1 /\ \A p \in Objects \ {o} : AtHand(t, p) = 0
    BY <2>1, <2>2 DEF AtHand
  <2>6. \A p \in Objects : AtHand(t, p)' = 0 /\ Listed(t, p)' = Listed(t, p)
    BY Zenon, <2>2 DEF AtHand, Listed, Moved
  <2>7. Owed(t, o)' = Owed(t, o) - 1 /\ \A p \in Objects \ {o} : Owed(t, p)' = Owed(t, p)
    BY <1>0, <2>5, <2>6 DEF Owed
  <2> QED BY <1>0, <2>2, <2>3, <2>4, <2>7, LookupsFrom
<1>3. CASE UnlinkName(t)
  <2>1. OthersKept(t) /\ kcount' = kcount /\ inode' = inode /\ thr'[t] = Idle
    BY <1>3, UnlinkEffect
  <2>2. \A p \in Objects : Owed(t, p)' = 0 /\ Leaked(p)' = Leaked(p)
    BY <2>1, IdleIs DEF Owed, AtHand, Listed, Leaked
  <2> QED BY <1>0, <2>1, <2>2, LookupsFrom
<1>4. CASE CountOpen(t)
  <2>1. PICK o \in Objects : o = thr[t].o
    BY Zenon, <1>4, OpenEffect DEF InodesTypeOK, IsThread, ObjectPcs
  <2>2. /\ OthersKept(t) /\ kcount' = kcount /\ thr'[t] = Idle
        /\ (inode' = [inode EXCEPT ![o].nopen = @ + 1] \/ inode' = [inode EXCEPT ![o].nopen = @ + -1])
    BY <1>4, <2>1, OpenEffect
  <2>3. \A p \in Objects : inode'[p].nlookup = inode[p].nlookup /\ Leaked(p)' = Leaked(p)
    BY <2>2 DEF Leaked, InodesTypeOK, IsInode
  <2>4. \A p \in Objects : Owed(t, p)' = 0
    BY <2>2, IdleIs DEF Owed, AtHand, Listed
  <2> QED BY <1>0, <2>2, <2>3, <2>4, LookupsFrom
<1> QED BY <1>1, <1>2, <1>3, <1>4

LEMMA ForgetStepLookups ==
    ASSUME InodesTypeOK, InodesTypeOK', MutexInv, LookupsInv, NEW t \in LoopThreads, ForgetLookups(t) \/ EraseInode(t)
    PROVE  LookupsInv'
<1>0. \A o \in Objects : /\ Leaked(o) \in Int /\ inode[o].nlookup \in Int /\ kcount[o] \in Nat /\ Owed(t, o) \in Nat
                         /\ AtHand(t, o) \in Nat /\ Listed(t, o) \in {0, 1} /\ Owed(t, o) = AtHand(t, o) + Listed(t, o)
  BY TermsType
<1>1. CASE ForgetLookups(t)
  <2>1. PICK o \in Objects : o = thr[t].o
    BY Zenon, <1>1, ForgetEffect DEF InodesTypeOK, IsThread, ObjectPcs
  <2>2. PICK i \in Nat : i = thr[t].i
    BY Zenon, <1>1, ForgetEffect DEF InodesTypeOK, IsThread
  <2>3. /\ thr[t].pc = "forget" /\ OthersKept(t) /\ kcount' = kcount
        /\ thr'[t].pc \in {"erase", "idle", "next"} /\ thr'[t].got \subseteq thr[t].got
        /\ \/ inode' = [inode EXCEPT ![o] = [inode[o] EXCEPT !.nlookup = @ - i, !.m = t]]
           \/ inode' = [inode EXCEPT ![o] = [inode[o] EXCEPT !.nlookup = @ - i]]
    BY Zenon, <1>1, <2>1, <2>2, ForgetEffect DEF Moved
  <2>4. /\ inode'[o].nlookup = inode[o].nlookup - i /\ Leaked(o)' = Leaked(o)
        /\ \A p \in Objects \ {o} : inode'[p].nlookup = inode[p].nlookup /\ Leaked(p)' = Leaked(p)
    <3>1. CASE inode' = [inode EXCEPT ![o] = [inode[o] EXCEPT !.nlookup = @ - i, !.m = t]]
      BY <3>1 DEF Leaked, InodesTypeOK, IsInode
    <3>2. CASE inode' = [inode EXCEPT ![o] = [inode[o] EXCEPT !.nlookup = @ - i]]
      BY <3>2 DEF Leaked, InodesTypeOK, IsInode
    <3> QED BY <2>3, <3>1, <3>2
  <2>5. AtHand(t, o) = i /\ \A p \in Objects \ {o} : AtHand(t, p) = 0
    BY <2>1, <2>2, <2>3 DEF AtHand
  <2>6. \A p \in Objects : AtHand(t, p)' = 0
    BY <2>3 DEF AtHand
  <2>7. \A p \in Objects : Listed(t, p)' <= Listed(t, p) /\ Listed(t, p)' \in Nat
    BY <2>3 DEF Listed
  <2>8. Owed(t, o)' <= Owed(t, o) - i /\ Owed(t, o)' \in Nat /\ \A p \in Objects \ {o} : Owed(t, p)' <= Owed(t, p) /\ Owed(t, p)' \in Nat
    BY <1>0, <2>5, <2>6, <2>7 DEF Owed
  <2> QED BY <1>0, <2>3, <2>4, <2>8, LookupsFrom
<1>2. CASE EraseInode(t)
  <2>1. PICK o \in Objects : o = thr[t].o
    BY Zenon, <1>2, EraseEffect DEF InodesTypeOK, IsThread, ObjectPcs
  <2>2. /\ thr[t].pc = "erase" /\ OthersKept(t) /\ kcount' = kcount
        /\ thr'[t].pc \in {"idle", "next"} /\ thr'[t].got \subseteq thr[t].got
        /\ (inode' = [inode EXCEPT ![o] = Freed] \/ inode' = [inode EXCEPT ![o].m = Nil])
    BY <1>2, <2>1, EraseEffect
  <2>3. inode[o].nlookup = 0 /\ inode[o].fd = "open"
    BY <2>1, <2>2 DEF MutexInv
  <2>4. \A p \in Objects : inode'[p].nlookup = inode[p].nlookup /\ Leaked(p)' = Leaked(p)
    BY <2>2, <2>3 DEF Leaked, InodesTypeOK, IsInode, Freed, NewInode
  <2>5. \A p \in Objects : AtHand(t, p)' = 0 /\ AtHand(t, p) = 0
    BY <2>2 DEF AtHand
  <2>6. \A p \in Objects : Listed(t, p)' <= Listed(t, p) /\ Listed(t, p)' \in Nat
    BY <2>2 DEF Listed
  <2>7. \A p \in Objects : Owed(t, p)' <= Owed(t, p) /\ Owed(t, p)' \in Nat
    BY <1>0, <2>5, <2>6 DEF Owed
  <2> QED BY <1>0, <2>2, <2>4, <2>7, LookupsFrom
<1> QED BY <1>1, <1>2

-----------------------------------------------------------------------------
LEMMA InodesInitInv == InodesInit => InodesInv
<1> SUFFICES ASSUME InodesInit PROVE InodesInv
  OBVIOUS
<1>1. InodesTypeOK
  BY InodesInitType
<1>2. \A t \in LoopThreads : thr[t].pc = "idle" /\ thr[t].o = Nil /\ thr[t].got = {}
  BY IdleIs DEF InodesInit
<1>3. \A o \in Objects : inode[o] = Freed /\ kcount[o] = 0
  BY DEF InodesInit
<1>4. Freed.m = Nil /\ Freed.nlookup = 0 /\ Freed.fd = "none" /\ ~Freed.alive
  BY DEF Freed, NewInode
<1>5. MutexInv
  BY <1>2, <1>3, <1>4 DEF MutexInv, InodesInit
<1>6. FreshInv
  BY <1>2, <1>3, <1>4 DEF FreshInv
<1>7. LookupsInv
  <2> SUFFICES ASSUME NEW o \in Objects PROVE inode[o].nlookup >= Total(Due(o)) + (IF inode[o].fd = "gone" THEN 1 ELSE 0)
    BY DEF LookupsInv
  <2>1. \A x \in LoopThreads \cup {Nil} : Due(o)[x] = 0
    BY <1>2, <1>3 DEF Due, Owed, AtHand, Listed
  <2>2. Total(Due(o)) = 0
    BY <1>1, <2>1, DueType, TotalZero
  <2> QED BY <2>2, <1>3, <1>4
<1> QED BY <1>1, <1>5, <1>6, <1>7 DEF InodesInv

LEMMA InodesInvStep == InodesInv /\ [InodesNext]_inodeVars => InodesInv'
<1> SUFFICES ASSUME InodesTypeOK, MutexInv, FreshInv, LookupsInv, [InodesNext]_inodeVars PROVE InodesInv'
  BY DEF InodesInv
<1>1. CASE UNCHANGED inodeVars
  <2>1. InodesTypeOK' /\ MutexInv' /\ FreshInv'
    BY Zenon, <1>1 DEF inodeVars, InodesTypeOK, MutexInv, FreshInv
  <2>2. LookupsInv'
    BY Zenon, <1>1 DEF inodeVars, LookupsInv, Due, Owed, AtHand, Listed
  <2> QED BY <2>1, <2>2 DEF InodesInv
<1>2. ASSUME NEW t \in LoopThreads,
             \/ StartLookup(t) \/ StartCreate(t) \/ StartReaddir(t) \/ StartForget(t) \/ StartOpen(t)
             \/ FindInode(t) \/ CountLookup(t) \/ FillInode(t) \/ LookupDone(t)
             \/ ReaddirNext(t) \/ ReaddirEntry(t)
             \/ ReleaseInode(t) \/ CloseInode(t) \/ UnlinkName(t)
             \/ ForgetLookups(t) \/ EraseInode(t) \/ CountOpen(t)
      PROVE  InodesInv'
  <2>1. InodesTypeOK'
    BY <1>2, InodesTypeStep
  <2>2. MutexInv' /\ FreshInv'
    BY <1>2, QuietMutexSteps, LookupMutex, UnlinkMutex, ForgetMutex
  <2>3. LookupsInv'
    BY <1>2, <2>1, StartLookups, FindLookups, DoneLookups, ReaddirLookups, UnlinkLookups, ForgetStepLookups
  <2> QED BY <2>1, <2>2, <2>3 DEF InodesInv
<1> QED BY <1>1, <1>2 DEF InodesNext

\* Until a freed object is used, with any number of threads: nlookup covers the look-ups that the
\* kernel and the handlers hold together, and the two kinds of mutex are held where the code says.
THEOREM InodesInvariance == InodesSpec => []InodesInv
BY InodesInitInv, InodesInvStep, PTL DEF InodesSpec

\* fs.mutex and the mutexes of the Inode objects are taken in both orders (do_lookup takes an
\* object's while it holds the table's, forget_one and sfs_unlink the other way round), and yet
\* no number of threads can wait for each other: an object that do_lookup fills in has no
\* descriptor, the others have one.
THEOREM LocksDoNotCycle == InodesSpec => []NoLockCycle
<1>1. InodesInv => NoLockCycle
  <2> SUFFICES ASSUME InodesInv, NEW t \in LoopThreads, NEW u \in LoopThreads,
                      thr[t].pc = "fill", inode[thr[t].o].m = u, thr[u].pc \in {"close", "erase"}
               PROVE  FALSE
    BY DEF NoLockCycle
  <2>1. thr[t].o \in Objects
    BY DEF InodesInv, InodesTypeOK, IsThread, ObjectPcs
  <2>2. thr[u].o = thr[t].o
    BY <2>1 DEF InodesInv, MutexInv
  <2> QED BY <2>2 DEF InodesInv, MutexInv
<1> QED BY InodesInvariance, <1>1, PTL

-----------------------------------------------------------------------------
(***************************************************************************)
(* The table.                                                              *)
(***************************************************************************)
LEMMA QuietTable ==
    ASSUME TableInv, NEW t \in LoopThreads, OthersKept(t), UNCHANGED inodes, thr'[t].pc # "fill",
           \A o \in Objects : /\ inode'[o].alive = inode[o].alive /\ inode'[o].num = inode[o].num
                              /\ inode'[o].fd # "none" => inode[o].fd # "none"
    PROVE  TableInv'
<1>1. \A u \in LoopThreads : thr'[u].pc = "fill" => thr'[u] = thr[u]
  BY Zenon DEF OthersKept
<1> QED BY Zenon, <1>1 DEF TableInv

LEMMA QuietTableSteps ==
    ASSUME InodesInv, TableInv, NEW t \in LoopThreads,
           \/ StartLookup(t) \/ StartCreate(t) \/ StartReaddir(t) \/ StartForget(t) \/ StartOpen(t)
           \/ CountLookup(t) \/ LookupDone(t) \/ ReaddirNext(t) \/ ReaddirEntry(t)
           \/ ReleaseInode(t) \/ CloseInode(t) \/ UnlinkName(t) \/ ForgetLookups(t) \/ CountOpen(t)
    PROVE  TableInv'
<1> USE DEF InodesInv
<1>1. UNCHANGED inodes
  BY Zenon DEF StartLookup, StartCreate, StartReaddir, StartForget, StartOpen, CountLookup, LookupDone, ReaddirNext, ReaddirEntry,
         ReleaseInode, CloseInode, UnlinkName, ForgetLookups, CountOpen
<1>2. CASE StartLookup(t) \/ StartCreate(t) \/ StartReaddir(t) \/ StartForget(t) \/ StartOpen(t)
  <2>1. OthersKept(t) /\ inode' = inode
    BY Zenon, <1>2, StartEffect
  <2>2. thr'[t].pc # "fill"
    BY Zenon, <1>2, StartEffect
  <2> QED BY Zenon, <1>1, <2>1, <2>2, QuietTable
<1>3. CASE CountLookup(t)
  <2>1. OthersKept(t) /\ thr'[t].pc = "attr" /\ inode' = [inode EXCEPT ![thr[t].o].nlookup = @ + 1]
    BY <1>3, CountEffect DEF Moved
  <2>2. \A o \in Objects : inode'[o].alive = inode[o].alive /\ inode'[o].num = inode[o].num /\ inode'[o].fd = inode[o].fd
    BY <2>1 DEF InodesTypeOK, IsInode
  <2> QED BY <1>1, <2>1, <2>2, QuietTable
<1>4. CASE LookupDone(t)
  <2>1. OthersKept(t) /\ thr'[t].pc # "fill"
    BY Zenon, <1>4, DoneEffect, IdleIs DEF Moved
  <2>2. \/ inode' = [inode EXCEPT ![thr[t].o] = WithIdAttr(inode[thr[t].o])]
        \/ inode' = [inode EXCEPT ![thr[t].o] = [WithIdAttr(inode[thr[t].o]) EXCEPT !.nopen = @ + 1]]
    BY <1>4, DoneEffect
  <2>3. \A o \in Objects : inode'[o].alive = inode[o].alive /\ inode'[o].num = inode[o].num /\ inode'[o].fd = inode[o].fd
    BY <2>2 DEF InodesTypeOK, IsInode, WithIdAttr
  <2> QED BY Zenon, <1>1, <2>1, <2>3, QuietTable
<1>5. CASE ReaddirNext(t)
  <2>1. OthersKept(t) /\ inode' = inode /\ thr'[t].pc # "fill"
    BY Zenon, <1>5, ReaddirEffect, IdleIs DEF Moved
  <2> QED BY Zenon, <1>1, <2>1, QuietTable
<1>6. CASE ReaddirEntry(t)
  <2>1. OthersKept(t) /\ inode' = inode /\ thr'[t].pc # "fill"
    BY <1>6, EntryEffect
  <2> QED BY Zenon, <1>1, <2>1, QuietTable
<1>7. CASE ReleaseInode(t)
  <2>1. OthersKept(t) /\ thr'[t].pc # "fill" /\ (inode' = inode \/ inode' = [inode EXCEPT ![thr[t].o].m = t])
    BY <1>7, ReleaseEffect DEF Moved
  <2>2. \A o \in Objects : inode'[o].alive = inode[o].alive /\ inode'[o].num = inode[o].num /\ inode'[o].fd = inode[o].fd
    BY <2>1 DEF InodesTypeOK, IsInode
  <2> QED BY <1>1, <2>1, <2>2, QuietTable
<1>8. CASE CloseInode(t)
  <2>1. OthersKept(t) /\ thr'[t].pc # "fill" /\ inode' = [inode EXCEPT ![thr[t].o] = Released(inode[thr[t].o])] /\ thr[t].pc = "close"
    BY Zenon, <1>8, CloseEffect DEF Moved
  <2>2. inode[thr[t].o].fd = "open"
    BY Zenon, <2>1 DEF MutexInv
  <2>3. \A o \in Objects : inode'[o].alive = inode[o].alive /\ inode'[o].num = inode[o].num /\ (inode'[o].fd # "none" => inode[o].fd # "none")
    BY <2>1, <2>2 DEF InodesTypeOK, IsInode, Released
  <2> QED BY Zenon, <1>1, <2>1, <2>3, QuietTable
<1>9. CASE UnlinkName(t)
  <2>1. OthersKept(t) /\ inode' = inode /\ thr'[t].pc # "fill"
    BY Zenon, <1>9, UnlinkEffect, IdleIs
  <2> QED BY Zenon, <1>1, <2>1, QuietTable
<1>10. CASE ForgetLookups(t)
  <2>1. OthersKept(t) /\ thr'[t].pc # "fill"
    BY Zenon, <1>10, ForgetEffect DEF Moved
  <2>2. \/ inode' = [inode EXCEPT ![thr[t].o] = [inode[thr[t].o] EXCEPT !.nlookup = @ - thr[t].i, !.m = t]]
        \/ inode' = [inode EXCEPT ![thr[t].o] = [inode[thr[t].o] EXCEPT !.nlookup = @ - thr[t].i]]
    BY Zenon, <1>10, ForgetEffect
  <2>4. thr[t].o \in Objects /\ IsInode(inode[thr[t].o]) /\ DOMAIN inode = Objects
    BY Zenon, <1>10, ForgetEffect DEF InodesTypeOK, IsThread, ObjectPcs
  <2>3. \A o \in Objects : inode'[o].alive = inode[o].alive /\ inode'[o].num = inode[o].num /\ inode'[o].fd = inode[o].fd
    <3>1. CASE inode' = [inode EXCEPT ![thr[t].o] = [inode[thr[t].o] EXCEPT !.nlookup = @ - thr[t].i, !.m = t]]
      BY <2>4, <3>1 DEF IsInode
    <3>2. CASE inode' = [inode EXCEPT ![thr[t].o] = [inode[thr[t].o] EXCEPT !.nlookup = @ - thr[t].i]]
      BY <2>4, <3>2 DEF IsInode
    <3> QED BY <2>2, <3>1, <3>2
  <2> QED BY Zenon, <1>1, <2>1, <2>3, QuietTable
<1>11. CASE CountOpen(t)
  <2>1. /\ OthersKept(t) /\ thr'[t].pc # "fill"
        /\ (inode' = [inode EXCEPT ![thr[t].o].nopen = @ + 1] \/ inode' = [inode EXCEPT ![thr[t].o].nopen = @ + -1])
    BY <1>11, OpenEffect, IdleIs
  <2>2. \A o \in Objects : inode'[o].alive = inode[o].alive /\ inode'[o].num = inode[o].num /\ inode'[o].fd = inode[o].fd
    BY <2>1 DEF InodesTypeOK, IsInode
  <2> QED BY <1>1, <2>1, <2>2, QuietTable
<1> QED BY <1>2, <1>3, <1>4, <1>5, <1>6, <1>7, <1>8, <1>9, <1>10, <1>11

LEMMA FindTable ==
    ASSUME InodesInv, TableInv, NEW t \in LoopThreads, FindInode(t)
    PROVE  TableInv' /\ \A o \in Objects : thr'[t].o = o => inode'[o].alive
<1> USE DEF InodesInv, InodesTypeOK
<1>0. PICK i \in Numbers : i = thr[t].i
  BY DEF FindInode, At, IsThread
<1>1. PICK o \in Objects :
          /\ IF inodes[i] = Nil
             THEN /\ ~inode[o].alive
                  /\ \A x \in LoopThreads : thr[x].o # o
             ELSE o = inodes[i]
          /\ inodes' = [inodes EXCEPT ![i] = o]
          /\ inode' = IF inodes[i] = Nil THEN [inode EXCEPT ![o] = NewInode] ELSE inode
          /\ thr' = [thr EXCEPT ![t].o = o, ![t].pc = IF inode'[o].fd = "open" THEN "count" ELSE "fill"]
  BY Zenon, <1>0 DEF FindInode
<1>2. thr'[t].o = o /\ thr'[t].i = i /\ \A u \in LoopThreads \ {t} : thr'[u] = thr[u]
  BY <1>0, <1>1 DEF IsThread
<1>3. \A u \in LoopThreads : thr[u].pc # "fill"
  BY DEF FindInode, MutexInv
<1>4. \A u \in LoopThreads : thr'[u].pc = "fill" => inodes'[thr'[u].i] = thr'[u].o
  BY <1>1, <1>2, <1>3
<1>5. CASE inodes[i] = Nil
  <2>1. /\ \A j \in Numbers : inodes[j] # o
        /\ inodes'[i] = o /\ \A j \in Numbers \ {i} : inodes'[j] = inodes[j]
        /\ inode'[o] = NewInode /\ \A p \in Objects \ {o} : inode'[p] = inode[p]
    BY <1>1, <1>5 DEF TableInv
  <2>2. NewInode.alive /\ NewInode.fd = "none"
    BY DEF NewInode
  <2> QED BY <1>2, <1>4, <2>1, <2>2 DEF TableInv
<1>6. CASE inodes[i] # Nil
  <2>1. inodes' = inodes /\ inode' = inode /\ inodes[i] = o
    BY <1>1, <1>6
  <2> QED BY <1>2, <1>4, <2>1 DEF TableInv
<1> QED BY <1>5, <1>6

LEMMA FillTable ==
    ASSUME InodesInv, TableInv, NEW t \in LoopThreads, FillInode(t)
    PROVE  TableInv'
<1> USE DEF InodesInv, InodesTypeOK
<1>1. PICK o \in Objects : o = thr[t].o
  BY Zenon, FillEffect DEF IsThread, ObjectPcs
<1>2. PICK i \in Numbers : i = thr[t].i
  BY Zenon, FillEffect DEF IsThread
<1>3. /\ thr[t].pc = "fill" /\ OthersKept(t) /\ thr'[t].pc = "attr"
      /\ inode' = [inode EXCEPT ![o] = FilledIn(inode[o], thr[t].n, i)]
  BY Zenon, <1>1, <1>2, FillEffect DEF Moved
<1>4. inodes[i] = o /\ inodes' = inodes
  BY Zenon, <1>1, <1>2, <1>3 DEF TableInv, FillInode
<1>5. inode'[o].num = i /\ inode'[o].alive = inode[o].alive /\ \A p \in Objects \ {o} : inode'[p] = inode[p]
  BY <1>3 DEF FilledIn, IsInode
<1>6. \A u \in LoopThreads : thr'[u].pc = "fill" => thr'[u] = thr[u]
  BY Zenon, <1>3 DEF OthersKept
<1> QED BY <1>4, <1>5, <1>6 DEF TableInv

LEMMA EraseTable ==
    ASSUME InodesInv, TableInv, NEW t \in LoopThreads, EraseInode(t)
    PROVE  TableInv'
<1> USE DEF InodesInv, InodesTypeOK
<1>1. PICK o \in Objects : o = thr[t].o
  BY Zenon, EraseEffect DEF IsThread, ObjectPcs
<1>2. thr[t].pc = "erase" /\ OthersKept(t) /\ thr'[t].pc # "fill" /\ fsmutex = Nil
  BY Zenon, EraseEffect
<1>3. inode[o].fd = "open"
  BY Zenon, <1>1, <1>2 DEF MutexInv
<1>4. \A u \in LoopThreads : thr'[u].pc # "fill"
  BY <1>2 DEF OthersKept, MutexInv
<1>5. CASE inode' = [inode EXCEPT ![o] = Freed] /\ inodes' = [inodes EXCEPT ![inode[o].num] = Nil]
  <2>1. \A j \in Numbers : inodes'[j] # o /\ \A p \in Objects : inodes'[j] = p => inodes[j] = p
    BY <1>3, <1>5 DEF TableInv
  <2>2. \A p \in Objects \ {o} : inode'[p] = inode[p]
    BY <1>5
  <2>3. \A i \in Numbers, p \in Objects : inodes'[i] = p => inodes[i] = p /\ inode'[p] = inode[p]
    BY <2>1, <2>2
  <2>4. \A i \in Numbers, p \in Objects : inodes'[i] = p => inode'[p].alive /\ (inode'[p].fd # "none" => inode'[p].num = i)
    BY <2>3 DEF TableInv
  <2>5. \A i, j \in Numbers, p \in Objects : inodes'[i] = p /\ inodes'[j] = p => i = j
    BY <2>3 DEF TableInv
  <2> QED BY Zenon, <1>4, <2>4, <2>5 DEF TableInv
<1>6. CASE inode' = [inode EXCEPT ![o].m = Nil] /\ inodes' = inodes
  <2>1. \A p \in Objects : inode'[p].alive = inode[p].alive /\ inode'[p].num = inode[p].num /\ inode'[p].fd = inode[p].fd
    BY <1>6 DEF IsInode
  <2> QED BY <1>2, <1>6, <2>1, QuietTable
<1> QED BY <1>1, <1>5, <1>6 DEF EraseInode

-----------------------------------------------------------------------------
(***************************************************************************)
(* With one thread.                                                        *)
(***************************************************************************)
LEMMA OneFrom ==
    ASSUME NEW t \in LoopThreads, \A u \in LoopThreads \ {t} : thr'[u] = Idle,
           ThreadFits(t)', \A o \in Objects : OpensFit(o)'
    PROVE  OneInv'
<1>1. \A u \in LoopThreads \ {t} : thr'[u].pc = "idle" /\ thr'[u].o = Nil
  BY IdleIs
<1>2. \A u \in LoopThreads \ {t} : ThreadFits(u)'
  BY <1>1 DEF ThreadFits
<1> QED BY <1>1, <1>2 DEF OneInv

LEMMA OthersIdle ==
    ASSUME InodesTypeOK, OneInv, NEW t \in LoopThreads, OthersKept(t), thr[t].pc # "idle"
    PROVE  \A u \in LoopThreads \ {t} : thr'[u] = Idle
BY DEF OneInv, InodesTypeOK, IsThread, OthersKept

LEMMA StartOne ==
    ASSUME InodesInv, InodesTypeOK', OneInv, single, NEW t \in LoopThreads,
           StartLookup(t) \/ StartCreate(t) \/ StartReaddir(t) \/ StartForget(t) \/ StartOpen(t)
    PROVE  OneInv'
<1>1. OthersKept(t) /\ inode' = inode /\ Busy = {}
  BY Zenon, StartEffect DEF InodesInv
<1>2. \A u \in LoopThreads \ {t} : thr'[u] = Idle
  BY Zenon, <1>1 DEF OthersKept, Busy, InodesInv, InodesTypeOK, IsThread
<1>3. \A o \in Objects : OpensFit(o) /\ opens[o] \in Nat /\ kcount[o] \in Nat /\ inode[o].nopen \in Int
  BY Zenon DEF OneInv, InodesInv, InodesTypeOK, IsInode
<1>4. \A o \in Objects : kcount[o] > 0 => inode[o].alive
  <2>1. \A o \in Objects : kcount[o] > 0 => inode[o].fd # "none"
    BY OwedCounted DEF InodesInv
  <2>2. Freed.fd = "none"
    BY DEF Freed, NewInode
  <2> QED BY Zenon, <2>1, <2>2 DEF InodesInv, FreshInv
<1>5. CASE thr'[t].pc \in {"find", "next"} /\ thr'[t].o = Nil /\ UNCHANGED <<kcount, opens>>
  <2>1. ThreadFits(t)'
    BY <1>5 DEF ThreadFits
  <2>2. \A o \in Objects : OpensFit(o)'
    BY <1>1, <1>3, <1>5 DEF OpensFit
  <2> QED BY <1>2, <2>1, <2>2, OneFrom
<1>6. ASSUME NEW o \in Objects, thr'[t].pc = "forget", thr'[t].o = o, kcount[o] > 0, opens[o] = 0,
             kcount' = [kcount EXCEPT ![o] = 0], UNCHANGED opens
      PROVE  OneInv'
  <2>1. ThreadFits(t)'
    BY <1>1, <1>4, <1>6 DEF ThreadFits
  <2>2. \A p \in Objects : OpensFit(p)'
    BY Zenon, <1>1, <1>3, <1>6 DEF OpensFit, InodesInv, InodesTypeOK
  <2> QED BY <1>2, <2>1, <2>2, OneFrom
<1>7. ASSUME NEW o \in Objects, thr'[t].pc = "nopen", thr'[t].o = o, kcount[o] > 0, UNCHANGED kcount,
             \/ thr'[t].op = "open" /\ inode[o].fd = "open" /\ UNCHANGED opens
             \/ thr'[t].op = "release" /\ opens[o] > 0 /\ opens' = [opens EXCEPT ![o] = @ - 1]
      PROVE  OneInv'
  <2>1. ThreadFits(t)'
    BY <1>1, <1>3, <1>4, <1>7 DEF ThreadFits, OpensFit, InodesInv, InodesTypeOK
  <2>2. \A p \in Objects : OpensFit(p)'
    BY <1>1, <1>3, <1>7 DEF OpensFit, InodesInv, InodesTypeOK
  <2> QED BY <1>2, <2>1, <2>2, OneFrom
<1> QED
  <2>1. InodesTypeOK
    BY DEF InodesInv
  <2> QED BY Zenon, <1>5, <1>6, <1>7, <2>1, StartEffect

\* What the handler's thread knows with one thread.
LEMMA OneKnows ==
    ASSUME InodesInv, OneInv, NEW t \in LoopThreads
    PROVE  /\ ThreadFits(t)
           /\ \A o \in Objects : OpensFit(o) /\ opens[o] \in Nat /\ kcount[o] \in Nat /\ inode[o].nopen \in Int
           /\ thr[t].pc \in ObjectPcs => thr[t].o \in Objects
           /\ DOMAIN inode = Objects /\ \A o \in Objects : IsInode(inode[o])
           /\ kcount \in [Objects -> Nat] /\ opens \in [Objects -> Nat]
BY Zenon DEF OneInv, InodesInv, InodesTypeOK, IsInode, IsThread

LEMMA FindOne ==
    ASSUME InodesInv, TableInv, OneInv, NEW t \in LoopThreads, FindInode(t)
    PROVE  OneInv'
<1>0. InodesTypeOK
  BY DEF InodesInv
<1>1. OthersKept(t) /\ UNCHANGED <<kcount, opens>> /\ thr[t].pc = "find"
  BY <1>0, FindEffect
<1>2. \A u \in LoopThreads \ {t} : thr'[u] = Idle
  BY Zenon, <1>0, <1>1, OthersIdle
<1>3. PICK o \in Objects :
          /\ thr'[t].o = o
          /\ \/ UNCHANGED inode
             \/ ~inode[o].alive /\ opens[o] = 0 /\ inode' = [inode EXCEPT ![o] = NewInode]
          /\ \/ inode'[o].fd = "open" /\ thr'[t].pc = "count"
             \/ inode'[o].fd # "open" /\ thr'[t].pc = "fill"
  <2> HIDE DEF FindInode
  <2> QED BY <1>0, FindEffect
<1>4. inode'[o].alive
  BY <1>3, FindTable
<1>5. ThreadFits(t)'
  BY Zenon, <1>3, <1>4 DEF ThreadFits
<1>6. ASSUME NEW p \in Objects PROVE OpensFit(p)'
  <2>1. CASE UNCHANGED inode
    BY <1>1, <2>1, OneKnows DEF OpensFit
  <2>2. CASE opens[o] = 0 /\ inode' = [inode EXCEPT ![o] = NewInode]
    <3>1. CASE p = o
      <4>1. opens'[p] = 0 /\ inode'[p].nopen = 0
        BY Zenon, <1>1, <2>2, <3>1, OneKnows DEF NewInode
      <4> QED BY <4>1 DEF OpensFit
    <3>2. CASE p # o
      BY Zenon, <1>1, <2>2, <3>2, OneKnows DEF OpensFit
    <3> QED BY <3>1, <3>2
  <2> QED BY <1>3, <2>1, <2>2
<1> QED BY <1>2, <1>5, <1>6, OneFrom

\* The steps that change the look-ups, the key or the mutex of the object at hand.
LEMMA OpensKept ==
    ASSUME InodesInv, OneInv, NEW t \in LoopThreads, UNCHANGED <<kcount, opens>>,
           \A o \in Objects : /\ inode'[o].nopen = inode[o].nopen
                              /\ inode[o].fd = "open" => inode'[o].fd = "open"
    PROVE  \A o \in Objects : OpensFit(o)'
BY OneKnows DEF OpensFit

LEMMA CountOne ==
    ASSUME InodesInv, OneInv, NEW t \in LoopThreads, CountLookup(t) \/ FillInode(t)
    PROVE  OneInv'
<1>0. InodesTypeOK
  BY DEF InodesInv
<1>1. /\ OthersKept(t) /\ UNCHANGED <<kcount, opens>> /\ thr[t].pc \in {"count", "fill"} /\ Moved(t, "attr")
      /\ \/ thr[t].pc = "count" /\ inode' = [inode EXCEPT ![thr[t].o].nlookup = @ + 1]
         \/ inode' = [inode EXCEPT ![thr[t].o] = FilledIn(inode[thr[t].o], thr[t].n, thr[t].i)]
  BY <1>0, CountEffect, FillEffect
<1>2. \A u \in LoopThreads \ {t} : thr'[u] = Idle
  BY <1>0, <1>1, OthersIdle
<1>3. PICK o \in Objects : o = thr[t].o
  BY <1>1, OneKnows DEF ObjectPcs
<1>4. inode[o].alive /\ (thr[t].pc = "count" => inode[o].fd = "open") /\ o # Nil
  BY <1>1, <1>3, OneKnows, InodesAssumption DEF ThreadFits
<1>5. /\ inode'[o].alive = inode[o].alive /\ inode'[o].fd = "open" /\ inode'[o].nopen = inode[o].nopen
      /\ \A p \in Objects \ {o} : inode'[p] = inode[p]
  <2>1. CASE thr[t].pc = "count" /\ inode' = [inode EXCEPT ![o].nlookup = @ + 1]
    BY Zenon, <1>4, <2>1, OneKnows DEF IsInode
  <2>2. CASE inode' = [inode EXCEPT ![o] = FilledIn(inode[o], thr[t].n, thr[t].i)]
    BY <2>2, OneKnows DEF IsInode, FilledIn
  <2> QED BY <1>1, <1>3, <2>1, <2>2
<1>6. ThreadFits(t)'
  BY <1>1, <1>3, <1>4, <1>5 DEF ThreadFits, Moved
<1>7. \A p \in Objects : OpensFit(p)'
  BY <1>1, <1>5, OpensKept
<1> QED BY <1>2, <1>6, <1>7, OneFrom

LEMMA DoneOne ==
    ASSUME InodesInv, OneInv, NEW t \in LoopThreads, LookupDone(t)
    PROVE  OneInv'
<1>0. InodesTypeOK
  BY DEF InodesInv
<1>1. OthersKept(t) /\ thr[t].pc = "attr"
  BY Zenon, <1>0, DoneEffect
<1>2. \A u \in LoopThreads \ {t} : thr'[u] = Idle
  BY <1>0, <1>1, OthersIdle
<1>3. PICK o \in Objects : o = thr[t].o
  BY <1>1, OneKnows DEF ObjectPcs
<1>4. inode[o].alive /\ inode[o].fd = "open" /\ o # Nil
  BY Zenon, <1>1, <1>3, OneKnows, InodesAssumption DEF ThreadFits
<1>5. CASE /\ Moved(t, "release") \/ Moved(t, "unlink") \/ Moved(t, "entry") \/ thr'[t] = Idle
           /\ inode' = [inode EXCEPT ![o] = WithIdAttr(inode[o])]
           /\ opens' = opens /\ (kcount' = kcount \/ kcount' = [kcount EXCEPT ![o] = @ + 1])
  <2>1. /\ inode'[o].alive = inode[o].alive /\ inode'[o].fd = "open" /\ inode'[o].nopen = inode[o].nopen
        /\ \A p \in Objects \ {o} : inode'[p] = inode[p]
    BY Zenon, <1>4, <1>5, OneKnows DEF IsInode, WithIdAttr
  <2>2. ThreadFits(t)'
    BY Zenon, <1>3, <1>4, <1>5, <2>1, IdleIs DEF ThreadFits, Moved
  <2>3. \A p \in Objects : kcount'[p] >= kcount[p]
    BY <1>5, OneKnows
  <2>5. \A p \in Objects : kcount'[p] \in Nat
    BY <1>5, OneKnows
  <2>4. \A p \in Objects : OpensFit(p)'
    BY <1>5, <2>1, <2>3, <2>5, OneKnows DEF OpensFit
  <2> QED BY <1>2, <2>2, <2>4, OneFrom
<1>6. CASE /\ thr'[t] = Idle
           /\ kcount' = [kcount EXCEPT ![o] = @ + 1] /\ opens' = [opens EXCEPT ![o] = @ + 1]
           /\ inode' = [inode EXCEPT ![o] = [WithIdAttr(inode[o]) EXCEPT !.nopen = @ + 1]]
  <2>1. /\ inode'[o].fd = "open" /\ inode'[o].nopen = inode[o].nopen + 1
        /\ \A p \in Objects \ {o} : inode'[p] = inode[p]
    BY <1>4, <1>6, OneKnows DEF IsInode, WithIdAttr
  <2>2. ThreadFits(t)'
    BY <1>6, IdleIs DEF ThreadFits
  <2>3. OpensFit(o)'
    BY <1>6, <2>1, OneKnows DEF OpensFit
  <2>4. \A p \in Objects \ {o} : OpensFit(p)'
    BY <1>6, <2>1, OneKnows DEF OpensFit
  <2> QED BY <1>2, <2>2, <2>3, <2>4, OneFrom
<1> QED
  <2>1. InodesTypeOK /\ LookupDone(t)
    BY <1>0
  <2> QED BY <1>3, <1>5, <1>6, <2>1, DoneEffect

LEMMA ListingOne ==
    ASSUME InodesInv, OneInv, NEW t \in LoopThreads, ReaddirNext(t) \/ ReaddirEntry(t) \/ UnlinkName(t)
    PROVE  OneInv'
<1>0. InodesTypeOK
  BY DEF InodesInv
<1>1. OthersKept(t) /\ thr[t].pc # "idle" /\ inode' = inode /\ opens' = opens
  BY Zenon, <1>0, ReaddirEffect, EntryEffect, UnlinkEffect
<1>2. \A u \in LoopThreads \ {t} : thr'[u] = Idle
  BY Zenon, <1>0, <1>1, OthersIdle
<1>3. /\ thr'[t].pc \in {"idle", "find", "next", "forget"}
      /\ thr'[t].o \in {Nil, thr[t].o}
      /\ \/ kcount' = kcount
         \/ kcount' = [o \in Objects |-> IF o \in thr[t].got THEN kcount[o] + 1 ELSE kcount[o]]
  BY <1>0, ReaddirEffect, EntryEffect, UnlinkEffect, IdleIs DEF Moved
<1>4. ThreadFits(t)'
  BY Zenon, <1>1, <1>3, OneKnows DEF ThreadFits
<1>5. \A p \in Objects : kcount'[p] \in Nat /\ kcount'[p] >= kcount[p]
  BY <1>3, OneKnows
<1>6. \A p \in Objects : OpensFit(p)'
  BY <1>1, <1>5, OneKnows DEF OpensFit
<1> QED BY <1>2, <1>4, <1>6, OneFrom

LEMMA CloseOne ==
    ASSUME InodesInv, OneInv, NEW t \in LoopThreads, ReleaseInode(t) \/ CloseInode(t)
    PROVE  OneInv'
<1>0. InodesTypeOK
  BY DEF InodesInv
<1>1. /\ OthersKept(t) /\ thr[t].pc \in {"release", "close"} /\ UNCHANGED <<kcount, opens>>
      /\ thr'[t].o = thr[t].o /\ thr'[t].pc \in {"close", "unlink"}
  BY Zenon, <1>0, ReleaseEffect, CloseEffect DEF Moved
<1>2. \A u \in LoopThreads \ {t} : thr'[u] = Idle
  BY <1>0, <1>1, OthersIdle
<1>3. PICK o \in Objects : o = thr[t].o
  BY <1>1, OneKnows DEF ObjectPcs
<1>4. inode[o].alive /\ o # Nil
  BY Zenon, <1>1, <1>3, OneKnows, InodesAssumption DEF ThreadFits
<1>5. CASE inode[o].nopen = 0 /\ inode' = [inode EXCEPT ![o].m = t]
  <2>1. /\ inode'[o].alive = inode[o].alive /\ inode'[o].fd = inode[o].fd /\ inode'[o].nopen = inode[o].nopen
        /\ \A p \in Objects \ {o} : inode'[p] = inode[p]
    BY <1>5, OneKnows DEF IsInode
  <2>2. ThreadFits(t)'
    BY <1>1, <1>3, <1>4, <1>5, <2>1 DEF ThreadFits
  <2>3. \A p \in Objects : OpensFit(p)'
    BY Zenon, <1>1, <2>1, OpensKept
  <2> QED BY <1>2, <2>2, <2>3, OneFrom
<1>6. CASE inode' = inode /\ thr'[t].pc = "unlink"
  <2>1. ThreadFits(t)'
    BY Zenon, <1>1, <1>3, <1>4, <1>6 DEF ThreadFits
  <2>2. \A p \in Objects : OpensFit(p)'
    BY <1>1, <1>6, OpensKept
  <2> QED BY <1>2, <2>1, <2>2, OneFrom
<1>7. CASE thr[t].pc = "close" /\ inode' = [inode EXCEPT ![o] = Released(inode[o])] /\ thr'[t].pc = "unlink"
  <2>1. /\ inode'[o].alive = inode[o].alive /\ inode'[o].nopen = inode[o].nopen
        /\ \A p \in Objects \ {o} : inode'[p] = inode[p]
    BY <1>7, OneKnows DEF IsInode, Released
  <2>2. ThreadFits(t)'
    BY Zenon, <1>1, <1>3, <1>4, <1>7, <2>1 DEF ThreadFits
  <2>3. opens[o] = 0
    BY <1>3, <1>7, OneKnows DEF ThreadFits, OpensFit
  <2>4. \A p \in Objects : OpensFit(p)'
    BY <1>1, <2>1, <2>3, OneKnows DEF OpensFit
  <2> QED BY <1>2, <2>2, <2>4, OneFrom
<1> QED BY <1>0, <1>3, <1>5, <1>6, <1>7, ReleaseEffect, CloseEffect DEF Moved

LEMMA ForgetOne ==
    ASSUME InodesInv, OneInv, NEW t \in LoopThreads, ForgetLookups(t)
    PROVE  OneInv'
<1>0. InodesTypeOK
  BY DEF InodesInv
<1>1. /\ OthersKept(t) /\ thr[t].pc = "forget" /\ UNCHANGED <<kcount, opens>>
      /\ \/ thr'[t].pc = "erase" /\ thr'[t].o = thr[t].o
         \/ thr'[t].pc \in {"idle", "next"} /\ thr'[t].o = Nil
  BY Zenon, <1>0, ForgetEffect DEF Moved
<1>2. \A u \in LoopThreads \ {t} : thr'[u] = Idle
  BY <1>0, <1>1, OthersIdle
<1>3. PICK o \in Objects : o = thr[t].o
  BY <1>1, OneKnows DEF ObjectPcs
<1>4. inode[o].alive /\ o # Nil
  BY <1>1, <1>3, OneKnows, InodesAssumption DEF ThreadFits
<1>5. /\ inode'[o].alive = inode[o].alive /\ inode'[o].fd = inode[o].fd /\ inode'[o].nopen = inode[o].nopen
      /\ \A p \in Objects \ {o} : inode'[p] = inode[p]
  <2>1. CASE inode' = [inode EXCEPT ![o] = [inode[o] EXCEPT !.nlookup = @ - thr[t].i, !.m = t]]
    BY <2>1, OneKnows DEF IsInode
  <2>2. CASE inode' = [inode EXCEPT ![o] = [inode[o] EXCEPT !.nlookup = @ - thr[t].i]]
    BY <2>2, OneKnows DEF IsInode
  <2> QED BY Zenon, <1>0, <1>3, <2>1, <2>2, ForgetEffect
<1>6. ThreadFits(t)'
  BY Zenon, <1>1, <1>3, <1>4, <1>5 DEF ThreadFits
<1>7. \A p \in Objects : OpensFit(p)'
  BY <1>1, <1>5, OpensKept
<1> QED BY <1>2, <1>6, <1>7, OneFrom

LEMMA EraseOne ==
    ASSUME InodesInv, OneInv, NEW t \in LoopThreads, EraseInode(t)
    PROVE  OneInv'
<1>0. InodesTypeOK
  BY DEF InodesInv
<1>1. /\ OthersKept(t) /\ thr[t].pc = "erase" /\ UNCHANGED <<kcount, opens>>
      /\ thr'[t].pc \in {"idle", "next"} /\ thr'[t].o = Nil
  BY Zenon, <1>0, EraseEffect
<1>2. \A u \in LoopThreads \ {t} : thr'[u] = Idle
  BY <1>0, <1>1, OthersIdle
<1>3. PICK o \in Objects : o = thr[t].o
  BY <1>1, OneKnows DEF ObjectPcs
<1>4. ThreadFits(t)'
  BY <1>1 DEF ThreadFits
<1>5. kcount[o] = 0
  <2>1. inode[o].nlookup = 0
    BY <1>1, <1>3 DEF InodesInv, MutexInv
  <2>2. inode[o].nlookup >= kcount[o]
    BY OwedCounted DEF InodesInv
  <2> QED BY <2>1, <2>2, OneKnows
<1>6. opens[o] = 0
  BY <1>5, OneKnows DEF OpensFit
<1>7. CASE inode' = [inode EXCEPT ![o] = Freed]
  <2>1. inode'[o].nopen = 0 /\ \A p \in Objects \ {o} : inode'[p] = inode[p]
    BY <1>7, OneKnows DEF Freed, NewInode
  <2> QED BY <1>1, <1>2, <1>4, <1>6, <2>1, OneKnows, OneFrom DEF OpensFit
<1>8. CASE inode' = [inode EXCEPT ![o].m = Nil]
  <2>1. \A p \in Objects : inode'[p].nopen = inode[p].nopen /\ inode'[p].fd = inode[p].fd
    BY <1>8, OneKnows DEF IsInode
  <2>2. \A p \in Objects : OpensFit(p)'
    BY <1>1, <2>1, OpensKept
  <2> QED BY <1>2, <1>4, <2>2, OneFrom
<1> QED BY <1>0, <1>3, <1>7, <1>8, EraseEffect

LEMMA OpenOne ==
    ASSUME InodesInv, OneInv, NEW t \in LoopThreads, CountOpen(t)
    PROVE  OneInv'
<1>0. InodesTypeOK
  BY DEF InodesInv
<1>1. OthersKept(t) /\ thr[t].pc = "nopen" /\ UNCHANGED kcount /\ thr'[t] = Idle
  BY Zenon, <1>0, OpenEffect
<1>2. \A u \in LoopThreads \ {t} : thr'[u] = Idle
  BY <1>0, <1>1, OthersIdle
<1>3. PICK o \in Objects : o = thr[t].o
  BY <1>1, OneKnows DEF ObjectPcs
<1>4. ThreadFits(t)'
  BY <1>1, IdleIs DEF ThreadFits
<1>5. /\ kcount[o] > 0
      /\ thr[t].op = "open" => inode[o].fd = "open"
      /\ thr[t].op = "release" => inode[o].nopen > opens[o]
  BY <1>1, <1>3, OneKnows DEF ThreadFits
<1>6. CASE /\ thr[t].op = "open" /\ opens' = [opens EXCEPT ![o] = @ + 1]
           /\ inode' = [inode EXCEPT ![o].nopen = @ + 1]
  <2>1. /\ inode'[o].nopen = inode[o].nopen + 1 /\ inode'[o].fd = inode[o].fd /\ opens'[o] = opens[o] + 1
        /\ \A p \in Objects \ {o} : inode'[p] = inode[p] /\ opens'[p] = opens[p]
    BY <1>6, OneKnows DEF IsInode
  <2>2. \A p \in Objects : OpensFit(p)'
    BY <1>1, <1>5, <1>6, <2>1, OneKnows DEF OpensFit
  <2> QED BY <1>2, <1>4, <2>2, OneFrom
<1>7. CASE thr[t].op = "release" /\ UNCHANGED opens /\ inode' = [inode EXCEPT ![o].nopen = @ + -1]
  <2>1. /\ inode'[o].nopen = inode[o].nopen - 1 /\ inode'[o].fd = inode[o].fd
        /\ \A p \in Objects \ {o} : inode'[p] = inode[p]
    BY <1>7, OneKnows DEF IsInode
  <2>2. \A p \in Objects : OpensFit(p)'
    BY <1>1, <1>5, <1>7, <2>1, OneKnows DEF OpensFit
  <2> QED BY <1>2, <1>4, <2>2, OneFrom
<1> QED BY <1>0, <1>3, <1>6, <1>7, OpenEffect

\* What the kernel holds is counted, whatever the threads hold.
LEMMA KernelCounted ==
    ASSUME InodesTypeOK, FreshInv, LookupsInv, NEW o \in Objects
    PROVE  /\ inode[o].nlookup >= kcount[o] /\ inode[o].nlookup >= 0
           /\ kcount[o] > 0 => inode[o].fd # "none"
<1>1. kcount[o] \in Nat /\ inode[o].nlookup \in Int
  BY DEF InodesTypeOK, IsInode
<1>2. Due(o)[Nil] = kcount[o]
  BY DEF Due
<1>3. Total(Due(o)) \in Nat /\ Total(Due(o)) >= Due(o)[Nil]
  BY DueType, TotalUpdate
<1>4. inode[o].nlookup >= Total(Due(o)) + (IF inode[o].fd = "gone" THEN 1 ELSE 0)
  BY DEF LookupsInv
<1> QED BY <1>1, <1>2, <1>3, <1>4 DEF FreshInv

LEMMA SingleInit == InodesInit => TableInv /\ SingleInv
<1> SUFFICES ASSUME InodesInit PROVE TableInv /\ OneInv
  BY DEF SingleInv
<1>1. \A t \in LoopThreads : thr[t].pc = "idle" /\ thr[t].o = Nil
  BY IdleIs DEF InodesInit
<1>2. \A i \in Numbers : inodes[i] \notin Objects
  BY InodesAssumption DEF InodesInit
<1>3. \A o \in Objects : opens[o] = 0 /\ inode[o].nopen = 0
  BY DEF InodesInit, Freed, NewInode
<1>4. TableInv
  BY <1>1, <1>2 DEF TableInv
<1>5. \A t \in LoopThreads : ThreadFits(t)
  BY <1>1 DEF ThreadFits
<1>6. \A o \in Objects : OpensFit(o)
  BY <1>3 DEF OpensFit
<1>7. OneInv
  BY <1>1, <1>5, <1>6 DEF OneInv
<1> QED BY <1>4, <1>7

LEMMA SingleStep ==
    InodesInv /\ TableInv /\ SingleInv /\ [InodesNext]_inodeVars => TableInv' /\ SingleInv'
<1> SUFFICES ASSUME InodesInv, TableInv, SingleInv, [InodesNext]_inodeVars PROVE TableInv' /\ SingleInv'
  OBVIOUS
<1>1. CASE UNCHANGED inodeVars
  <2>1. TableInv'
    BY <1>1 DEF inodeVars, TableInv
  <2>2. SingleInv'
    BY <1>1 DEF inodeVars, SingleInv, OneInv, ThreadFits, OpensFit
  <2> QED BY <2>1, <2>2
<1>2. ASSUME NEW t \in LoopThreads,
             \/ StartLookup(t) \/ StartCreate(t) \/ StartReaddir(t) \/ StartForget(t) \/ StartOpen(t)
             \/ FindInode(t) \/ CountLookup(t) \/ FillInode(t) \/ LookupDone(t)
             \/ ReaddirNext(t) \/ ReaddirEntry(t)
             \/ ReleaseInode(t) \/ CloseInode(t) \/ UnlinkName(t)
             \/ ForgetLookups(t) \/ EraseInode(t) \/ CountOpen(t)
      PROVE  TableInv' /\ SingleInv'
  <2>1. TableInv'
    BY Zenon, <1>2, QuietTableSteps, FindTable, FillTable, EraseTable
  <2>2. single' = single
    BY Zenon, <1>2 DEF StartLookup, StartCreate, StartReaddir, StartForget, StartOpen, FindInode, CountLookup, FillInode,
                LookupDone, ReaddirNext, ReaddirEntry, ReleaseInode, CloseInode, UnlinkName, ForgetLookups,
                EraseInode, CountOpen
  <2>3. InodesTypeOK'
    <3>1. InodesNext
      BY <1>2 DEF InodesNext
    <3> QED BY <3>1, InodesInvStep DEF InodesInv
  <2>4. ASSUME single PROVE OneInv'
    <3>1. OneInv
      BY <2>4 DEF SingleInv
    <3> QED BY <1>2, <2>3, <2>4, <3>1, StartOne, FindOne, CountOne, DoneOne, ListingOne, CloseOne, ForgetOne, EraseOne, OpenOne
  <2> QED BY <2>1, <2>2, <2>4 DEF SingleInv
<1> QED BY <1>1, <1>2 DEF InodesNext

\* The table holds live objects under their own numbers; with one thread the handler's object
\* stays as do_lookup left it and every open file is counted in its Inode.
THEOREM SingleInvariance == InodesSpec => [](TableInv /\ SingleInv)
<1>1. InodesInit => TableInv /\ SingleInv
  BY SingleInit
<1>2. InodesInv /\ (TableInv /\ SingleInv) /\ [InodesNext]_inodeVars => (TableInv /\ SingleInv)'
  BY SingleStep
<1> QED BY <1>1, <1>2, InodesInvariance, PTL DEF InodesSpec

\* With --single the driver never frees an Inode whose address the kernel or a handler holds, and
\* forget_one never takes more than was counted, although sfs_unlink leaks a look-up and the
\* counts of readdirplus are passed on entry by entry.
THEOREM InodesStayAlive == InodesSpec => []KernelInodesAlive
<1>1. InodesInv /\ SingleInv => KernelInodesAlive
  <2> SUFFICES ASSUME InodesInv, SingleInv, single
               PROVE  /\ \A o \in Objects : kcount[o] > 0 => inode[o].alive /\ inode[o].nlookup >= kcount[o]
                      /\ Defined
                      /\ \A o \in Objects : inode[o].nlookup >= 0
    BY DEF KernelInodesAlive
  <2>1. Defined
    BY DEF SingleInv, OneInv, ThreadFits, Defined
  <2>2. ASSUME NEW o \in Objects
        PROVE  /\ inode[o].nlookup >= kcount[o] /\ inode[o].nlookup >= 0
               /\ kcount[o] > 0 => inode[o].fd # "none"
    BY KernelCounted DEF InodesInv
  <2>3. Freed.fd = "none"
    BY DEF Freed, NewInode
  <2> QED BY <2>1, <2>2, <2>3 DEF InodesInv, FreshInv
<1> QED BY <1>1, InodesInvariance, SingleInvariance, PTL

\* With --single sfs_unlink does not close the descriptor of a file that is open: the opens the
\* kernel knows are counted in nopen, and the look-up the kernel holds keeps the Inode.
THEOREM DescriptorsKept == InodesSpec => []OpenKeepsDescriptor
<1>1. InodesInv /\ SingleInv => OpenKeepsDescriptor
  <2> SUFFICES ASSUME InodesInv, SingleInv, single, NEW o \in Objects, opens[o] > 0
               PROVE  inode[o].alive /\ inode[o].fd = "open"
    BY DEF OpenKeepsDescriptor
  <2>1. inode[o].fd = "open"
    BY DEF SingleInv, OneInv, OpensFit
  <2>2. Freed.fd = "none"
    BY DEF Freed, NewInode
  <2> QED BY <2>1, <2>2 DEF InodesInv, FreshInv
<1> QED BY <1>1, InodesInvariance, SingleInvariance, PTL
=============================================================================
