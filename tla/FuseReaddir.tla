---------------------------- MODULE FuseReaddir -----------------------------
(***************************************************************************)
(* Reading a directory through the high-level library (libfuse/lib/fuse.c):*)
(* the directory handle, the two filler functions a file system may be     *)
(* given, the two modes in which it may call them, and the kernel that     *)
(* reads on from the offset of the last entry it got, while entries come   *)
(* and go.                                                                 *)
(***************************************************************************)
EXTENDS Integers, Sequences, SequencesExt, FiniteSets

CONSTANTS
    Names,      \* directory entries are 1..Names, which is also their order and offset
    Sizes,      \* how many entries a request may have room for
    MaxReads,   \* requests
    MaxTurns    \* entries that come or go

ASSUME ReaddirAssumption == Names \in Nat /\ Sizes \subseteq Nat \ {0} /\ MaxReads \in Nat /\ MaxTurns \in Nat

VARIABLES
    present,  \* the entries of the directory
    listed,   \* the entries for which the file system passes offset zero to the filler
    gives,    \* it passes attributes with FUSE_FILL_DIR_PLUS
    dh,       \* the handle: filled, first (the list), contents, error
    looked,   \* looked[e]: lookups counted in the library's node
    kpos,     \* the kernel's position
    got,      \* what it got since it was at the beginning
    steady,   \* the entries that were there all that time
    ended,    \* it got an empty answer
    reads, turns
dirVars == <<present, listed, gives, dh, looked, kpos, got, steady, ended, reads, turns>>

Entries == 1..Names
DirHandle == [filled |-> FALSE, first |-> <<>>, contents |-> <<>>, error |-> FALSE]
PureMode == listed = {} \/ listed = Entries

\* What the filler works on: handle, lookups counted, and whether it returned 1.
Filling(d, counts, stop) == [dh |-> d, looked |-> counts, stop |-> stop]
Item(e, off, ino) == [name |-> e, off |-> off, ino |-> ino]

\* The part fill_dir and fill_dir_plus share; an entry with an offset must fit.
store_entry(d, counts, e, ino, size) ==
    IF e \notin listed
    THEN IF d.filled \/ d.first # <<>> THEN Filling([d EXCEPT !.error = TRUE], counts, TRUE)
         ELSE IF Len(d.contents) = size THEN Filling(d, counts, TRUE)
         ELSE Filling([d EXCEPT !.contents = Append(@, Item(e, e, ino))], counts, FALSE)
    ELSE Filling([d EXCEPT !.filled = TRUE, !.first = Append(@, e)], counts, FALSE)

fill_dir(d, counts, e, size) == store_entry(d, counts, e, FALSE, size)

\* lost: do_lookup fails.
fill_dir_plus(d, counts, e, size, lost) ==
    IF gives /\ e \in lost THEN Filling([d EXCEPT !.error = TRUE], counts, TRUE)
    ELSE store_entry(d, IF gives THEN [counts EXCEPT ![e] = @ + 1] ELSE counts, e, gives, size)

\* The file system calls the filler for one entry after the other until it returns 1.
RECURSIVE FillAll(_, _, _, _, _)
FillAll(s, es, size, plus, lost) ==
    IF es = <<>> \/ s.stop THEN s
    ELSE FillAll(IF plus THEN fill_dir_plus(s.dh, s.looked, Head(es), size, lost)
                         ELSE fill_dir(s.dh, s.looked, Head(es), size),
                 Tail(es), size, plus, lost)

\* In the first mode the file system ignores the offset.
EntriesFrom(off) == SetToSortSeq(IF listed = Entries THEN present ELSE {e \in present : e > off}, <)

\* readdir_fill; bad: the operation itself fails.
readdir_fill(off, size, plus, lost, bad) ==
    LET s == FillAll(Filling(DirHandle, looked, FALSE), EntriesFrom(off), size, plus, lost)
        err == bad \/ s.dh.error
    IN [s EXCEPT !.dh.error = err, !.dh.filled = @ /\ ~err]

\* As a bug: the first entry after the offset is left out.
FromListLate(d, off, size) ==
    LET rest == SubSeq(d.first, off + 2, Len(d.first))
    IN [i \in 1..(IF Len(rest) > size THEN size ELSE Len(rest)) |-> Item(rest[i], off + 1 + i, FALSE)]
\* The items of the list behind the first off, as many as fit.
readdir_fill_from_list(d, off, size) ==
    LET rest == SubSeq(d.first, off + 1, Len(d.first))
    IN [i \in 1..(IF Len(rest) > size THEN size ELSE Len(rest)) |-> Item(rest[i], off + i, FALSE)]

ReaddirInit ==
    /\ present \in SUBSET Entries /\ listed \in SUBSET Entries /\ gives \in BOOLEAN
    /\ dh = DirHandle
    /\ looked = [e \in Entries |-> 0]
    /\ kpos = 0 /\ got = <<>> /\ steady = {} /\ ended = FALSE
    /\ reads = 0 /\ turns = 0

\* What the kernel does with the items of an answer.
Received(items) ==
    /\ ended' = (items = <<>>)
    /\ kpos' = IF items = <<>> THEN kpos ELSE items[Len(items)].off
    /\ got' = (IF kpos = 0 THEN <<>> ELSE got) \o [i \in DOMAIN items |-> items[i].name]
    /\ steady' = IF kpos = 0 THEN present ELSE steady

NeedsFill(off) == off = 0 \/ ~dh.filled

\* fuse_readdir_common, under the lock of the handle; it is refilled at the beginning.
fuse_readdir_common(size, plus, lost, bad) ==
    /\ reads < MaxReads /\ ~ended /\ reads' = reads + 1
    /\ LET fresh == NeedsFill(kpos)
           s == IF fresh THEN readdir_fill(kpos, size, plus, lost, bad)
                ELSE [dh |-> dh, looked |-> looked]
           items == IF s.dh.filled THEN readdir_fill_from_list(s.dh, kpos, size) ELSE s.dh.contents
       IN /\ ~fresh => lost = {} /\ ~bad
          /\ dh' = [s.dh EXCEPT !.contents = items] /\ looked' = s.looked
          /\ IF s.dh.error THEN UNCHANGED <<kpos, got, steady, ended>> ELSE Received(items)
    /\ UNCHANGED <<present, listed, gives, turns>>

fuse_lib_readdir == \E size \in Sizes, bad \in BOOLEAN : fuse_readdir_common(size, FALSE, {}, bad)
fuse_lib_readdirplus ==
    \E size \in Sizes, bad \in BOOLEAN, lost \in SUBSET present : 
       Cardinality(lost) <= 1 /\ fuse_readdir_common(size, TRUE, lost, bad)

\* rewinddir: the next request has offset 0.
Rewind ==
    /\ kpos # 0 \/ ended
    /\ kpos' = 0 /\ ended' = FALSE /\ got' = <<>> /\ steady' = {}
    /\ UNCHANGED <<present, listed, gives, dh, looked, reads, turns>>

\* Another process makes or removes an entry.
EntryTurns ==
    \E e \in Entries :
       /\ turns < MaxTurns /\ turns' = turns + 1
       /\ present' = IF e \in present THEN present \ {e} ELSE present \union {e}
       /\ steady' = steady \ {e}
       /\ UNCHANGED <<listed, gives, dh, looked, kpos, got, ended, reads>>

\* fuse_lib_releasedir and a new fuse_lib_opendir.
fuse_lib_opendir ==
    /\ dh # DirHandle
    /\ dh' = DirHandle /\ kpos' = 0 /\ ended' = FALSE /\ got' = <<>> /\ steady' = {}
    /\ UNCHANGED <<present, listed, gives, looked, reads, turns>>

ListingNext == fuse_lib_readdir \/ fuse_lib_readdirplus \/ Rewind \/ EntryTurns \/ fuse_lib_opendir
ReaddirSpec == ReaddirInit /\ [][ListingNext]_dirVars

-----------------------------------------------------------------------------
\* When the kernel gets the empty answer it has had every entry that was in the
\* directory from the beginning to the end of its reading, each once, whichever of
\* the two modes the file system uses and whatever came and went (fuse_readdir_common).
ListingComplete ==
    ended /\ PureMode => /\ steady \subseteq {got[i] : i \in DOMAIN got}
                         /\ \A i, j \in DOMAIN got : got[i] = got[j] => i = j

=============================================================================
