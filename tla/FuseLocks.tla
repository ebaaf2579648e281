----------------------------- MODULE FuseLocks ------------------------------
(***************************************************************************)
(* The POSIX locks of a node in the high-level library (libfuse/lib/fuse.c)*)
(* : a list that locks_insert cuts and joins, from which getlk answers and *)
(* which a flush empties.  It has to agree with what the file system has   *)
(* granted, which is kept here byte by byte.                               *)
(***************************************************************************)
EXTENDS Integers, Sequences, FiniteSets

CONSTANTS
    Owners,    \* lock owners
    LastByte   \* OFFSET_MAX

ASSUME LocksAssumption == LastByte \in Nat

VARIABLES
    locks,   \* node->locks
    held     \* held[o][b]: the type of the lock owner o has on byte b
lockVars == <<locks, held>>

Bytes == 0..LastByte
LockTypes == {"R", "W"}
Lock(type, start, end, owner) == [type |-> type, start |-> start, end |-> end, owner |-> owner]

ConflictsInside(l, lock) ==
    /\ l.owner # lock.owner
    /\ lock.start < l.end /\ l.start <= lock.end
    /\ l.type = "W" \/ lock.type = "W"
Conflicts(l, lock) ==
    /\ l.owner # lock.owner
    /\ lock.start <= l.end /\ l.start <= lock.end
    /\ l.type = "W" \/ lock.type = "W"
locks_conflict(lock) == \E i \in DOMAIN locks : Conflicts(locks[i], lock)

\* Where a lock of the same type and owner neither meets nor touches l.
ApartBefore(l, lock) == l.end < lock.start - 1

\* delete_lock and insert_lock are the two ways the rest of the list is put back;
\* seen is the part of the list behind lp.
RECURSIVE locks_insert(_, _, _)
locks_insert(seen, rest, lock) ==
    LET here == IF lock.type = "U" THEN seen \o rest ELSE seen \o <<lock>> \o rest
        l == Head(rest)
        skip(x) == locks_insert(Append(seen, x), Tail(rest), lock)
    IN CASE rest = <<>> -> here
         [] rest # <<>> /\ l.owner # lock.owner -> skip(l)
         [] rest # <<>> /\ l.owner = lock.owner /\ l.type = lock.type ->
              IF ApartBefore(l, lock) THEN skip(l)
              ELSE IF lock.end < l.start - 1 THEN here
              ELSE IF l.start <= lock.start /\ lock.end <= l.end THEN seen \o rest
              ELSE locks_insert(seen, Tail(rest),
                       [lock EXCEPT !.start = IF l.start < @ THEN l.start ELSE @,
                                    !.end = IF @ < l.end THEN l.end ELSE @])
         [] OTHER ->
              IF l.end < lock.start THEN skip(l)
              ELSE IF lock.end < l.start THEN here
              ELSE IF lock.start <= l.start /\ l.end <= lock.end THEN locks_insert(seen, Tail(rest), lock)
              ELSE IF l.end <= lock.end THEN skip([l EXCEPT !.end = lock.start - 1])
              ELSE IF lock.start <= l.start
                   THEN LET cut == <<[l EXCEPT !.start = lock.end + 1]>> \o Tail(rest) IN
                        IF lock.type = "U" THEN seen \o cut ELSE seen \o <<lock>> \o cut
              ELSE locks_insert(Append(seen, [l EXCEPT !.end = lock.start - 1]),
                       <<[l EXCEPT !.start = lock.end + 1]>> \o Tail(rest), lock)

LocksInit == locks = <<>> /\ held = [o \in Owners |-> [b \in Bytes |-> "U"]]

Granted(o, type, s, e) ==
    \A p \in Owners \ {o}, b \in s..e : held[p][b] # "W" /\ (type = "W" => held[p][b] = "U")

\* fuse_lib_setlk: the file system's lock operation has granted the lock, or released it.
fuse_lib_setlk ==
    \E o \in Owners, type \in LockTypes \union {"U"}, s \in Bytes, e \in Bytes :
       /\ s <= e /\ (type # "U" => Granted(o, type, s, e))
       /\ locks' = locks_insert(<<>>, locks, Lock(type, s, e, o))
       /\ held' = [held EXCEPT ![o] = [b \in Bytes |-> IF b \in s..e THEN type ELSE @[b]]]

\* fuse_flush_common: all locks of the owner go.
fuse_flush_locks ==
    \E o \in Owners :
       /\ locks' = locks_insert(<<>>, locks, Lock("U", 0, LastByte, o))
       /\ held' = [held EXCEPT ![o] = [b \in Bytes |-> "U"]]

LocksNext == fuse_lib_setlk \/ fuse_flush_locks
LocksSpec == LocksInit /\ [][LocksNext]_lockVars

-----------------------------------------------------------------------------
\* getlk finds a conflicting lock in the list exactly when another owner has one,
\* whatever was locked, upgraded, split and released before (locks_insert).
ConflictsFound ==
    \A o \in Owners, type \in LockTypes, s \in Bytes, e \in Bytes : s <= e =>
        (locks_conflict(Lock(type, s, e, o)) <=> ~Granted(o, type, s, e))

=============================================================================
