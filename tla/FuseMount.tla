----------------------------- MODULE FuseMount -----------------------------
(***************************************************************************)
(* Mounting and unmounting (lib/mount.c, lib/mount_util.c,                 *)
(* util/fusermount.c): programs that mount a file system on one mount      *)
(* point, directly or through fusermount3, which may stay behind to unmount*)
(* when the program dies (auto_unmount); users who run fusermount3 -u; the *)
(* kernel's stack of mounts and the mtab.                                  *)
(***************************************************************************)
EXTENDS Naturals, Sequences, FiniteSets, SequencesExt

CONSTANTS
    Programs, Users,
    MountMax,        \* mount_max of fuse.conf
    MaxMountFaults   \* calls of the system that fail for no reason of the model

VARIABLES
    mounts,    \* the stack, oldest first, of <<program, attempt>>
    mtab,      \* number of entries of the mount point in /etc/mtab
    mtabfile,  \* /etc/mtab is a file, not a link to /proc/mounts
    prog, helper,
    umlock,    \* holder of the lock on mtab.fuselock
    mfaults
mountVars == <<mounts, mtab, mtabfile, prog, helper, umlock, mfaults>>

\* Attempt 0 is the mount made directly; 1 and 2 are the calls of fusermount3, with and
\* without the subtype.  <<x, 0>> also stands for the fusermount3 -u that x runs.
Actors == (Programs \X (0..2)) \union (Users \X {0})
NoDev == 9
NoHelper == [pc |-> "none", dev |-> FALSE, saw |-> <<>>]
Top == mounts[Len(mounts)]
Popped == SubSeq(mounts, 1, Len(mounts) - 1)
ProgramEnded == {"failed", "end", "dead"}
InStack(m) == \E i \in DOMAIN mounts : mounts[i] = m
\* The connection of a mount lives while somebody has the device open.
Connected(m) == helper[m].dev \/ (prog[m[1]].dev = m[2] /\ prog[m[1]].pc \notin ProgramEnded)
MountFault == mfaults < MaxMountFaults /\ mfaults' = mfaults + 1
NoFault == mfaults' = mfaults
\* mtab_needs_update; count_fuse_fs, which reads mtab.
mtab_needs_update == mtabfile
count_fuse_fs == IF mtabfile THEN mtab ELSE Len(mounts)

MountInit ==
    /\ mounts = <<>> /\ mtab = 0 /\ mtabfile \in BOOLEAN /\ umlock = <<>> /\ mfaults = 0
    /\ \E auto \in [Programs -> BOOLEAN], root, sub \in BOOLEAN :
          prog = [p \in Programs |-> [pc |-> "sys", root |-> root, auto |-> auto[p], sub |-> sub,
                                      k |-> 0, dev |-> NoDev, saw |-> <<>>]]
    /\ helper = [a \in Actors |-> NoHelper]

ToProg(p, pc) == prog' = [prog EXCEPT ![p].pc = pc, ![p].saw = <<>>]
ToHelper(a, pc) == helper' = [helper EXCEPT ![a].pc = pc, ![a].saw = IF pc = "umount" THEN @ ELSE <<>>]

-----------------------------------------------------------------------------
(***************************************************************************)
(* The program: fuse_kern_mount.                                           *)
(***************************************************************************)
\* fuse_kern_mount: fusermount3 is called with the subtype and, if that fails, without.
FirstCall(p) == IF prog[p].sub THEN 1 ELSE 2
AfterFailedCall(p) == IF prog[p].k = 1 THEN "try" ELSE "failed"
\* fuse_mount_sys.  With auto_unmount, or without the right to mount, fusermount3 is tried.
fuse_mount_sys(p) ==
    /\ prog[p].pc = "sys"
    /\ \/ /\ (prog[p].auto \/ ~prog[p].root) /\ NoFault /\ UNCHANGED mounts
          /\ prog' = [prog EXCEPT ![p].pc = "try", ![p].k = FirstCall(p)]
       \/ /\ prog[p].root /\ ~prog[p].auto /\ NoFault
          /\ mounts' = Append(mounts, <<p, 0>>)
          /\ prog' = [prog EXCEPT ![p].pc = IF mtab_needs_update THEN "mtab" ELSE "run", ![p].dev = 0, ![p].saw = mounts']
       \/ MountFault /\ ToProg(p, "failed") /\ UNCHANGED mounts
    /\ UNCHANGED <<mtab, mtabfile, helper, umlock>>

MountUndone == IF mounts = <<>> THEN <<>> ELSE Popped
\* ... its entry in mtab; when that fails the mount is undone.
AddEntry(p) ==
    /\ prog[p].pc = "mtab"
    /\ \/ mtab' = mtab + 1 /\ ToProg(p, "run") /\ NoFault /\ UNCHANGED mounts
       \/ /\ MountFault /\ mounts' = MountUndone
          /\ ToProg(p, "failed") /\ UNCHANGED mtab
    /\ UNCHANGED <<mtabfile, helper, umlock>>

\* fuse_mount_fusermount: socketpair and fork.
fuse_mount_fusermount(p) ==
    /\ prog[p].pc = "try" /\ NoFault
    /\ ToProg(p, "recv") /\ ToHelper(<<p, prog[p].k>>, "count")
    /\ UNCHANGED <<mounts, mtab, mtabfile, umlock>>

\* receive_fd: the descriptor, or the end of the helper.  Without auto_unmount the helper
\* is waited for.  The second attempt follows a failed first one.
receive_fd(p) ==
    LET h == helper[<<p, prog[p].k>>] IN
    /\ prog[p].pc = "recv" /\ NoFault
    /\ prog[p].auto \/ h.pc = "ended"
    /\ \/ /\ prog[p].dev = prog[p].k
          /\ ToProg(p, "run")
       \/ /\ prog[p].dev # prog[p].k /\ h.pc = "ended"
          /\ prog' = [prog EXCEPT ![p].pc = AfterFailedCall(p), ![p].k = 2]
    /\ UNCHANGED <<mounts, mtab, mtabfile, helper, umlock>>

\* The program is killed: its descriptors are closed.
Killed(p) ==
    /\ prog[p].pc \in {"recv", "run"} /\ NoFault /\ ToProg(p, "dead")
    /\ UNCHANGED <<mounts, mtab, mtabfile, helper, umlock>>

\* fuse_kern_unmount: the device is polled and closed.
UnmountsAnyway(p) == "umount"
AfterPoll(p) == IF InStack(<<p, prog[p].dev>>) THEN "umount" ELSE "end"
PollAndClose(p) ==
    /\ prog[p].pc = "run" /\ NoFault
    /\ prog' = [prog EXCEPT ![p].pc = AfterPoll(p), ![p].saw = mounts, ![p].k = prog[p].dev, ![p].dev = NoDev]
    /\ UNCHANGED <<mounts, mtab, mtabfile, helper, umlock>>

\* fuse_mnt_umount for root: umount2, or /bin/umount (exec_umount), which keeps mtab.
exec_umount == IF mounts # <<>> /\ mtab > 0 THEN mtab - 1 ELSE mtab
fuse_mnt_umount ==
    /\ mounts' = MountUndone
    /\ mtab' = IF mtab_needs_update THEN exec_umount ELSE mtab
\* Others run fusermount3 -u.
fuse_kern_unmount(p) ==
    /\ prog[p].pc = "umount" /\ NoFault
    /\ \/ /\ prog[p].root /\ fuse_mnt_umount
          /\ ToProg(p, "end") /\ UNCHANGED helper
       \/ /\ ~prog[p].root /\ helper[<<p, 0>>].pc = "none"
          /\ helper' = [helper EXCEPT ![<<p, 0>>] = [NoHelper EXCEPT !.pc = "lock", !.saw = prog[p].saw]]
          /\ UNCHANGED <<prog, mounts, mtab>>
       \/ /\ ~prog[p].root /\ helper[<<p, 0>>].pc = "ended"
          /\ ToProg(p, "end") /\ UNCHANGED <<mounts, mtab, helper>>
    /\ UNCHANGED <<mtabfile, umlock>>

-----------------------------------------------------------------------------
(***************************************************************************)
(* fusermount3.                                                            *)
(***************************************************************************)
IsRoot(a) == a[1] \in Programs /\ prog[a[1]].root

\* mount_fuse: the device is opened and the mounts counted (count_fuse_fs); the check is
\* for users other than root.
\* The mounts it counted; no stack at all when some had no entry yet.
Counted == IF count_fuse_fs < Len(mounts) THEN Append(mounts, <<>>) ELSE mounts
TooMany(n) == n >= MountMax
CountMounts(a) ==
    /\ helper[a].pc = "count"
    /\ \/ /\ NoFault
          /\ helper' = [helper EXCEPT ![a].pc = IF ~IsRoot(a) /\ TooMany(count_fuse_fs) THEN "ended" ELSE "mount",
                                      ![a].saw = Counted]
       \/ MountFault /\ ToHelper(a, "ended")
    /\ UNCHANGED <<mounts, mtab, mtabfile, prog, umlock>>

\* check_perm and do_mount.
do_mount(a) ==
    /\ helper[a].pc = "mount"
    /\ \/ /\ NoFault /\ mounts' = Append(mounts, a)
          /\ helper' = [helper EXCEPT ![a].pc = IF mtab_needs_update THEN "add" ELSE "send", ![a].dev = TRUE, ![a].saw = <<>>]
       \/ MountFault /\ ToHelper(a, "ended") /\ UNCHANGED mounts
    /\ UNCHANGED <<mtab, mtabfile, prog, umlock>>

\* add_mount; when it fails the mount is left.
Added == mtab + 1
add_mount(a) ==
    /\ helper[a].pc = "add"
    /\ \/ NoFault /\ mtab' = Added /\ ToHelper(a, "send")
       \/ /\ MountFault /\ helper' = [helper EXCEPT ![a].pc = "ended", ![a].dev = FALSE]
          /\ UNCHANGED mtab
    /\ UNCHANGED <<mounts, mtabfile, prog, umlock>>

\* send_fd; then the helper ends, or waits for the socket to be closed.
send_fd(a) ==
    LET p == a[1] IN
    /\ helper[a].pc = "send" /\ NoFault
    /\ helper' = [helper EXCEPT ![a].dev = FALSE,
                                ![a].pc = IF prog[p].auto /\ prog[p].pc # "dead" THEN "wait" ELSE "ended"]
    /\ prog' = IF prog[p].pc = "dead" THEN prog ELSE [prog EXCEPT ![p].dev = a[2]]
    /\ UNCHANGED <<mounts, mtab, mtabfile, umlock>>

\* should_auto_unmount: something is mounted (check_is_mount), and opening it says that it
\* is not connected.
check_is_mount == mounts # <<>>
should_auto_unmount == check_is_mount /\ ~Connected(Top)
ClosedByEnd(p) == prog[p].pc = "end"
Closed(p) == prog[p].pc \in ProgramEnded
AutoUnmount(a) ==
    /\ helper[a].pc = "wait" /\ Closed(a[1]) /\ NoFault
    /\ helper' = [helper EXCEPT ![a].pc = IF should_auto_unmount THEN "lock" ELSE "ended", ![a].saw = mounts]
    /\ UNCHANGED <<mounts, mtab, mtabfile, prog, umlock>>

\* fusermount3 -u run by a user.
UserUnmounts(u) ==
    /\ helper[<<u, 0>>].pc = "none" /\ mounts # <<>> /\ NoFault
    /\ ToHelper(<<u, 0>>, "lock")
    /\ UNCHANGED <<mounts, mtab, mtabfile, prog, umlock>>

\* unmount_fuse: lock_umount, unless mtab is a link; may_unmount, for users other than root,
\* looks for the entry.
may_unmount(a) == IsRoot(a) \/ count_fuse_fs > 0
lock_umount(a) ==
    /\ helper[a].pc = "lock" /\ NoFault
    /\ mtabfile => umlock = <<>>
    /\ umlock' = IF mtabfile THEN a ELSE umlock
    /\ ToHelper(a, IF may_unmount(a) THEN "umount" ELSE IF mtabfile THEN "unlock" ELSE "ended")
    /\ UNCHANGED <<mounts, mtab, mtabfile, prog>>

\* unmount_fuse_locked: umount2 ...
unmount_fuse_locked(a) ==
    /\ helper[a].pc = "umount" /\ NoFault
    /\ IF mounts = <<>> THEN ToHelper(a, IF mtabfile THEN "unlock" ELSE "ended") /\ UNCHANGED mounts
       ELSE mounts' = Popped /\ ToHelper(a, IF mtab_needs_update THEN "remove" ELSE "ended")
    /\ UNCHANGED <<mtab, mtabfile, prog, umlock>>

\* ... fuse_mnt_remove_mount ...
RemovesEntry == IF mtab > 0 THEN mtab - 1 ELSE 0
fuse_mnt_remove_mount(a) ==
    /\ helper[a].pc = "remove" /\ ToHelper(a, "unlock")
    /\ \/ NoFault /\ mtab' = RemovesEntry
       \/ MountFault /\ UNCHANGED mtab
    /\ UNCHANGED <<mounts, mtabfile, prog, umlock>>

\* ... unlock_umount.
unlock_umount(a) ==
    /\ helper[a].pc = "unlock" /\ NoFault /\ ToHelper(a, "ended")
    /\ umlock' = IF umlock = a THEN <<>> ELSE umlock
    /\ UNCHANGED <<mounts, mtab, mtabfile, prog>>

ProgramStep(p) ==
    \/ fuse_mount_sys(p) \/ AddEntry(p) \/ fuse_mount_fusermount(p) \/ receive_fd(p) \/ fuse_kern_unmount(p)
HelperStep(a) ==
    \/ CountMounts(a) \/ do_mount(a) \/ add_mount(a) \/ send_fd(a) \/ AutoUnmount(a) \/ lock_umount(a)
    \/ unmount_fuse_locked(a) \/ fuse_mnt_remove_mount(a) \/ unlock_umount(a)
MountNext ==
    \/ \E p \in Programs : ProgramStep(p) \/ Killed(p) \/ PollAndClose(p)
    \/ \E u \in Users : UserUnmounts(u)
    \/ \E a \in Actors : HelperStep(a)

\* Processes go on; being killed, ending and unmounting are up to the environment.
MountFairness ==
    /\ \A p \in Programs : WF_mountVars(ProgramStep(p))
    /\ \A a \in Actors : WF_mountVars(HelperStep(a))
MountSpec == MountInit /\ [][MountNext]_mountVars /\ MountFairness

-----------------------------------------------------------------------------
\* Who unmounts, and what it saw of the stack when it looked.
Sees(a) == IF a[1] \in Programs /\ a[2] = 0 THEN prog[a[1]].saw ELSE helper[a].saw
Covered(a) == a[1] \in Programs /\ a[2] = 0 /\ <<a[1], prog[a[1]].k>> # Top
              /\ \E i \in DOMAIN Sees(a) : Sees(a)[i] = <<a[1], prog[a[1]].k>>
Unmounts(a) == /\ mounts' = Popped
               /\ \/ helper[a].pc = "umount" /\ helper'[a].pc \in {"remove", "ended"}
                  \/ a[1] \in Programs /\ a[2] = 0 /\ prog[a[1]].pc = "umount" /\ prog'[a[1]].pc = "end"

\* A program that ends, and the fusermount3 that stays behind for one that died, take no
\* file system away whose program is alive, as long as the stack is the one they looked at
\* and the program's own mount is not covered: after an umount by hand they leave a new
\* file system on the mount point alone (POLLERR in fuse_kern_unmount, should_auto_unmount).
LiveMountsStay ==
    [][\A a \in Programs \X (0..2) : mounts # <<>> /\ Unmounts(a) /\ mounts = Sees(a) /\ ~Covered(a) => ~Connected(Top)]_mountVars

\* After the death of a program with auto_unmount its mount goes away, unless another
\* file system lies over it (main of fusermount3, from setsid on).  With an mtab that is a
\* file the helper may find no entry, taken away for a mount that had none yet.
AutoUnmounted ==
    \A a \in Programs \X {1, 2} :
        (helper[a].pc = "wait" /\ prog[a[1]].pc = "dead" /\ ~mtabfile) ~> (~InStack(a) \/ Top # a)
=============================================================================
