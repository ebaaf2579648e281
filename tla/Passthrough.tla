---------------------------- MODULE Passthrough ----------------------------
(***************************************************************************)
(* The handlers that pass a request on to an underlying file system: those *)
(* of example/passthrough.c, passthrough_fh.c and passthrough_hp.cc, and   *)
(* those of f3.cc, which began as a copy of passthrough_hp.cc, that only   *)
(* use a descriptor.  Each is a list of steps, run by one small machine.   *)
(***************************************************************************)
EXTENDS Naturals, Sequences, FiniteSets

CONSTANTS PtPrograms,   \* programs that are run
          MaxHandles,   \* handles that are open at a time
          PtSizes       \* sizes of a file

VARIABLES
    program,
    handler, step,      \* the handler that runs, "none" between requests, and its next step
    fi,                 \* the handle that came with the request, or NoFi
    asked,              \* the size a request asks for, if any
    holding,            \* what this request has got and not given back
    broke, answered,    \* calls of this request that failed; its last answer
    handles, nopen,     \* handles the kernel has: the kind, the tree, opened since the last conversion
    isId, sizes, targetSize \* f3: is_id, the size of the file in each tree, target_size
ptVars == <<program, handler, step, fi, asked, holding, broke, answered, handles, nopen, isId, sizes, targetSize>>

\* A step: the call it makes and through what (the path, the handle, the one or the other, the
\* inode, the source tree); what it gets and gives; what follows a failure: the request ends
\* with an error after undo was given back, or the error is kept and the next steps run, or
\* it is not looked at.  Some steps are taken only without a handle.
NoFi == [kind |-> "none", n |-> 0, tree |-> "none", fresh |-> TRUE]
Step(c, by) == [c |-> c, by |-> by, gets |-> {}, gives |-> {}, fails |-> "error", undo |-> {}, bare |-> FALSE]
Path(c) == Step(c, "path")
Handle(c) == Step(c, "handle")
Either(c) == Step(c, "either")
Node(c) == Step(c, "node")
New(r) == [Step("malloc", "none") EXCEPT !.gets = {r}]
Get(s, r) == [s EXCEPT !.gets = {r}]
Give(r) == [Step("give", "none") EXCEPT !.gives = {r}, !.fails = "never"]
Hand(kind) == [Step("hand", "none") EXCEPT !.gets = {kind}, !.fails = "never"]
Close == [Step("close", "handle") EXCEPT !.fails = "ignored"]
Undo(s, u) == [s EXCEPT !.undo = u]
Late(s) == [s EXCEPT !.fails = "late"]
Ignore(s) == [s EXCEPT !.fails = "ignored"]
Bare(s) == [s EXCEPT !.bare = TRUE]

-----------------------------------------------------------------------------
\* example/passthrough.c
xmp_getattr == <<Path("lstat")>>
xmp_access == <<Path("access")>>
xmp_readlink == <<Path("readlink")>>
xmp_readdir == <<Get(Path("opendir"), "dir"), Ignore(Step("readdir", "none")), Give("dir")>>
xmp_mknod == <<Path("mknod")>>
xmp_mkdir == <<Path("mkdir")>>
xmp_unlink == <<Path("unlink")>>
xmp_rmdir == <<Path("rmdir")>>
xmp_symlink == <<Path("symlink")>>
xmp_rename == <<Step("flags", "none"), Path("rename")>>
xmp_link == <<Path("link")>>
xmp_chmod == <<Path("chmod")>>
xmp_chown == <<Path("lchown")>>
xmp_truncate == <<Either("truncate")>>
xmp_utimens == <<Path("utimensat")>>
xmp_create == <<Get(Path("open"), "fd"), Hand("file")>>
xmp_open == <<Get(Path("open"), "fd"), Hand("file")>>
\* A descriptor for one call, where no handle was given.
OneCall(c) == <<Bare(Get(Path("open"), "fd")), Late(Handle(c)), Bare(Give("fd"))>>
xmp_read == OneCall("pread")
xmp_write == OneCall("pwrite")
xmp_statfs == <<Path("statvfs")>>
xmp_release == <<Close>>
xmp_fsync == <<>>
xmp_fallocate == <<Step("mode", "none")>> \o OneCall("posix_fallocate")
xmp_setxattr == <<Path("lsetxattr")>>
xmp_getxattr == <<Path("lgetxattr")>>
xmp_listxattr == <<Path("llistxattr")>>
xmp_removexattr == <<Path("lremovexattr")>>
xmp_copy_file_range ==
    <<Bare(Get(Path("open"), "in")), Bare(Undo(Get(Path("open"), "out"), {"in"})), Late(Handle("copy_file_range")),
      Bare(Give("out")), Bare(Give("in"))>>
xmp_lseek == OneCall("lseek")

\* example/passthrough_fh.c
fh_getattr == <<Either("stat")>>
fh_access == <<Path("access")>>
fh_readlink == <<Path("readlink")>>
fh_opendir == <<New("xmp_dirp"), Undo(Get(Path("opendir"), "dir"), {"xmp_dirp"}), Hand("dir")>>
fh_releasedir == <<Close>>
fh_mknod == <<Path("mknod")>>
fh_mkdir == <<Path("mkdir")>>
fh_unlink == <<Path("unlink")>>
fh_rmdir == <<Path("rmdir")>>
fh_symlink == <<Path("symlink")>>
fh_rename == <<Step("flags", "none"), Path("rename")>>
fh_link == <<Path("link")>>
fh_chmod == <<Either("chmod")>>
fh_chown == <<Either("chown")>>
fh_truncate == <<Either("truncate")>>
fh_utimens == <<Either("utimens")>>
fh_create == <<Get(Path("open"), "fd"), Hand("file")>>
fh_open == <<Get(Path("open"), "fd"), Hand("file")>>
fh_read == <<Late(Handle("pread"))>>
\* The library frees the buffer.
fh_read_buf == <<New("bufvec"), Give("bufvec")>>
fh_write == <<Late(Handle("pwrite"))>>
fh_write_buf == <<Handle("fuse_buf_copy")>>
fh_statfs == <<Path("statvfs")>>
fh_flush == <<Handle("close(dup)")>>
fh_release == <<Close>>
fh_fsync == <<Handle("fsync")>>
fh_fallocate == <<Step("mode", "none"), Handle("posix_fallocate")>>
fh_setxattr == <<Path("lsetxattr")>>
fh_getxattr == <<Path("lgetxattr")>>
fh_listxattr == <<Path("llistxattr")>>
fh_removexattr == <<Path("lremovexattr")>>
fh_lock == <<Handle("ulockmgr_op")>>
fh_flock == <<Handle("flock")>>
fh_copy_file_range == <<Handle("copy_file_range")>>
fh_lseek == <<Handle("lseek")>>

\* Attributes are set in this order; each that was not asked for is passed over.  The owner is
\* set through the inode even if there is a handle.
SetsSource == <<Either("chmod"), Node("fchownat"), Step("truncate", "source"), Either("utimens")>>
SetAttr == <<Either("chmod"), Node("fchownat"), Either("truncate"), Either("utimens")>>
\* The descriptor is the stream's once fdopendir has succeeded; when it fails nobody closes it.
OpenDir == <<New("DirHandle"), Undo(Get(Node("openat"), "fd"), {"DirHandle"}), Undo(Step("fdopendir", "none"), {"DirHandle"}), Hand("dir")>>
\* Both ways out free the value, the answer 0 for an empty attribute among them.
ValueKept(c) == <<New("value"), Node(c), Give("value")>>
XattrInto(c) == <<New("value"), Undo(Node(c), {"value"}), Give("value")>>

\* example/passthrough_hp.cc
hp_getattr == <<Node("fstatat")>>
hp_setattr == SetAttr \o hp_getattr
hp_rmdir == <<Late(Node("unlinkat"))>>
hp_rename == <<Step("flags", "none"), Late(Node("renameat"))>>
hp_readlink == <<Node("readlinkat"), Step("too long", "none")>>
hp_opendir == OpenDir
hp_releasedir == <<Close>>
hp_fsyncdir == <<Late(Handle("fsync"))>>
hp_open == <<Get(Node("open"), "fd"), Hand("file")>>
hp_release == <<Close>>
hp_flush == <<Late(Handle("close(dup)"))>>
hp_fsync == <<Late(Handle("fsync"))>>
hp_read == <<Handle("fuse_reply_data")>>
hp_write_buf == <<Handle("fuse_buf_copy")>>
hp_statfs == <<Node("fstatvfs")>>
hp_fallocate == <<Step("mode", "none"), Late(Handle("posix_fallocate"))>>
hp_flock == <<Late(Handle("flock"))>>
hp_getxattr == XattrInto("getxattr")
hp_listxattr == XattrInto("listxattr")
hp_setxattr == <<Late(Node("setxattr"))>>
hp_removexattr == <<Late(Node("removexattr"))>>

\* f3.cc: an inode is the local file of an ID file, and the source file of any other.
sfs_getattr == <<Node("fstatat")>>
sfs_setattr == SetAttr \o sfs_getattr
sfs_readlink == <<Node("readlinkat"), Step("too long", "none")>>
sfs_opendir == OpenDir
sfs_releasedir == <<Close>>
sfs_fsyncdir == <<Late(Handle("fsync"))>>
sfs_flush == <<Late(Handle("close(dup)"))>>
sfs_fsync == <<Late(Handle("fsync"))>>
sfs_statfs == <<Step("fstatvfs", "source")>>
sfs_fallocate == <<Step("mode", "none"), Late(Handle("posix_fallocate"))>>
sfs_flock == <<Late(Handle("flock"))>>
sfs_getxattr == XattrInto("getxattr")
sfs_listxattr == XattrInto("listxattr")

xmp_oper ==
    [getattr |-> xmp_getattr, access |-> xmp_access, readlink |-> xmp_readlink, readdir |-> xmp_readdir, mknod |-> xmp_mknod,
     mkdir |-> xmp_mkdir, symlink |-> xmp_symlink, unlink |-> xmp_unlink, rmdir |-> xmp_rmdir, rename |-> xmp_rename,
     link |-> xmp_link, chmod |-> xmp_chmod, chown |-> xmp_chown, truncate |-> xmp_truncate, utimens |-> xmp_utimens,
     open |-> xmp_open, create |-> xmp_create, read |-> xmp_read, write |-> xmp_write, statfs |-> xmp_statfs,
     release |-> xmp_release, fsync |-> xmp_fsync, fallocate |-> xmp_fallocate, setxattr |-> xmp_setxattr,
     getxattr |-> xmp_getxattr, listxattr |-> xmp_listxattr, removexattr |-> xmp_removexattr,
     copy_file_range |-> xmp_copy_file_range, lseek |-> xmp_lseek]
fh_oper ==
    [getattr |-> fh_getattr, access |-> fh_access, readlink |-> fh_readlink, opendir |-> fh_opendir, releasedir |-> fh_releasedir,
     mknod |-> fh_mknod, mkdir |-> fh_mkdir, symlink |-> fh_symlink, unlink |-> fh_unlink, rmdir |-> fh_rmdir,
     rename |-> fh_rename, link |-> fh_link, chmod |-> fh_chmod, chown |-> fh_chown, truncate |-> fh_truncate,
     utimens |-> fh_utimens, create |-> fh_create, open |-> fh_open, read |-> fh_read, read_buf |-> fh_read_buf,
     write |-> fh_write, write_buf |-> fh_write_buf, statfs |-> fh_statfs, flush |-> fh_flush, release |-> fh_release,
     fsync |-> fh_fsync, fallocate |-> fh_fallocate, setxattr |-> fh_setxattr, getxattr |-> fh_getxattr,
     listxattr |-> fh_listxattr, removexattr |-> fh_removexattr, lock |-> fh_lock, flock |-> fh_flock,
     copy_file_range |-> fh_copy_file_range, lseek |-> fh_lseek]
hp_oper ==
    [getattr |-> hp_getattr, setattr |-> hp_setattr, rmdir |-> hp_rmdir, rename |-> hp_rename, readlink |-> hp_readlink,
     opendir |-> hp_opendir, releasedir |-> hp_releasedir, fsyncdir |-> hp_fsyncdir, open |-> hp_open, release |-> hp_release,
     flush |-> hp_flush, fsync |-> hp_fsync, read |-> hp_read, write_buf |-> hp_write_buf, statfs |-> hp_statfs,
     fallocate |-> hp_fallocate, flock |-> hp_flock, setxattr |-> hp_setxattr, getxattr |-> hp_getxattr,
     listxattr |-> hp_listxattr, removexattr |-> hp_removexattr]
sfs_oper ==
    [getattr |-> sfs_getattr, setattr |-> sfs_setattr, readlink |-> sfs_readlink, opendir |-> sfs_opendir,
     releasedir |-> sfs_releasedir, fsyncdir |-> sfs_fsyncdir, flush |-> sfs_flush, fsync |-> sfs_fsync, statfs |-> sfs_statfs,
     fallocate |-> sfs_fallocate, flock |-> sfs_flock, getxattr |-> sfs_getxattr, listxattr |-> sfs_listxattr]
Handlers == [passthrough |-> xmp_oper, passthrough_fh |-> fh_oper, passthrough_hp |-> hp_oper, f3 |-> sfs_oper]

-----------------------------------------------------------------------------
\* How the kernel and the library use the handlers: a handle of the right kind comes with these,
\* with or without one come the requests for attributes.
WithDir == {"releasedir", "fsyncdir"}
WithFile == {"read", "write", "read_buf", "write_buf", "flush", "release", "fsync", "fallocate", "lock", "flock", "copy_file_range", "lseek"}
WithEither == {"getattr", "setattr", "chmod", "chown", "truncate", "utimens"}
Fis(h) ==
    IF h \in WithDir THEN {x \in handles : x.kind = "dir"}
    ELSE IF h \in WithFile THEN {x \in handles : x.kind = "file"}
    ELSE IF h \in WithEither THEN {x \in handles : x.kind = "file"} \cup {NoFi}
    ELSE {NoFi}

Program == Handlers[program][handler]
Tree == IF program = "f3" /\ isId THEN "local" ELSE "source"
\* The tree a step reaches.
Reached(s) ==
    CASE s.by = "source" -> "source"
      [] s.by = "handle" \/ (s.by = "either" /\ fi # NoFi) -> fi.tree
      [] OTHER -> Tree

NewHandle(k) ==
    [kind |-> k, n |-> CHOOSE i \in 1..MaxHandles : \A x \in handles : x.n # i, tree |-> Tree, fresh |-> TRUE]

PtInit ==
    /\ program \in PtPrograms
    /\ handler = "none" /\ step = 1 /\ fi = NoFi /\ asked = {} /\ holding = {} /\ broke = {} /\ answered = "none"
    /\ handles = {} /\ nopen = 0
    /\ isId \in (IF program = "f3" THEN BOOLEAN ELSE {FALSE})
    /\ sizes \in [{"source", "local"} -> PtSizes] /\ targetSize \in (IF isId THEN PtSizes ELSE {0})

\* A request comes.
Begin ==
    /\ handler = "none"
    /\ \E h \in DOMAIN Handlers[program] :
           /\ \E x \in Fis(h) : fi' = x
           /\ h \in {"open", "create", "opendir"} => Cardinality(handles) < MaxHandles
           /\ asked' \in CASE h = "setattr" -> {{}} \cup {{n} : n \in PtSizes}
                            [] h = "truncate" -> {{n} : n \in PtSizes}
                            [] OTHER -> {{}}
           /\ handler' = h
    /\ step' = 1 /\ holding' = {} /\ broke' = {} /\ answered' = "none"
    /\ UNCHANGED <<program, handles, nopen, isId, sizes, targetSize>>

Skipped(s) == (s.bare /\ fi # NoFi) \/ (s.c = "truncate" /\ asked = {})
\* What do_setattr was not asked for is passed over, and the value if only its size is wanted.
MayPass(s) == (handler = "setattr" /\ s.c \in {"chmod", "fchownat", "utimens"}) \/ s.gets = {"value"}
Passes ==
    /\ handler # "none" /\ step <= Len(Program)
    /\ LET s == Program[step] IN Skipped(s) \/ MayPass(s)
    /\ step' = step + 1
    /\ UNCHANGED <<program, handler, fi, asked, holding, broke, answered, handles, nopen, isId, sizes, targetSize>>

Works ==
    /\ handler # "none" /\ step <= Len(Program)
    /\ LET s == Program[step] IN
           /\ ~Skipped(s)
           /\ handles' = IF s.c = "hand"
                         THEN handles \cup {NewHandle(k) : k \in s.gets}
                         ELSE IF s.c = "close" THEN handles \ {fi} ELSE handles
           /\ nopen' = CASE program # "passthrough_hp" -> 0
                         [] s.c = "hand" /\ "file" \in s.gets -> nopen + 1
                         [] s.c = "close" /\ fi.kind = "file" -> nopen - 1
                         [] OTHER -> nopen
           \* What is handed out is the handle's from now on.
           /\ holding' = IF s.c = "hand" THEN {} ELSE (holding \cup s.gets) \ s.gives
           /\ sizes' = IF s.c = "truncate" THEN [sizes EXCEPT ![Reached(s)] = CHOOSE n \in asked : TRUE] ELSE sizes
    /\ step' = step + 1
    /\ UNCHANGED <<program, handler, fi, asked, broke, answered, isId, targetSize>>

\* A call fails, or a condition refuses the request.
Breaks ==
    /\ handler # "none" /\ step <= Len(Program)
    /\ LET s == Program[step] IN
           /\ ~Skipped(s) /\ s.fails # "never"
           /\ broke' = broke \cup {s.c}
           /\ handles' = IF s.c = "close" THEN handles \ {fi} ELSE handles
           /\ nopen' = IF s.c = "close" /\ fi.kind = "file" /\ program = "passthrough_hp" THEN nopen - 1 ELSE nopen
           /\ IF s.fails = "error"
              THEN holding' = holding \ s.undo /\ answered' = "error" /\ handler' = "none" /\ step' = 1
              ELSE /\ answered' = IF s.fails = "late" THEN "error" ELSE answered
                   /\ step' = step + 1 /\ UNCHANGED <<holding, handler>>
    /\ UNCHANGED <<program, fi, asked, isId, sizes, targetSize>>

\* The end of a handler: it answers, with the error it kept if there is one.
EndsHandler ==
    /\ handler # "none" /\ step = Len(Program) + 1
    /\ answered' = IF answered = "error" THEN "error" ELSE handler
    /\ handler' = "none" /\ step' = 1
    /\ UNCHANGED <<program, fi, asked, holding, broke, handles, nopen, isId, sizes, targetSize>>

\* f3: the file is opened by sfs_open or sfs_create, and closed by sfs_release.
OpensFile ==
    /\ program = "f3" /\ handler = "none" /\ Cardinality(handles) < MaxHandles
    /\ handles' = handles \cup {NewHandle("file")}
    /\ UNCHANGED <<program, handler, step, fi, asked, holding, broke, answered, nopen, isId, sizes, targetSize>>
ClosesFile ==
    /\ program = "f3" /\ handler = "none"
    /\ \E x \in {y \in handles : y.kind = "file"} : handles' = handles \ {x}
    /\ UNCHANGED <<program, handler, step, fi, asked, holding, broke, answered, nopen, isId, sizes, targetSize>>
\* The file is made an ordinary one: handles that are open keep the local file, now empty.
MakesOrdinary ==
    /\ program = "f3" /\ handler = "none" /\ isId
    /\ isId' = FALSE
    /\ sizes' = [source |-> IF sizes.local > sizes.source THEN sizes.local ELSE sizes.source, local |-> 0]
    /\ handles' = {[x EXCEPT !.fresh = (x.kind # "file")] : x \in handles}
    /\ fi' = NoFi /\ answered' = "none"
    /\ UNCHANGED <<program, handler, step, asked, holding, broke, nopen, targetSize>>

PtNext == Begin \/ Passes \/ Works \/ Breaks \/ EndsHandler \/ OpensFile \/ ClosesFile \/ MakesOrdinary
PtSpec == PtInit /\ [][PtNext]_ptVars

-----------------------------------------------------------------------------
AtRest == handler = "none"

\* Whatever a handler has opened or allocated is given back on each of its ways out, or is the
\* handle's: the one exception is the descriptor of a directory when fdopendir fails.  passthrough_hp.cc's nopen
\* counts the handles of files.
NothingKept ==
    AtRest => /\ holding \subseteq (IF "fdopendir" \in broke THEN {"fd"} ELSE {})
              /\ program = "passthrough_hp" => nopen = Cardinality({x \in handles : x.kind = "file"})

Reported == IF isId /\ targetSize > sizes[Tree] THEN targetSize ELSE sizes[Tree]

\* f3: after a setattr that succeeds, the size that is answered is the one asked for, or the larger
\* one of a file still to be downloaded, whether the request had a handle or not: both reach
\* the same file, for handles opened since the file became an ordinary one.
SetattrSeen ==
    AtRest /\ answered = "setattr" /\ fi.fresh =>
        \A n \in asked : Reported = n \/ (isId /\ Reported = targetSize /\ n < targetSize)
=============================================================================
