----------------------------- MODULE FuseLayers -----------------------------
(***************************************************************************)
(* A call of a path-based file system through libfuse's layers: the        *)
(* wrappers fuse_fs_* (lib/fuse.c), which call an operation or answer for  *)
(* a file system that lacks it, and the stackable modules subdir and iconv *)
(* (lib/modules), whose operations change the paths and call the wrapper   *)
(* of the layer below.                                                     *)
(*                                                                         *)
(* A path is the sequence of the changes made to it.  An operation is      *)
(* described by a record and interpreted by the operators at the end.      *)
(***************************************************************************)
EXTENDS Integers, Sequences, FiniteSets, SequencesExt

\* A NULL path: file systems with nullpath_ok take calls on open files so.
NullPath == <<"null">>

\* The error numbers of this model: of the file system (EACCES stands for all
\* but the two that libfuse treats in a special way), of the modules, and of
\* libfuse.
FsErrors == {"ENOENT", "ENOSYS", "EACCES"}

-----------------------------------------------------------------------------
\* The wrappers: the operation called, and what is returned in its absence.

Wrapper(op, absent) == [op |-> op, other |-> "", absent |-> absent]

fuse_fs_getattr == Wrapper("getattr", "ENOSYS")
fuse_fs_rename == Wrapper("rename", "ENOSYS")
fuse_fs_unlink == Wrapper("unlink", "ENOSYS")
fuse_fs_rmdir == Wrapper("rmdir", "ENOSYS")
fuse_fs_symlink == Wrapper("symlink", "ENOSYS")
fuse_fs_link == Wrapper("link", "ENOSYS")
fuse_fs_fsync == Wrapper("fsync", "ENOSYS")
fuse_fs_fsyncdir == Wrapper("fsyncdir", "ENOSYS")
fuse_fs_flush == Wrapper("flush", "ENOSYS")
fuse_fs_readdir == Wrapper("readdir", "ENOSYS")
fuse_fs_create == Wrapper("create", "ENOSYS")
fuse_fs_lock == Wrapper("lock", "ENOSYS")
fuse_fs_flock == Wrapper("flock", "ENOSYS")
fuse_fs_chmod == Wrapper("chmod", "ENOSYS")
fuse_fs_chown == Wrapper("chown", "ENOSYS")
fuse_fs_truncate == Wrapper("truncate", "ENOSYS")
fuse_fs_utimens == Wrapper("utimens", "ENOSYS")
fuse_fs_access == Wrapper("access", "ENOSYS")
fuse_fs_readlink == Wrapper("readlink", "ENOSYS")
fuse_fs_mknod == Wrapper("mknod", "ENOSYS")
fuse_fs_mkdir == Wrapper("mkdir", "ENOSYS")
fuse_fs_setxattr == Wrapper("setxattr", "ENOSYS")
fuse_fs_getxattr == Wrapper("getxattr", "ENOSYS")
fuse_fs_listxattr == Wrapper("listxattr", "ENOSYS")
fuse_fs_bmap == Wrapper("bmap", "ENOSYS")
fuse_fs_removexattr == Wrapper("removexattr", "ENOSYS")
fuse_fs_ioctl == Wrapper("ioctl", "ENOSYS")
fuse_fs_poll == Wrapper("poll", "ENOSYS")
fuse_fs_fallocate == Wrapper("fallocate", "ENOSYS")
fuse_fs_copy_file_range == Wrapper("copy_file_range", "ENOSYS")
fuse_fs_lseek == Wrapper("lseek", "ENOSYS")
fuse_fs_release == Wrapper("release", "ok")
fuse_fs_opendir == Wrapper("opendir", "ok")
fuse_fs_open == Wrapper("open", "ok")
fuse_fs_statfs == Wrapper("statfs", "ok")
fuse_fs_releasedir == Wrapper("releasedir", "ok")

\* Two of them call the older operation, with a buffer made for it, when the
\* newer one is absent.
WrapperOf2(op, other) == [op |-> op, other |-> other, absent |-> "ENOSYS"]
fuse_fs_read_buf == WrapperOf2("read_buf", "read")
fuse_fs_write_buf == WrapperOf2("write_buf", "write")

fuse_fs == [
    getattr |-> fuse_fs_getattr, rename |-> fuse_fs_rename, unlink |-> fuse_fs_unlink,
    rmdir |-> fuse_fs_rmdir, symlink |-> fuse_fs_symlink, link |-> fuse_fs_link,
    fsync |-> fuse_fs_fsync, fsyncdir |-> fuse_fs_fsyncdir, flush |-> fuse_fs_flush,
    readdir |-> fuse_fs_readdir, create |-> fuse_fs_create, lock |-> fuse_fs_lock,
    flock |-> fuse_fs_flock, chmod |-> fuse_fs_chmod, chown |-> fuse_fs_chown,
    truncate |-> fuse_fs_truncate, utimens |-> fuse_fs_utimens, access |-> fuse_fs_access,
    readlink |-> fuse_fs_readlink, mknod |-> fuse_fs_mknod, mkdir |-> fuse_fs_mkdir,
    setxattr |-> fuse_fs_setxattr, getxattr |-> fuse_fs_getxattr, listxattr |-> fuse_fs_listxattr,
    bmap |-> fuse_fs_bmap, removexattr |-> fuse_fs_removexattr, ioctl |-> fuse_fs_ioctl,
    poll |-> fuse_fs_poll, fallocate |-> fuse_fs_fallocate, copy_file_range |-> fuse_fs_copy_file_range,
    lseek |-> fuse_fs_lseek, release |-> fuse_fs_release, opendir |-> fuse_fs_opendir,
    open |-> fuse_fs_open, statfs |-> fuse_fs_statfs, releasedir |-> fuse_fs_releasedir,
    read_buf |-> fuse_fs_read_buf, write_buf |-> fuse_fs_write_buf]

-----------------------------------------------------------------------------
\* The operations of the modules: which arguments are paths to change, and
\* whether text of the result is changed on the way back: always, or with
\* option rellinks only.  lseek keeps the result, an off_t, in an int.

Changes(paths) == [paths |-> paths, back |-> {}, int |-> FALSE]
ChangesBack(paths, back) == [paths |-> paths, back |-> back, int |-> FALSE]
ChangesInt(paths) == [paths |-> paths, back |-> {}, int |-> TRUE]

subdir_getattr == Changes({1})
subdir_access == Changes({1})
subdir_readlink == ChangesBack({1}, {"rellinks"})
subdir_opendir == Changes({1})
subdir_readdir == Changes({1})
subdir_releasedir == Changes({1})
subdir_mknod == Changes({1})
subdir_mkdir == Changes({1})
subdir_symlink == Changes({2})
subdir_unlink == Changes({1})
subdir_rmdir == Changes({1})
subdir_rename == Changes({1, 2})
subdir_link == Changes({1, 2})
subdir_chmod == Changes({1})
subdir_chown == Changes({1})
subdir_truncate == Changes({1})
subdir_utimens == Changes({1})
subdir_create == Changes({1})
subdir_open == Changes({1})
subdir_read_buf == Changes({1})
subdir_write_buf == Changes({1})
subdir_statfs == Changes({1})
subdir_flush == Changes({1})
subdir_release == Changes({1})
subdir_fsync == Changes({1})
subdir_fsyncdir == Changes({1})
subdir_setxattr == Changes({1})
subdir_getxattr == Changes({1})
subdir_listxattr == Changes({1})
subdir_removexattr == Changes({1})
subdir_lock == Changes({1})
subdir_flock == Changes({1})
subdir_bmap == Changes({1})
subdir_lseek == ChangesInt({1})

subdir_oper == [
    getattr |-> subdir_getattr, access |-> subdir_access,
    readlink |-> subdir_readlink, opendir |-> subdir_opendir,
    readdir |-> subdir_readdir, releasedir |-> subdir_releasedir,
    mknod |-> subdir_mknod, mkdir |-> subdir_mkdir,
    symlink |-> subdir_symlink, unlink |-> subdir_unlink,
    rmdir |-> subdir_rmdir, rename |-> subdir_rename,
    link |-> subdir_link, chmod |-> subdir_chmod,
    chown |-> subdir_chown, truncate |-> subdir_truncate,
    utimens |-> subdir_utimens, create |-> subdir_create,
    open |-> subdir_open, read_buf |-> subdir_read_buf,
    write_buf |-> subdir_write_buf, statfs |-> subdir_statfs,
    flush |-> subdir_flush, release |-> subdir_release,
    fsync |-> subdir_fsync, fsyncdir |-> subdir_fsyncdir,
    setxattr |-> subdir_setxattr, getxattr |-> subdir_getxattr,
    listxattr |-> subdir_listxattr, removexattr |-> subdir_removexattr,
    lock |-> subdir_lock, flock |-> subdir_flock,
    bmap |-> subdir_bmap, lseek |-> subdir_lseek]

iconv_getattr == Changes({1})
iconv_access == Changes({1})
iconv_readlink == ChangesBack({1}, {"ok"})
iconv_opendir == Changes({1})
iconv_readdir == ChangesBack({1}, {"ok"})
iconv_releasedir == Changes({1})
iconv_mknod == Changes({1})
iconv_mkdir == Changes({1})
IconvSymlinkPathOnly == Changes({2})
iconv_symlink == Changes({1, 2})
iconv_unlink == Changes({1})
iconv_rmdir == Changes({1})
iconv_rename == Changes({1, 2})
iconv_link == Changes({1, 2})
iconv_chmod == Changes({1})
iconv_chown == Changes({1})
iconv_truncate == Changes({1})
iconv_utimens == Changes({1})
iconv_create == Changes({1})
iconv_open_file == Changes({1})
iconv_read_buf == Changes({1})
iconv_write_buf == Changes({1})
iconv_statfs == Changes({1})
iconv_flush == Changes({1})
iconv_release == Changes({1})
iconv_fsync == Changes({1})
iconv_fsyncdir == Changes({1})
iconv_setxattr == Changes({1})
iconv_getxattr == Changes({1})
iconv_listxattr == Changes({1})
iconv_removexattr == Changes({1})
iconv_lock == Changes({1})
iconv_flock == Changes({1})
iconv_bmap == Changes({1})
iconv_lseek == ChangesInt({1})

iconv_oper == [
    getattr |-> iconv_getattr, access |-> iconv_access,
    readlink |-> iconv_readlink, opendir |-> iconv_opendir,
    readdir |-> iconv_readdir, releasedir |-> iconv_releasedir,
    mknod |-> iconv_mknod, mkdir |-> iconv_mkdir,
    symlink |-> iconv_symlink, unlink |-> iconv_unlink,
    rmdir |-> iconv_rmdir, rename |-> iconv_rename,
    link |-> iconv_link, chmod |-> iconv_chmod,
    chown |-> iconv_chown, truncate |-> iconv_truncate,
    utimens |-> iconv_utimens, create |-> iconv_create,
    open |-> iconv_open_file, read_buf |-> iconv_read_buf,
    write_buf |-> iconv_write_buf, statfs |-> iconv_statfs,
    flush |-> iconv_flush, release |-> iconv_release,
    fsync |-> iconv_fsync, fsyncdir |-> iconv_fsyncdir,
    setxattr |-> iconv_setxattr, getxattr |-> iconv_getxattr,
    listxattr |-> iconv_listxattr, removexattr |-> iconv_removexattr,
    lock |-> iconv_lock, flock |-> iconv_flock,
    bmap |-> iconv_bmap, lseek |-> iconv_lseek]

-----------------------------------------------------------------------------
(***************************************************************************)
(* One call, from fuse_fs_op of the topmost layer to its result.           *)
(*   op     the operation, which names the wrapper                         *)
(*   pos    the layer: a module for 1..Len(layers), then the file system   *)
(*   args   the path arguments; an "l" marks the text of a symbolic link   *)
(*   phase  "enter" a wrapper, "run" an operation, "return" res            *)
(*   res    "ok", an error; "odd": an entry that is no regular file,       *)
(*          "big": an offset beyond an int, "cut": what is left of it      *)
(*   text   the changes made to the names or the link returned             *)
(***************************************************************************)
CONSTANTS
    Stacks,    \* the lists of modules pushed on the file system, topmost first
    FsOps      \* the sets of operations a file system may have

VARIABLES
    layers,    \* the modules of this mount
    has,       \* the operations of its file system
    call,      \* the call, or NoCall
    ctx        \* the layer whose private_data is in the thread's context

layerVars == <<layers, has, call, ctx>>

NoCall == [op |-> "none"]
OpsOf(pos) ==
    IF pos > Len(layers) THEN has
    ELSE IF layers[pos] = "subdir" THEN DOMAIN subdir_oper ELSE DOMAIN iconv_oper
ModuleOp(pos, op) ==
    IF layers[pos] = "subdir" THEN subdir_oper[op] ELSE iconv_oper[op]

FsResults(op) ==
    {"ok"} \cup FsErrors \cup (IF op = "getattr" THEN {"odd"} ELSE {})
        \cup (IF op = "lseek" THEN {"big"} ELSE {})

StartCall(op, args) ==
    [op |-> op, pos |-> 1, args |-> args, phase |-> "enter", res |-> "ok", text |-> <<>>]

\* fuse_fs_op: private_data of the layer goes to the context, the operation or
\* its older form is called if the layer has it.
EnterWrapper ==
    /\ call # NoCall /\ call.phase = "enter"
    /\ LET w == fuse_fs[call.op]
           found == {o \in {w.op, w.other} : o \in OpsOf(call.pos)}
       IN  call' = IF found = {} THEN [call EXCEPT !.phase = "return", !.res = w.absent]
                   ELSE [call EXCEPT !.phase = "run"]
    /\ ctx' = call.pos
    /\ UNCHANGED <<layers, has>>

\* subdir_addpath puts the base directory before a path, iconv_convpath
\* converts it; NULL stays NULL.
ChangedPath(m, path) == IF path = NullPath THEN path ELSE Append(path, m)

\* The first change that fails ends the operation: no memory, or for iconv a
\* name that cannot be converted.
ChangeErrors(m) == IF m = "subdir" THEN {"ENOMEM"} ELSE {"ENOMEM", "EILSEQ"}

\* An operation of a module: its layer is taken from the context, the paths are
\* changed, and the wrapper of the next layer is called.
RunModule ==
    /\ call # NoCall /\ call.phase = "run" /\ call.pos <= Len(layers)
    /\ LET m == layers[ctx]
           d == ModuleOp(ctx, call.op)
       IN  \/ call' = [call EXCEPT
                     !.phase = "enter", !.pos = call.pos + 1,
                     !.args = [k \in DOMAIN @ |->
                                 IF k \in d.paths THEN ChangedPath(m, @[k]) ELSE @[k]]]
           \/ \E e \in ChangeErrors(m) :
                /\ \E k \in d.paths : call.args[k] # NullPath
                /\ call' = [call EXCEPT !.phase = "return", !.res = e]
    /\ UNCHANGED <<layers, has, ctx>>

\* The file system's own operation.
RunFs ==
    /\ call # NoCall /\ call.phase = "run" /\ call.pos > Len(layers)
    /\ \E r \in FsResults(call.op) : call' = [call EXCEPT !.phase = "return", !.res = r]
    /\ UNCHANGED <<layers, has, ctx>>

\* The rest of a module's operation, when the layer below has returned: text
\* is changed back, which may fail for a link and leaves out a name; an offset
\* that does not fit the int is cut, to a number or to an error.
ReturnToModule ==
    /\ call # NoCall /\ call.phase = "return" /\ call.pos > 1
    /\ LET m == layers[call.pos - 1]
           d == ModuleOp(call.pos - 1, call.op)
           back == [call EXCEPT !.pos = @ - 1]
       IN  IF call.res = "big" /\ d.int
           THEN call' \in {[back EXCEPT !.res = r] : r \in {"cut", "EACCES"}}
           ELSE IF call.res # "ok" \/ d.back = {}
           THEN call' = back
           ELSE \/ call' = [back EXCEPT !.text = ChangedPath(m, @)]
                \/ d.back = {"rellinks"} /\ call' = back
                \/ call.op = "readdir" /\ call' = [back EXCEPT !.text = NullPath]
                \/ /\ m = "iconv" /\ call.op = "readlink"
                   /\ \E e \in ChangeErrors(m) : call' = [back EXCEPT !.res = e]
    /\ UNCHANGED <<layers, has, ctx>>

CallStep == EnterWrapper \/ RunModule \/ RunFs \/ ReturnToModule
Returned == call # NoCall /\ call.phase = "return" /\ call.pos = 1
=============================================================================
