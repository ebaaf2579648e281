----------------------------- MODULE FuseStack ------------------------------
(***************************************************************************)
(* A request from the kernel to its answer: fuse_session_process_buf_int   *)
(* and the do_* functions of lib/fuse_lowlevel.c, the handlers fuse_lib_*  *)
(* of lib/fuse.c, the calls of the file system they make (FuseLayers), and *)
(* the fuse_reply_* functions.  Requests are taken one by one here; what   *)
(* threads do to each other is in FuseRequests, FuseTree and FuseWorkers.  *)
(*                                                                         *)
(* A function of a table is a record; the actions interpret the records.   *)
(***************************************************************************)
EXTENDS FuseLayers

CONSTANTS
    LowOps,     \* the sets of low-level operations a session may have
    MaxHeld     \* bound on the handles and look-ups the kernel holds at once

-----------------------------------------------------------------------------
\* Answers.  The form is the function fuse_reply_<form>; "none" sends nothing.

Answer(form, err) == [form |-> form, err |-> err]
NoReply == Answer("none", "ok")
Reply(form) == Answer(form, "ok")
ReplyErr(err) == Answer("err", err)

\* The functions do_*: the low-level operations in the order they are tried,
\* the answer if none is there, the errors answered before that, and whether
\* a flag sends the request to flock instead.
Calls(ops, absent) == [ops |-> ops, absent |-> absent, early |-> {}, flock |-> FALSE]

do_lookup == Calls(<<"lookup">>, ReplyErr("ENOSYS"))
do_forget == Calls(<<"forget">>, NoReply)
do_getattr == Calls(<<"getattr">>, ReplyErr("ENOSYS"))
do_setattr == Calls(<<"setattr">>, ReplyErr("ENOSYS"))
do_readlink == Calls(<<"readlink">>, ReplyErr("ENOSYS"))
do_symlink == Calls(<<"symlink">>, ReplyErr("ENOSYS"))
do_mknod == Calls(<<"mknod">>, ReplyErr("ENOSYS"))
do_mkdir == Calls(<<"mkdir">>, ReplyErr("ENOSYS"))
do_unlink == Calls(<<"unlink">>, ReplyErr("ENOSYS"))
do_rmdir == Calls(<<"rmdir">>, ReplyErr("ENOSYS"))
do_rename == Calls(<<"rename">>, ReplyErr("ENOSYS"))
do_link == Calls(<<"link">>, ReplyErr("ENOSYS"))
do_open == Calls(<<"open">>, Reply("open"))
do_read == Calls(<<"read">>, ReplyErr("ENOSYS"))
do_write == Calls(<<"write">>, ReplyErr("ENOSYS"))
do_write_buf == [Calls(<<"write_buf">>, ReplyErr("EIO")) EXCEPT !.early = {"EIO"}]
do_statfs == Calls(<<"statfs">>, Reply("statfs"))
DoReleaseSilently == Calls(<<"release">>, NoReply)
do_release == Calls(<<"release">>, ReplyErr("ok"))
do_fsync == Calls(<<"fsync">>, ReplyErr("ENOSYS"))
do_setxattr == Calls(<<"setxattr">>, ReplyErr("ENOSYS"))
do_getxattr == Calls(<<"getxattr">>, ReplyErr("ENOSYS"))
do_listxattr == Calls(<<"listxattr">>, ReplyErr("ENOSYS"))
do_removexattr == Calls(<<"removexattr">>, ReplyErr("ENOSYS"))
do_flush == Calls(<<"flush">>, ReplyErr("ENOSYS"))
do_opendir == Calls(<<"opendir">>, Reply("open"))
do_readdir == Calls(<<"readdir">>, ReplyErr("ENOSYS"))
do_releasedir == Calls(<<"releasedir">>, ReplyErr("ok"))
do_fsyncdir == Calls(<<"fsyncdir">>, ReplyErr("ENOSYS"))
do_getlk == Calls(<<"getlk">>, ReplyErr("ENOSYS"))
do_setlk_common == [Calls(<<"setlk">>, ReplyErr("ENOSYS")) EXCEPT !.flock = TRUE]
do_setlk == do_setlk_common
do_setlkw == do_setlk_common
do_access == Calls(<<"access">>, ReplyErr("ENOSYS"))
do_create == Calls(<<"create">>, ReplyErr("ENOSYS"))
do_bmap == Calls(<<"bmap">>, ReplyErr("ENOSYS"))
do_ioctl == [Calls(<<"ioctl">>, ReplyErr("ENOSYS")) EXCEPT !.early = {"ENOTTY"}]
do_poll == [Calls(<<"poll">>, ReplyErr("ENOSYS")) EXCEPT !.early = {"ENOMEM"}]
do_fallocate == Calls(<<"fallocate">>, ReplyErr("ENOSYS"))
do_batch_forget == Calls(<<"forget_multi", "forget">>, NoReply)
do_readdirplus == Calls(<<"readdirplus">>, ReplyErr("ENOSYS"))
do_rename2 == Calls(<<"rename">>, ReplyErr("ENOSYS"))
do_copy_file_range == Calls(<<"copy_file_range">>, ReplyErr("ENOSYS"))
do_lseek == Calls(<<"lseek">>, ReplyErr("ENOSYS"))

fuse_ll_ops == [
    LOOKUP |-> do_lookup, FORGET |-> do_forget,
    GETATTR |-> do_getattr, SETATTR |-> do_setattr,
    READLINK |-> do_readlink, SYMLINK |-> do_symlink,
    MKNOD |-> do_mknod, MKDIR |-> do_mkdir,
    UNLINK |-> do_unlink, RMDIR |-> do_rmdir,
    RENAME |-> do_rename, LINK |-> do_link,
    OPEN |-> do_open, READ |-> do_read,
    WRITE |-> do_write, STATFS |-> do_statfs,
    RELEASE |-> do_release, FSYNC |-> do_fsync,
    SETXATTR |-> do_setxattr, GETXATTR |-> do_getxattr,
    LISTXATTR |-> do_listxattr, REMOVEXATTR |-> do_removexattr,
    FLUSH |-> do_flush, OPENDIR |-> do_opendir,
    READDIR |-> do_readdir, RELEASEDIR |-> do_releasedir,
    FSYNCDIR |-> do_fsyncdir, GETLK |-> do_getlk,
    SETLK |-> do_setlk, SETLKW |-> do_setlkw,
    ACCESS |-> do_access, CREATE |-> do_create,
    BMAP |-> do_bmap, IOCTL |-> do_ioctl,
    POLL |-> do_poll, FALLOCATE |-> do_fallocate,
    BATCH_FORGET |-> do_batch_forget, READDIRPLUS |-> do_readdirplus,
    RENAME2 |-> do_rename2, COPY_FILE_RANGE |-> do_copy_file_range,
    LSEEK |-> do_lseek]

-----------------------------------------------------------------------------
(***************************************************************************)
(* The handlers fuse_lib_*.  A call of the file system is made              *)
(*   asks     only if the request asks for it, under this name, or ""      *)
(*   after    only if this operation succeeded before, or ""               *)
(*   on       while there is no error ("ok"), whatever came before ("any"),*)
(*            after an error ("bad"), or after ENOSYS                      *)
(*   unless   not if the request asks for that operation                   *)
(* and its result is the handler's error unless keep.  look: lookup_path,  *)
(* getattr and a reference to the node; regular: another kind of file is   *)
(* EIO; lock: the unlocking in fuse_flush_common; clear: ENOSYS of a flush  *)
(* is no error.                                                            *)
(***************************************************************************)
Do(op) == [op |-> op, asks |-> "", after |-> "", on |-> "ok", unless |-> "", keep |-> FALSE,
           look |-> FALSE, regular |-> FALSE, lock |-> FALSE, clear |-> FALSE]
Opt(op) == [Do(op) EXCEPT !.asks = op]
Ignored(op, after, on) == [Do(op) EXCEPT !.after = after, !.on = on, !.keep = TRUE]
lookup_path(after) == [Do("getattr") EXCEPT !.after = after, !.look = TRUE]
Look(after) == lookup_path(after)

\* path: the lock of the node's path fails and that is the answer ("path"), it
\* is NULL for a file system that allows it ("nullok"), either of the two
\* ("either"), its failure is ignored, or there is none.  start: the error
\* before the first call.  undo: the call after an answer nobody waited for.
Handler(path, calls, forms) ==
    [path |-> path, calls |-> calls, forms |-> forms, early |-> {}, start |-> "ok",
     undo |-> "", negative |-> FALSE, local |-> FALSE, result |-> FALSE]

fuse_lib_lookup == [Handler("path", <<Look("")>>, {"entry"}) EXCEPT !.negative = TRUE]
fuse_lib_forget == Handler("none", <<>>, {"none"})
fuse_lib_forget_multi == Handler("none", <<>>, {"none"})
fuse_lib_getattr == Handler("either", <<Do("getattr")>>, {"attr"})
fuse_lib_setattr == Handler("either",
    <<Opt("chmod"), Opt("chown"), Opt("truncate"), Opt("utimens"), Do("getattr")>>, {"attr"})
fuse_lib_access == Handler("path", <<Do("access")>>, {"err"})
fuse_lib_readlink == Handler("path", <<Do("readlink")>>, {"readlink"})
fuse_lib_mknod == [Handler("path",
    <<[Opt("create") EXCEPT !.on = "any"], Look("create"), Ignored("release", "create", "any"),
      [Do("mknod") EXCEPT !.on = "ENOSYS"], Look("mknod")>>, {"entry"}) EXCEPT !.start = "ENOSYS"]
fuse_lib_mkdir == Handler("path", <<Do("mkdir"), Look("mkdir")>>, {"entry"})
fuse_lib_symlink == Handler("path", <<Do("symlink"), Look("symlink")>>, {"entry"})
fuse_lib_link == Handler("path", <<Do("link"), Look("link")>>, {"entry"})
fuse_lib_unlink == Handler("path", <<Opt("rename"), [Do("unlink") EXCEPT !.unless = "rename"]>>, {"err"})
fuse_lib_rmdir == Handler("path", <<Do("rmdir")>>, {"err"})
fuse_lib_rename == Handler("path", <<Opt("rename"), Do("rename")>>, {"err"})
CreateKeepsHandle == [Handler("path",
    <<Do("create"), [Look("create") EXCEPT !.regular = TRUE]>>, {"create"}) EXCEPT !.undo = "release"]
fuse_lib_create == [Handler("path",
    <<Do("create"), [Look("create") EXCEPT !.regular = TRUE], Ignored("release", "create", "bad")>>,
    {"create"}) EXCEPT !.undo = "release"]
open_auto_cache == [Opt("getattr") EXCEPT !.after = "open", !.keep = TRUE]
fuse_lib_open ==
    [Handler("path", <<Do("open"), open_auto_cache>>, {"open"}) EXCEPT !.undo = "release"]
fuse_lib_read == Handler("nullok", <<Do("read_buf")>>, {"data"})
fuse_lib_write_buf == Handler("nullok", <<Do("write_buf")>>, {"write"})
fuse_flush_common(flush) ==
    <<[flush EXCEPT !.on = "any"], [flush EXCEPT !.op = "lock", !.on = "any", !.lock = TRUE]>>
fuse_lib_flush == Handler("ignored", fuse_flush_common(Do("flush")), {"err"})
fuse_do_release == [Ignored("release", "", "any") EXCEPT !.clear = TRUE]
fuse_lib_release == Handler("ignored",
    Append(fuse_flush_common([Opt("flush") EXCEPT !.asks = "flush"]), fuse_do_release), {"err"})
fuse_lib_fsync == Handler("nullok", <<Do("fsync")>>, {"err"})
fuse_lib_opendir == [Handler("path", <<Do("opendir")>>, {"open"})
                        EXCEPT !.undo = "releasedir", !.early = {"ENOMEM"}]
fuse_lib_readdir == Handler("either", <<Do("readdir")>>, {"buf"})
fuse_lib_readdirplus == Handler("either", <<Do("readdir")>>, {"buf"})
fuse_lib_releasedir == Handler("ignored", <<Ignored("releasedir", "", "any")>>, {"err"})
fuse_lib_fsyncdir == Handler("nullok", <<Do("fsyncdir")>>, {"err"})
fuse_lib_statfs == Handler("path", <<Do("statfs")>>, {"statfs"})
fuse_lib_setxattr == Handler("path", <<Do("setxattr")>>, {"err"})
fuse_lib_getxattr == [Handler("path", <<Do("getxattr")>>, {"buf", "xattr", "err"})
                         EXCEPT !.early = {"ENOMEM"}]
fuse_lib_listxattr == [Handler("path", <<Do("listxattr")>>, {"buf", "xattr", "err"})
                         EXCEPT !.early = {"ENOMEM"}]
fuse_lib_removexattr == Handler("path", <<Do("removexattr")>>, {"err"})
fuse_lib_getlk == [Handler("nullok", <<Do("lock")>>, {"lock"}) EXCEPT !.local = TRUE]
fuse_lib_setlk == Handler("nullok", <<Do("lock")>>, {"err"})
fuse_lib_flock == Handler("nullok", <<Do("flock")>>, {"err"})
fuse_lib_bmap == Handler("path", <<Do("bmap")>>, {"bmap"})
fuse_lib_ioctl == [Handler("nullok", <<Do("ioctl")>>, {"ioctl"})
                      EXCEPT !.early = {"EPERM", "ENOMEM"}, !.result = TRUE]
fuse_lib_poll == Handler("nullok", <<Do("poll")>>, {"poll"})
fuse_lib_fallocate == Handler("nullok", <<Do("fallocate")>>, {"err"})
fuse_lib_copy_file_range == Handler("nullok", <<Do("copy_file_range")>>, {"write"})
fuse_lib_lseek == Handler("path", <<Do("lseek")>>, {"lseek"})

fuse_path_ops == [
    lookup |-> fuse_lib_lookup, forget |-> fuse_lib_forget,
    forget_multi |-> fuse_lib_forget_multi, getattr |-> fuse_lib_getattr,
    setattr |-> fuse_lib_setattr, access |-> fuse_lib_access,
    readlink |-> fuse_lib_readlink, mknod |-> fuse_lib_mknod,
    mkdir |-> fuse_lib_mkdir, unlink |-> fuse_lib_unlink,
    rmdir |-> fuse_lib_rmdir, symlink |-> fuse_lib_symlink,
    rename |-> fuse_lib_rename, link |-> fuse_lib_link,
    create |-> fuse_lib_create, open |-> fuse_lib_open,
    read |-> fuse_lib_read, write_buf |-> fuse_lib_write_buf,
    flush |-> fuse_lib_flush, release |-> fuse_lib_release,
    fsync |-> fuse_lib_fsync, opendir |-> fuse_lib_opendir,
    readdir |-> fuse_lib_readdir, readdirplus |-> fuse_lib_readdirplus,
    releasedir |-> fuse_lib_releasedir, fsyncdir |-> fuse_lib_fsyncdir,
    statfs |-> fuse_lib_statfs, setxattr |-> fuse_lib_setxattr,
    getxattr |-> fuse_lib_getxattr, listxattr |-> fuse_lib_listxattr,
    removexattr |-> fuse_lib_removexattr, getlk |-> fuse_lib_getlk,
    setlk |-> fuse_lib_setlk, flock |-> fuse_lib_flock,
    bmap |-> fuse_lib_bmap, ioctl |-> fuse_lib_ioctl,
    poll |-> fuse_lib_poll, fallocate |-> fuse_lib_fallocate,
    copy_file_range |-> fuse_lib_copy_file_range, lseek |-> fuse_lib_lseek]

-----------------------------------------------------------------------------
VARIABLES
    low,       \* se.op: the low-level operations of the session
    nullpath,  \* conf.nullpath_ok
    q,         \* the request being handled, or NoRequest
    answers,   \* what was sent for it
    log,       \* the results of its calls of the file system
    held,      \* open files, open directories and look-ups, as libfuse and the
    kern       \* file system count them, and as the kernel does

stackVars == <<layerVars, low, nullpath, q, answers, log, held, kern>>

NoRequest == [stage |-> "none"]
Nothing == [files |-> 0, dirs |-> 0, looks |-> 0]
Success(r) == r \in {"ok", "odd", "big", "cut"}
handler == fuse_path_ops[q.op]
Asks(h) == {h.calls[k].asks : k \in DOMAIN h.calls} \ {""}

StackInit ==
    /\ layers \in Stacks /\ has \in FsOps /\ call = NoCall /\ ctx = 0
    /\ low \in LowOps /\ nullpath \in BOOLEAN
    /\ q = NoRequest /\ answers = <<>> /\ log = <<>>
    /\ held = Nothing /\ kern = Nothing

\* What the kernel gives up when it sends a request, and what it gets with an
\* answer: a handle is released once, a look-up forgotten once.
GivesUp(code) ==
    CASE code = "RELEASE" -> "files" [] code = "RELEASEDIR" -> "dirs"
      [] code \in {"FORGET", "BATCH_FORGET"} -> "looks" [] OTHER -> "nothing"

\* The kernel sends a request (only when the last one is answered).
Arrive ==
    /\ q = NoRequest
    /\ \E code \in DOMAIN fuse_ll_ops, other \in BOOLEAN :
          LET g == GivesUp(code)
          IN  /\ g # "nothing" => kern[g] > 0 /\ ~other
              /\ \A k \in DOMAIN kern : kern[k] < MaxHeld \/ g # "nothing"
              /\ kern' = IF g = "nothing" THEN kern ELSE [kern EXCEPT ![g] = @ - 1]
              /\ q' = [stage |-> "process", code |-> code, op |-> "", other |-> other,
                       asked |-> {}, path |-> <<>>, k |-> 1, err |-> "ok", done |-> {},
                       looks |-> 0, ended |-> FALSE]
    /\ answers' = <<>> /\ log' = <<>>
    /\ UNCHANGED <<layerVars, low, nullpath, held>>

Gets(code, looks) ==
    CASE code = "OPEN" -> [kern EXCEPT !.files = @ + 1]
      [] code = "CREATE" -> [kern EXCEPT !.files = @ + 1, !.looks = @ + looks]
      [] code = "OPENDIR" -> [kern EXCEPT !.dirs = @ + 1]
      [] OTHER -> [kern EXCEPT !.looks = @ + looks]

Sends(a) == answers' = IF a.form = "none" THEN answers ELSE Append(answers, a)

\* With allow_root, other users may only go on with files they have open.
OpenFileCodes == {"READ", "WRITE", "FSYNC", "RELEASE", "READDIR", "FSYNCDIR", "RELEASEDIR",
                  "READDIRPLUS"}

\* fuse_session_process_buf_int and the do_* function it calls, up to the call
\* of the low-level operation or the answer in its absence.
process_buf ==
    /\ q # NoRequest /\ q.stage = "process"
    /\ LET d == IF q.code = "WRITE" /\ "write_buf" \in low THEN do_write_buf
                ELSE fuse_ll_ops[q.code]
           tried(flock) == SelectSeq(IF flock THEN <<"flock">> ELSE d.ops,
                                     LAMBDA o : o \in low)
           end(a) == /\ Sends(a) /\ q' = [q EXCEPT !.stage = "end"]
                     /\ kern' = IF a = Reply("open") THEN Gets(q.code, 0) ELSE kern
       IN  IF q.other /\ q.code \notin OpenFileCodes
           THEN end(ReplyErr("EACCES"))
           ELSE \/ \E e \in d.early : end(ReplyErr(e))
                \/ \E flock \in {FALSE, d.flock} :
                      IF tried(flock) = <<>> THEN end(d.absent)
                      ELSE /\ q' = [q EXCEPT !.stage = "handle", !.op = Head(tried(flock))]
                           /\ UNCHANGED <<answers, kern>>
    /\ UNCHANGED <<layerVars, low, nullpath, log, held>>

\* A handler up to its first call: an early error, the path (or NULL), or the
\* error of its lock; a lock known to conflict is answered at once.
Handle ==
    /\ q # NoRequest /\ q.stage = "handle"
    /\ LET h == handler
           fails(e) == q' = [q EXCEPT !.stage = "answer", !.err = e, !.ended = TRUE]
           begins(path) ==
               \E asked \in SUBSET Asks(h) :
                  q' = [q EXCEPT !.stage = "calls", !.path = path, !.asked = asked,
                                 !.err = h.start]
       IN  \/ \E e \in h.early : fails(e)
           \/ h.path \in {"path", "either", "nullok"} /\ fails("ESTALE")
           \/ h.local /\ q' = [q EXCEPT !.stage = "answer"]
           \/ begins(<<>>)
           \/ /\ h.path = "ignored" \/ (nullpath /\ h.path \in {"either", "nullok"})
              /\ begins(NullPath)
    /\ UNCHANGED <<layerVars, low, nullpath, answers, log, held, kern>>

Applies(c) ==
    /\ c.asks # "" => c.asks \in q.asked
    /\ c.unless # "" => c.unless \notin q.asked
    /\ c.after # "" => c.after \in q.done
    /\ CASE c.on = "ok" -> q.err = "ok" [] c.on = "bad" -> q.err # "ok"
         [] c.on = "any" -> TRUE [] OTHER -> q.err = c.on

Args(op) == IF op \in {"rename", "link", "symlink", "copy_file_range"}
            THEN <<q.path, q.path>> ELSE <<q.path>>

\* The next call of the handler, if it applies; the answer after the last.
NextCall ==
    /\ q # NoRequest /\ q.stage = "calls" /\ call = NoCall
    /\ IF q.k > Len(handler.calls)
       THEN q' = [q EXCEPT !.stage = "answer"] /\ call' = call
       ELSE LET c == handler.calls[q.k]
            IN  IF Applies(c)
                THEN call' = StartCall(c.op, Args(c.op)) /\ q' = q
                ELSE call' = call /\ q' = [q EXCEPT !.k = @ + 1]
    /\ UNCHANGED <<layers, has, ctx, low, nullpath, answers, log, held, kern>>

\* Handles made and released by a call of the file system.
HeldAfter(h, op, ok) ==
    CASE op \in {"open", "create"} /\ ok -> [h EXCEPT !.files = @ + 1]
      [] op = "opendir" /\ ok -> [h EXCEPT !.dirs = @ + 1]
      [] op = "release" -> [h EXCEPT !.files = @ - 1]
      [] op = "releasedir" -> [h EXCEPT !.dirs = @ - 1]
      [] OTHER -> h

\* The error after a call of which the result is r.
ErrAfter(c, r) ==
    CASE c.lock -> IF r # "ENOSYS" /\ q.err = "ENOSYS" THEN "ok" ELSE q.err
      [] c.keep -> IF c.clear /\ q.err = "ENOSYS" THEN "ok" ELSE q.err
      [] OTHER -> IF c.regular /\ r = "odd" THEN "EIO"
                  ELSE IF Success(r) THEN "ok" ELSE r

CallReturns ==
    /\ q # NoRequest /\ q.stage = "calls" /\ Returned
    /\ LET c == handler.calls[q.k]
           r == call.res
           look == IF c.look /\ ErrAfter(c, r) = "ok" THEN 1 ELSE 0
       IN  /\ q' = [q EXCEPT !.k = @ + 1, !.err = ErrAfter(c, r), !.looks = @ + look,
                             !.done = IF Success(r) THEN @ \cup {c.op} ELSE @]
           /\ held' = [HeldAfter(held, c.op, Success(r)) EXCEPT !.looks = @ + look]
           /\ log' = Append(log, [op |-> c.op, res |-> r])
    /\ call' = NoCall
    /\ UNCHANGED <<layers, has, ctx, low, nullpath, answers, kern>>

\* The answer, taken by the kernel or refused with ENOENT because nobody waits
\* for it any more: then what an open, a create or a look-up made is undone.
Answered ==
    /\ q # NoRequest /\ q.stage = "answer"
    /\ LET h == handler
           negative == h.negative /\ q.err = "ENOENT"
           ok == q.err = "ok" \/ (h.result /\ ~q.ended)
           looked == IF ok THEN q.looks ELSE 0
           undone == [held EXCEPT !.looks = @ - looked]
       IN  \E a \in (IF ok THEN {Answer(f, q.err) : f \in h.forms}
                     ELSE {ReplyErr(q.err)} \cup (IF negative THEN {Reply("entry")} ELSE {})) :
              /\ Sends(a)
              /\ \/ /\ q' = [q EXCEPT !.stage = "end"]
                    /\ kern' = IF ok THEN Gets(q.code, looked) ELSE kern
                    /\ held' = IF a.form = "none" THEN [held EXCEPT !.looks = @ - 1] ELSE held
                    /\ call' = call
                 \/ /\ a.form # "none" /\ kern' = kern
                    /\ held' = undone
                    /\ IF ok /\ h.undo # ""
                       THEN q' = [q EXCEPT !.stage = "undo"] /\ call' = StartCall(h.undo, Args(h.undo))
                       ELSE q' = [q EXCEPT !.stage = "end"] /\ call' = call
    /\ UNCHANGED <<layers, has, ctx, low, nullpath, log>>

\* The cancelled open is released.
Undone ==
    /\ q # NoRequest /\ q.stage = "undo" /\ Returned
    /\ held' = HeldAfter(held, handler.undo, TRUE)
    /\ q' = [q EXCEPT !.stage = "end"] /\ call' = NoCall
    /\ UNCHANGED <<layers, has, ctx, low, nullpath, answers, log, kern>>

\* The thread goes back to read the next request.
Done ==
    /\ q # NoRequest /\ q.stage = "end"
    /\ q' = NoRequest
    /\ UNCHANGED <<layerVars, low, nullpath, answers, log, held, kern>>

LayerStep == CallStep /\ UNCHANGED <<low, nullpath, q, answers, log, held, kern>>

StackNext ==
    \/ Arrive \/ process_buf \/ Handle \/ NextCall \/ CallReturns \/ Answered \/ Undone \/ Done
    \/ LayerStep

-----------------------------------------------------------------------------
(***************************************************************************)
(* Properties                                                              *)
(***************************************************************************)

Ended == q # NoRequest /\ q.stage = "end"

\* The replies documented for each low-level operation in fuse_lowlevel.h.
ValidReplies(op) ==
    {"err"} \cup
    CASE op \in {"lookup", "mknod", "mkdir", "symlink", "link"} -> {"entry"}
      [] op \in {"getattr", "setattr"} -> {"attr"}
      [] op \in {"open", "opendir"} -> {"open"}
      [] op \in {"write", "write_buf", "copy_file_range"} -> {"write"}
      [] op \in {"read", "readdir", "readdirplus"} -> {"buf", "data"}
      [] op \in {"getxattr", "listxattr"} -> {"buf", "data", "xattr"}
      [] op \in {"readlink", "create", "statfs", "bmap", "ioctl", "poll", "lseek"} -> {op}
      [] op = "getlk" -> {"lock"}
      [] OTHER -> {}

\* Between two requests the file system has as many open files and directories
\* as the kernel has handles, and libfuse as many look-ups as the kernel will
\* forget: also after a create of which the look-up fails or finds no regular
\* file, and after an open that was interrupted.
NothingLost == q = NoRequest /\ low # {} => held = kern

\* Failures that need not reach the kernel: of a release, of the unlocking at
\* a flush, of the refresh of cached attributes; a missing flush when the file
\* is released or the file system has locks; a create the file system does
\* not have when mknod replaces it; an absent name that is to be cached.
Tolerated(c) ==
    \/ c.op \in {"release", "releasedir"}
    \/ c.op = "lock" /\ q.code \in {"FLUSH", "RELEASE"}
    \/ c.op = "flush" /\ c.res = "ENOSYS"
    \/ c.op = "getattr" /\ q.code = "OPEN"
    \/ c.op \in {"create", "getattr"} /\ q.code = "MKNOD" /\ c.res = "ENOSYS"
    \/ c.op = "getattr" /\ q.code = "LOOKUP" /\ c.res = "ENOENT"

\* Every request is answered exactly once, in a form the kernel expects for
\* it, and a forget never, whatever operations are missing, whichever call
\* fails, and whether or not the answer is still wanted: a second answer may
\* reach the request that got the same number next, a missing one blocks the
\* process that waits for it.  The answer tells what happened: it is not success
\* when a call failed (a SETATTR of which the chown failed after the chmod, a
\* MKDIR whose look-up failed, a flush that lost data).
AnsweredTruly ==
    Ended => IF q.code \in {"FORGET", "BATCH_FORGET"} THEN answers = <<>>
             ELSE /\ Len(answers) = 1
                  /\ q.op # "" => answers[1].form \in ValidReplies(q.op)
                  /\ answers[1].err = "ok" => \A k \in DOMAIN log : Success(log[k].res) \/ Tolerated(log[k])

Converters == SelectSeq(layers, LAMBDA m : m = "iconv")

\* The file system gets every path changed by each module once, in the order of
\* the stack, and the text of a symbolic link converted but not moved; the
\* names and links it returns are converted back once by each iconv layer.
PathsChanged ==
    /\ call # NoCall /\ call.phase = "run" /\ call.pos > Len(layers) =>
          \A k \in DOMAIN call.args :
             \/ call.args[k] = NullPath
             \/ call.args[k] = IF call.op = "symlink" /\ k = 1 THEN Converters ELSE layers
    /\ Returned /\ call.res = "ok" /\ call.op \in {"readlink", "readdir"} =>
          \/ NullPath[1] \in Range(call.text)
          \/ SelectSeq(call.text, LAMBDA m : m = "iconv") = Converters
=============================================================================
