---------------------------- MODULE FuseSession -----------------------------
(***************************************************************************)
(* The life of a FUSE session (libfuse/lib/fuse_lowlevel.c) under the      *)
(* driver's main (src/f3/fuse/f3.cc): set-up and clean-up with their error *)
(* paths, the INIT negotiation, the notifications a file system may send,  *)
(* and the retrieve requests, whose answers come as requests of the kernel.*)
(* Sizes are in units of which a page has Page.                            *)
(***************************************************************************)
EXTENDS Integers, FiniteSets

CONSTANTS
    Page, MaxMaxPages, DefaultMaxPages,   \* getpagesize, FUSE_MAX_MAX_PAGES, FUSE_DEFAULT_...
    Majors, Minors,   \* protocol versions of the kernels
    Offers,           \* sets of flags a kernel may offer
    Retrieves         \* retrieve requests of the file system

ASSUME SessionAssumption ==
    /\ Page \in Nat \ {0} /\ DefaultMaxPages \in Nat \ {0}
    /\ MaxMaxPages \in Nat /\ MaxMaxPages >= DefaultMaxPages

VARIABLES
    spc,        \* where main is
    owned,      \* what main has to give back: "session", "handlers", "mount"
    se,         \* fields of struct fuse_session, conn included
    ops,        \* the operations the file system implements
    fs,         \* which init it has: "f3", "f3nosplice", "high", "other"
    inits, destroys,   \* how often its init and destroy were called
    initout,    \* the answer to INIT
    retr,       \* retr[r]: the state of a retrieve request
    sent        \* whether the kernel was sent a notification
sessionVars == <<spc, owned, se, ops, fs, inits, destroys, initout, retr, sent>>

Header == Page              \* FUSE_BUFFER_HEADER_SIZE
MinReadBuffer == 2 * Page   \* FUSE_MIN_READ_BUFFER
NoLimit == 1000             \* UINT_MAX, as max_write is set by fuse_session_new
NoAnswer == [kind |-> "none"]
AtMost(a, b) == IF a < b THEN a ELSE b

NewSession == [got_init |-> FALSE, got_destroy |-> FALSE, exited |-> FALSE, error |-> FALSE,
               major |-> 0, minor |-> 0, capable |-> {}, want |-> {}, max_write |-> NoLimit,
               max_background |-> 0, congestion |-> 0, bufsize |-> MaxMaxPages * Page + Header]

\* Of the operations that the negotiation asks for, those of assign_operations.
DriverOps == {"write_buf", "flock", "readdir", "readdirplus"}

SessionInit ==
    /\ spc = "new" /\ owned = {} /\ se = NewSession
    /\ ops \in {DriverOps, {"readdir", "getlk", "setlk"}}
    /\ fs \in {"f3", "f3nosplice", "high", "other"} /\ (fs \in {"f3", "f3nosplice"} => ops = DriverOps)
    /\ inits = 0 /\ destroys = 0 /\ initout = NoAnswer
    /\ retr = [r \in Retrieves |-> "none"] /\ sent = FALSE

-----------------------------------------------------------------------------
(***************************************************************************)
(* INIT.                                                                   *)
(***************************************************************************)
\* The flags of the kernel that have a capability of the same name.
InitFlags == {"ASYNC_READ", "POSIX_LOCKS", "ATOMIC_O_TRUNC", "EXPORT_SUPPORT", "DONT_MASK",
    "FLOCK_LOCKS", "AUTO_INVAL_DATA", "READDIRPLUS", "READDIRPLUS_AUTO", "ASYNC_DIO",
    "WRITEBACK_CACHE", "NO_OPEN_SUPPORT", "PARALLEL_DIROPS", "POSIX_ACL", "HANDLE_KILLPRIV",
    "CACHE_SYMLINKS", "NO_OPENDIR_SUPPORT", "EXPLICIT_INVAL_DATA"}
Capable(minor, flags) ==
    (IF minor >= 6 THEN flags \intersect InitFlags ELSE {})
    \union (IF minor >= 14 THEN {"SPLICE_WRITE", "SPLICE_MOVE", "SPLICE_READ"} ELSE {})
    \union (IF minor >= 18 THEN {"IOCTL_DIR"} ELSE {})

\* LL_SET_DEFAULT: what is wanted unless init says otherwise.
DefaultWant(capable) ==
    capable \intersect
    ({"ASYNC_READ", "PARALLEL_DIROPS", "AUTO_INVAL_DATA", "HANDLE_KILLPRIV", "ASYNC_DIO",
      "IOCTL_DIR", "ATOMIC_O_TRUNC"}
     \union {c \in {"SPLICE_READ"} : "write_buf" \in ops}
     \union {c \in {"POSIX_LOCKS"} : {"getlk", "setlk"} \subseteq ops}
     \union {c \in {"FLOCK_LOCKS"} : "flock" \in ops}
     \union {c \in {"READDIRPLUS"} : "readdirplus" \in ops}
     \union {c \in {"READDIRPLUS_AUTO"} : {"readdir", "readdirplus"} \subseteq ops})

\* Which of them are told to the kernel.
SentFlags == {"ASYNC_READ", "POSIX_LOCKS", "ATOMIC_O_TRUNC", "EXPORT_SUPPORT", "DONT_MASK",
    "FLOCK_LOCKS", "AUTO_INVAL_DATA", "READDIRPLUS", "READDIRPLUS_AUTO", "ASYNC_DIO",
    "WRITEBACK_CACHE", "POSIX_ACL", "CACHE_SYMLINKS", "EXPLICIT_INVAL_DATA"}

\* sfs_init of the driver, the time-out being zero.
sfs_init(want, capable, nosplice) ==
    want \union (capable \intersect ({"EXPORT_SUPPORT", "FLOCK_LOCKS"}
                 \union (IF nosplice THEN {} ELSE {"SPLICE_WRITE", "SPLICE_READ"})))

\* fuse_fs_init of the high-level library, called by fuse_lib_init for a file
\* system whose operations are fsops.
fuse_fs_init(want, fsops) ==
    want \ ({c \in {"SPLICE_READ"} : "write_buf" \notin fsops}
            \union {c \in {"POSIX_LOCKS"} : "lock" \notin fsops}
            \union {c \in {"FLOCK_LOCKS"} : "flock" \notin fsops})
fuse_lib_init(want, capable, fsops) ==
    fuse_fs_init(want \union (capable \intersect {"EXPORT_SUPPORT"}), fsops)

\* What init makes of the wanted capabilities.
Wants(want, capable) ==
    CASE fs = "f3" -> {sfs_init(want, capable, FALSE)}
      [] fs = "f3nosplice" -> {sfs_init(want, capable, TRUE)}
      [] fs = "high" -> {fuse_lib_init(want, capable, ops)}
      [] OTHER -> {want, want \union {"POSIX_ACL"}, {}}

\* The receive buffer: smaller for kernels that do not know FUSE_MAX_PAGES.
BufferFor(minor, flags) ==
    IF minor >= 6 /\ "MAX_PAGES" \notin flags
    THEN AtMost(se.bufsize, DefaultMaxPages * Page + Header) ELSE se.bufsize

BufferCut(max_write, bufsize) ==
    IF max_write < bufsize - Header THEN max_write + Header ELSE bufsize

MaxPagesRoundedDown(max_write) == max_write \div Page
MaxPages(max_write) == (max_write - 1) \div Page + 1

SupportedWant(want, capable) == want \subseteq capable

\* Versions other than 7: an older kernel is refused, a newer one asked to come
\* again with a 7.
InitOtherMajor ==
    \E major \in Majors \ {7}, minor \in Minors :
       /\ spc = "loop" /\ ~se.got_init
       /\ se' = [se EXCEPT !.major = major, !.minor = minor]
       /\ initout' = [kind |-> IF major < 7 THEN "EPROTO" ELSE "again"]
       /\ UNCHANGED <<spc, owned, ops, fs, inits, destroys, retr, sent>>

\* The sizes of the receive buffer and of a write, when init asks for mw.
InitBuffer(minor, flags) ==
    LET b == BufferFor(minor, flags) IN IF b < MinReadBuffer THEN MinReadBuffer ELSE b
InitMaxWrite(minor, flags, mw) == AtMost(AtMost(se.max_write, InitBuffer(minor, flags) - Header), mw)

\* What the session keeps and the kernel is told; ok: init asked for nothing that is not there.
InitAnswer(minor, flags, mw, background, want, ok) ==
    LET max_write == InitMaxWrite(minor, flags, mw)
        bufsize == InitBuffer(minor, flags)
    IN
    /\ se' = [se EXCEPT !.major = 7, !.minor = minor, !.capable = Capable(minor, flags), !.want = want,
                 !.got_init = TRUE, !.max_write = max_write,
                 !.bufsize = IF ok THEN BufferCut(max_write, bufsize) ELSE bufsize,
                 !.max_background = background,
                 !.congestion = IF ok /\ minor >= 13 THEN (background * 3) \div 4 ELSE 0,
                 !.error = ~ok, !.exited = ~ok]
    /\ initout' =
         IF ok
         THEN [kind |-> "ok", offered |-> flags,
               flags |-> {"BIG_WRITES"} \union (want \intersect SentFlags) \union (flags \intersect {"MAX_PAGES"}),
               max_write |-> max_write,
               max_pages |-> IF "MAX_PAGES" \in flags THEN MaxPages(max_write) ELSE DefaultMaxPages,
               size |-> IF minor < 5 THEN "compat" ELSE IF minor < 23 THEN "compat22" ELSE "full"]
         ELSE [kind |-> "EPROTO"]

\* do_init for a kernel with version 7.  init may lower max_write (mw), and may ask
\* for a max_read that is not the one of the mount options (badread).
do_init ==
    \E minor \in Minors, flags \in Offers, mw \in 1..((DefaultMaxPages + 1) * Page) \union {NoLimit},
       background \in {0, 4}, badread \in BOOLEAN :
       LET capable == Capable(minor, flags) IN
       /\ spc = "loop" /\ ~se.got_init
       /\ fs # "other" => mw = NoLimit /\ background = 0 /\ ~badread
       /\ \E want \in Wants(DefaultWant(capable), capable) :
             InitAnswer(minor, flags, mw, background, want, SupportedWant(want, capable) /\ ~badread)
       /\ inits' = inits + 1
       /\ UNCHANGED <<spc, owned, ops, fs, destroys, retr, sent>>

-----------------------------------------------------------------------------
(***************************************************************************)
(* main of the driver: each step succeeds, or its error path gives back    *)
(* what there is, in reverse order.  ret is still 0 on these paths.        *)
(***************************************************************************)
Gets(from, to, failed, what) ==
    /\ spc = from
    /\ \/ spc' = to /\ owned' = owned \union {what}
       \/ spc' = failed /\ owned' = owned
    /\ UNCHANGED <<se, ops, fs, inits, destroys, initout, retr, sent>>
fuse_session_new == Gets("new", "signals", "end", "session")
fuse_set_signal_handlers == Gets("signals", "mount", "destroy", "handlers")
fuse_session_mount == Gets("mount", "loop", "remove", "mount")

\* The loop ends: exit was asked for, or the file system was unmounted.
LoopEnds ==
    /\ spc = "loop" /\ spc' = "unmount"
    /\ se' = [se EXCEPT !.exited = TRUE]
    /\ UNCHANGED <<owned, ops, fs, inits, destroys, initout, retr, sent>>

GivesBack(from, to, what) ==
    /\ spc = from /\ spc' = to /\ owned' = owned \ {what}
    /\ UNCHANGED <<se, ops, fs, inits, destroys, initout, retr, sent>>
fuse_session_unmount == GivesBack("unmount", "remove", "mount")
fuse_remove_signal_handlers == GivesBack("remove", "destroy", "handlers")

\* The file system's destroy is called unless the kernel's DESTROY did it.
DestroyedAnyway(s) == s.got_init
DestroyDue(s) == s.got_init /\ ~s.got_destroy
fuse_session_destroy ==
    /\ spc = "destroy" /\ spc' = "end" /\ owned' = owned \ {"session"}
    /\ destroys' = IF DestroyDue(se) THEN destroys + 1 ELSE destroys
    /\ UNCHANGED <<se, ops, fs, inits, initout, retr, sent>>

\* DESTROY, which comes once, after INIT has succeeded.
do_destroy ==
    /\ spc = "loop" /\ initout.kind = "ok" /\ ~se.got_destroy
    /\ se' = [se EXCEPT !.got_destroy = TRUE] /\ destroys' = destroys + 1
    /\ UNCHANGED <<spc, owned, ops, fs, inits, initout, retr, sent>>

-----------------------------------------------------------------------------
(***************************************************************************)
(* Notifications, sent by threads of the file system while the session     *)
(* exists, with the protocol version each needs.                           *)
(***************************************************************************)
fuse_lowlevel_notify_poll == 0
fuse_lowlevel_notify_inval_inode == 12
fuse_lowlevel_notify_inval_entry == 12
fuse_lowlevel_notify_delete == 18
NotifyMinor == {fuse_lowlevel_notify_poll, fuse_lowlevel_notify_inval_inode,
                fuse_lowlevel_notify_inval_entry, fuse_lowlevel_notify_delete}

send_notify_iov == se.got_init

Notify ==
    /\ spc = "loop"
    /\ \E needed \in NotifyMinor : se.minor >= needed
    /\ send_notify_iov
    /\ sent' = TRUE
    /\ UNCHANGED <<spc, owned, se, ops, fs, inits, destroys, initout, retr>>

\* fuse_lowlevel_notify_retrieve: the request is put in notify_list, then sent; the
\* answer may be handled by another thread before the sender goes on.
RetrieveListed(r) ==
    /\ spc = "loop" /\ retr[r] = "none" /\ se.minor >= 15
    /\ retr' = [retr EXCEPT ![r] = "listed"]
    /\ UNCHANGED <<spc, owned, se, ops, fs, inits, destroys, initout, sent>>
RetrieveSent(r) ==
    /\ spc = "loop" /\ retr[r] = "listed"
    /\ \/ send_notify_iov /\ retr' = [retr EXCEPT ![r] = "sent"] /\ sent' = TRUE
       \/ retr' = [retr EXCEPT ![r] = "failed"] /\ sent' = sent
    /\ UNCHANGED <<spc, owned, se, ops, fs, inits, destroys, initout>>
\* An error: the request is taken out of the list and freed.
RetrieveUnlisted(r) == retr' = [retr EXCEPT ![r] = "freed"]
RetrieveFails(r) ==
    /\ retr[r] = "failed" /\ RetrieveUnlisted(r)
    /\ UNCHANGED <<spc, owned, se, ops, fs, inits, destroys, initout, sent>>
\* do_notify_reply and fuse_ll_retrieve_reply: found by its number, taken out,
\* given to the file system, freed.
do_notify_reply(r) ==
    /\ spc = "loop" /\ retr[r] = "sent"
    /\ retr' = [retr EXCEPT ![r] = "done"]
    /\ UNCHANGED <<spc, owned, se, ops, fs, inits, destroys, initout, sent>>

SessionNext ==
    \/ fuse_session_new \/ fuse_set_signal_handlers \/ fuse_session_mount
    \/ InitOtherMajor \/ do_init \/ do_destroy \/ Notify \/ LoopEnds
    \/ fuse_session_unmount \/ fuse_remove_signal_handlers \/ fuse_session_destroy
    \/ \E r \in Retrieves : RetrieveListed(r) \/ RetrieveSent(r) \/ RetrieveFails(r) \/ do_notify_reply(r)
SessionSpec == SessionInit /\ [][SessionNext]_sessionVars

-----------------------------------------------------------------------------
\* When main ends, by whatever path, nothing is left over, and destroy was called
\* exactly if init was (fuse_session_destroy, do_destroy).
CleanEnd == spc = "end" => owned = {} /\ destroys = inits

\* After INIT the receive buffer holds the largest write the kernel was told it may
\* send, and max_pages covers max_write and no page more (do_init).
WritesFit ==
    initout.kind = "ok" =>
        /\ initout.max_write + Header <= se.bufsize
        /\ "MAX_PAGES" \in initout.flags =>
              /\ initout.max_pages * Page >= initout.max_write
              /\ (initout.max_pages - 1) * Page < initout.max_write
              /\ initout.max_pages <= MaxMaxPages

=============================================================================
