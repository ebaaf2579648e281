------------------------------ MODULE FuseLife ------------------------------
(***************************************************************************)
(* The life of a program that serves a file system: what it gets on the    *)
(* way up, what each error path and the way down give back.  The functions *)
(* of lib/helper.c, lib/fuse.c, lib/fuse_lowlevel.c, lib/cuse_lowlevel.c   *)
(* and the mains of the examples are tables, run by one small machine.     *)
(***************************************************************************)
EXTENDS Naturals, Sequences, FiniteSets

CONSTANTS LifePrograms,   \* mains that are run
          MaxLifeFaults   \* steps that fail in one run

VARIABLES
    main, frames,   \* the main, and the functions that are active, innermost last
    have,           \* what the program has
    failed,         \* steps that have failed
    wrong,          \* what was given back without being there
    status, served, \* the result of main; whether the loop has ended well
    parent,         \* the parent of a daemon: "none", "waiting", "told", "exited"
    foreground, modules, \* options
    passed          \* the device was opened by the caller: the mount point is /dev/fd/N
lifeVars == <<main, frames, have, failed, wrong, status, served, parent, foreground, modules, passed>>

\* A function: steps up, each with the label it jumps to when it fails (0: it returns at
\* once; Unchecked: the result is not looked at; Sure: it cannot fail); steps down, the labels
\* being their numbers.  One that keeps what it got does not run down when it succeeds.  ret is
\* main's result when a step fails.
Unchecked == 98
Sure == 99
Function(up, down) == [up |-> up, down |-> down, keeps |-> FALSE, ret |-> "error"]
Keeps(f) == [f EXCEPT !.keeps = TRUE]
Gain(r, label) == [k |-> "gain", r |-> {r}, label |-> label]
GainAll(r, name, label) == [k |-> "gain", r |-> r, name |-> name, label |-> label]
Try(name, label) == [k |-> "try", r |-> name, label |-> label]
Invoke(f, label) == [k |-> "invoke", r |-> f, label |-> label]
\* Help or version wanted; or no mount point given, which some mains do not look for.
AskedHelp(label) == [k |-> "asked", r |-> {"helped"}, label |-> label]
AskedOrNone(label) == [k |-> "asked", r |-> {"helped", "error"}, label |-> label]
Give(r) == [k |-> "give", r |-> r, v |-> r]
GiveIf(r) == [k |-> "giveif", r |-> r, v |-> r]
GiveWhen(v, r) == [k |-> "givewhen", r |-> r, v |-> v]
Perform(f) == [k |-> "perform", r |-> f, v |-> f]
GiveUnless(v, r) == [k |-> "giveunless", r |-> r, v |-> v]
PerformWhen(v, f) == [k |-> "performwhen", r |-> f, v |-> v]
NameOf(s) == IF "name" \in DOMAIN s THEN s.name ELSE IF s.k = "gain" THEN CHOOSE x \in s.r : TRUE ELSE s.r

-----------------------------------------------------------------------------
fuse_session_new ==
    Keeps(Function(<<Gain("se", 0), Try("ll_opts", 4), Gain("mo", 3), Try("unknown option", 2), Gain("lock", Sure), Gain("pipe_key", 1)>>,
                   <<Give("lock"), GiveIf("args"), GiveIf("mo"), Give("se")>>))
\* sefd: se->fd is set, which the error path leaves.
fuse_session_mount ==
    Keeps(Function(<<GainAll({"fd", "sefd"}, "mount", 0), Gain("mount", Sure), Gain("se->mountpoint", 1)>>, <<Give("mount"), Give("fd")>>))
KernUnmount == Function(<<>>, <<Give("mount"), Give("fd"), Give("sefd"), Give("se->mountpoint")>>)
fuse_session_unmount == Function(<<>>, <<PerformWhen("se->mountpoint", "KernUnmount")>>)
fuse_session_destroy ==
    Function(<<>>, <<PerformWhen("got_init", "fuse_lib_destroy"), Give("pipe_key"), Give("lock"), GiveIf("cuse_data"),
                     GiveWhen("sefd", "fd"), Give("mo"), Give("se")>>)

fuse_push_module == Keeps(Function(<<Gain("module", 0), Gain("module fs", 1)>>, <<Give("module")>>))
fuse_fs_destroy == Function(<<>>, <<Give("fs"), PerformWhen("module fs", "DestroyModule")>>)
DestroyModule == Function(<<>>, <<Give("module"), Give("module fs")>>)
fuse_lib_destroy == Function(<<>>, <<PerformWhen("fs", "fuse_fs_destroy")>>)
\* The root is freed, although it lies in a slab, and only the top of the stack of modules.
fuse_new_31 ==
    Keeps(Function(<<Gain("fuse", 0), Try("lib_opts", 9), Gain("context_key", 9), Gain("fs", 8), Invoke("fuse_push_module", 5),
                     Invoke("fuse_session_new", 5), Gain("name_table", 4), Gain("id_table", 3), Gain("root", 2), Try("intr", 1)>>,
                   <<Give("malloced root"), Give("id_table"), Give("name_table"), Perform("fuse_session_destroy"), GiveIf("module"),
                     GiveUnless("module fs", "fs"), GiveIf("module fs"), Give("context_key"), Give("fuse")>>))
fuse_destroy ==
    Function(<<>>, <<Give("root"), GiveIf("module"), Give("id_table"), Give("name_table"), Perform("fuse_session_destroy"),
                     Give("fuse"), Give("context_key")>>)

fuse_daemonize == Function(<<Gain("waiter", 0), Try("fork", 0), Try("setsid", 0), Try("tell", Sure)>>, <<Give("waiter")>>)

\* fuse_main_real, and as it would be with the unmount jumped over after a failed fuse_daemonize.
MainDown == <<Give("handlers"), Perform("fuse_session_unmount"), Perform("fuse_destroy"), GiveIf("args")>>
MainUp(middle) == <<Gain("args", Sure), Try("cmdline", 0), AskedOrNone(4), Invoke("fuse_new_31", 4)>> \o middle \o <<Try("loop", 1)>>
SkipsUnmount == Function(MainUp(<<Invoke("fuse_session_mount", 3), Invoke("fuse_daemonize", 3), Gain("handlers", 2)>>), MainDown)
fuse_main_real ==
    Function(MainUp(<<Invoke("fuse_session_mount", 3), Invoke("fuse_daemonize", 2), Gain("handlers", 2)>>), MainDown)
invalidate_path_main ==
    Function(MainUp(<<Invoke("fuse_session_mount", 3), Invoke("fuse_daemonize", 2), Gain("updater", 0), Gain("handlers", 2)>>), MainDown)

cuse_lowlevel_new == Keeps(Function(<<Gain("cuse_data", 0), Invoke("fuse_session_new", 1)>>, <<Give("cuse_data")>>))
\* An error of the loop is an error of the program only if it is -1.
cuse_lowlevel_main ==
    Function(<<Gain("args", Sure), Try("cmdline", 0), Try("subtype", 3), Invoke("cuse_lowlevel_new", 3),
               GainAll({"fd", "sefd"}, "device", 2), Gain("handlers", 2), Invoke("fuse_daemonize", 1), Try("loop", Unchecked)>>,
             <<Give("handlers"), Perform("fuse_session_destroy"), GiveIf("args")>>)

\* The mains of the low-level examples: the result of fuse_daemonize is not looked at.
LowDown == <<Perform("fuse_session_unmount"), Give("handlers"), Perform("fuse_session_destroy"), GiveIf("args"), GiveIf("root fd")>>
LowUp(first, after) ==
    <<Gain("args", Sure)>> \o first
    \o <<Invoke("fuse_session_new", 4), Gain("handlers", 3), Invoke("fuse_session_mount", 2), Invoke("fuse_daemonize", Unchecked)>>
    \o after \o <<Try("loop", 1)>>
hello_ll_main == Function(LowUp(<<Try("cmdline", 0), AskedOrNone(4)>>, <<>>), LowDown)
passthrough_ll_main ==
    Function(LowUp(<<Try("cmdline", 0), AskedOrNone(4), Try("lo_opts", 0), Gain("root fd", 0)>>, <<>>), LowDown)
\* Those that notify do not look for a mount point, and jump over the unmount when the thread
\* that updates cannot be started.
notify_inval_entry_main == Function(LowUp(<<Try("cmdline", 0), AskedHelp(4)>>, <<Gain("updater", 2)>>), LowDown)
notify_inval_inode_main == Function(LowUp(<<Try("cmdline", 4), AskedHelp(4)>>, <<Gain("updater", 2)>>), LowDown)
notify_store_retrieve_main == Function(LowUp(<<Try("cmdline", 0), AskedHelp(4)>>, <<Gain("updater", 2)>>), LowDown)

Functions ==
    [fuse_session_new |-> fuse_session_new, fuse_session_mount |-> fuse_session_mount, KernUnmount |-> KernUnmount,
     fuse_session_unmount |-> fuse_session_unmount, fuse_session_destroy |-> fuse_session_destroy,
     fuse_push_module |-> fuse_push_module, fuse_fs_destroy |-> fuse_fs_destroy, DestroyModule |-> DestroyModule,
     fuse_lib_destroy |-> fuse_lib_destroy, fuse_new_31 |-> fuse_new_31, fuse_destroy |-> fuse_destroy,
     fuse_daemonize |-> fuse_daemonize, fuse_main_real |-> fuse_main_real, invalidate_path |-> invalidate_path_main,
     cuse_lowlevel_new |-> cuse_lowlevel_new, cuse |-> cuse_lowlevel_main, hello_ll |-> hello_ll_main,
     passthrough_ll |-> passthrough_ll_main, notify_inval_entry |-> notify_inval_entry_main,
     notify_inval_inode |-> notify_inval_inode_main, notify_store_retrieve |-> notify_store_retrieve_main]

-----------------------------------------------------------------------------
Frame(f) == [f |-> f, at |-> 1, down |-> Functions[f].up = <<>>, ok |-> TRUE]
LifeInit ==
    /\ main \in LifePrograms /\ frames = <<Frame(main)>> /\ have = {} /\ failed = {} /\ wrong = {}
    /\ status = "none" /\ served = FALSE /\ parent = "none" /\ foreground \in BOOLEAN /\ modules \in BOOLEAN /\ passed \in BOOLEAN

Innermost == frames[Len(frames)]
Below == SubSeq(frames, 1, Len(frames) - 1)
InMain == Len(frames) = 1
Advanced == [Innermost EXCEPT !.at = @ + 1]
\* A step has failed in frame f: at its label, or returned.
AfterFailure(f, label) ==
    IF label = Unchecked THEN [f EXCEPT !.at = @ + 1]
    ELSE [f EXCEPT !.down = TRUE, !.ok = FALSE, !.at = IF label = 0 THEN Len(Functions[f.f].down) + 1 ELSE label]
\* A function returns to the one below.
ReturnedFrom(ok) ==
    IF InMain THEN <<>>
    ELSE LET f == Below[Len(Below)] IN
         Append(SubSeq(Below, 1, Len(Below) - 1),
                IF ok \/ f.down THEN [f EXCEPT !.at = @ + 1] ELSE AfterFailure(f, Functions[f.f].up[f.at].label))

Skipped(s) ==
    \/ s.k = "invoke" /\ s.r = "fuse_daemonize" /\ foreground
    \/ s.k = "invoke" /\ s.r = "fuse_push_module" /\ ~modules
    \/ s.k = "gain" /\ s.r \in {{"mount"}, {"se->mountpoint"}} /\ passed
\* While it runs the loop may get INIT, and also DESTROY, when the file systems are destroyed.
AfterLoop == {have, have \union {"got_init"}, have \ {"fs", "module fs", "module"}}
StepUp ==
    /\ frames # <<>> /\ ~Innermost.down /\ Innermost.at <= Len(Functions[Innermost.f].up)
    /\ UNCHANGED <<main, wrong, foreground, modules, passed>>
    /\ LET s == Functions[Innermost.f].up[Innermost.at] IN
       \/ /\ Skipped(s) /\ frames' = Append(Below, Advanced) /\ UNCHANGED <<have, failed, status, served, parent>>
       \/ /\ s.k = "invoke" /\ ~Skipped(s) /\ frames' = Append(frames, Frame(s.r))
          /\ UNCHANGED <<have, failed, status, served, parent>>
       \/ /\ s.k = "gain" /\ ~Skipped(s) /\ have' = have \union s.r /\ frames' = Append(Below, Advanced)
          /\ UNCHANGED <<failed, status, served, parent>>
       \/ /\ s.k = "try" /\ frames' = Append(Below, Advanced) /\ UNCHANGED <<failed, status>>
          /\ have' \in IF s.r = "loop" THEN AfterLoop ELSE {have}
          /\ served' = (served \/ s.r = "loop")
          /\ parent' = CASE s.r = "fork" -> "waiting" [] s.r = "tell" -> "told" [] OTHER -> parent
       \/ /\ s.k \in {"gain", "try"} /\ ~Skipped(s) /\ s.label # Sure /\ Cardinality(failed) < MaxLifeFaults
          /\ failed' = failed \union {NameOf(s)} /\ frames' = Append(Below, AfterFailure(Innermost, s.label))
          /\ have' \in IF NameOf(s) = "loop" THEN AfterLoop ELSE {have}
          /\ UNCHANGED <<status, served, parent>>
       \/ /\ s.k = "asked"
          /\ \/ frames' = Append(Below, Advanced) /\ UNCHANGED status
             \/ frames' = Append(Below, AfterFailure(Innermost, s.label)) /\ status' \in s.r
          /\ UNCHANGED <<have, failed, served, parent>>

\* At the end of the steps up: a function that keeps returns; main and the others go down.
EndUp ==
    /\ frames # <<>> /\ ~Innermost.down /\ Innermost.at > Len(Functions[Innermost.f].up)
    /\ frames' = IF Functions[Innermost.f].keeps THEN ReturnedFrom(TRUE) ELSE Append(Below, [Innermost EXCEPT !.down = TRUE, !.at = 1])
    /\ UNCHANGED <<main, have, failed, wrong, status, served, parent, foreground, modules, passed>>

Due(s) == \/ s.k \in {"give", "perform"}
          \/ s.k = "giveunless" /\ s.v \notin have
          \/ s.k \in {"giveif", "givewhen", "performwhen"} /\ s.v \in have
StepDown ==
    /\ frames # <<>> /\ Innermost.down /\ Innermost.at <= Len(Functions[Innermost.f].down)
    /\ UNCHANGED <<main, failed, status, served, parent, foreground, modules, passed>>
    /\ LET s == Functions[Innermost.f].down[Innermost.at] IN
       \/ ~Due(s) /\ frames' = Append(Below, Advanced) /\ UNCHANGED <<have, wrong>>
       \/ Due(s) /\ s.k \in {"perform", "performwhen"} /\ frames' = Append(frames, Frame(s.r)) /\ UNCHANGED <<have, wrong>>
       \/ /\ Due(s) /\ s.k \in {"give", "giveif", "givewhen", "giveunless"}
          /\ wrong' = IF s.r \in have THEN wrong ELSE wrong \union {s.r}
          /\ have' = have \ {s.r, s.v} /\ frames' = Append(Below, Advanced)

Result == IF status # "none" THEN status ELSE IF Innermost.ok THEN "ok" ELSE Functions[main].ret
EndDown ==
    /\ frames # <<>> /\ Innermost.down /\ Innermost.at > Len(Functions[Innermost.f].down)
    /\ frames' = ReturnedFrom(Innermost.ok) /\ status' = IF InMain THEN Result ELSE status
    /\ UNCHANGED <<main, have, failed, wrong, served, parent, foreground, modules, passed>>

ParentExits ==
    /\ parent = "told" /\ parent' = "exited"
    /\ UNCHANGED <<main, frames, have, failed, wrong, status, served, foreground, modules, passed>>

LifeNext == StepUp \/ EndUp \/ StepDown \/ EndDown \/ ParentExits
LifeFairness == WF_lifeVars(LifeNext)
LifeSpec == LifeInit /\ [][LifeNext]_lifeVars /\ LifeFairness

-----------------------------------------------------------------------------
\* Whatever failed on the way, a program ends without its mount, its device and its signal
\* handlers, but for the examples whose updater could not be started, which jump over the
\* unmount (notify_*, invalidate_path).  And nothing is given back twice or without having been
\* there, except when memory for the mount point is missing (the descriptor is closed twice),
\* when the signal for interrupts cannot be set (the root is freed as if it were malloced), and
\* modules, of which a reference may be put twice.
TakenDownOnce ==
    /\ frames = <<>> /\ "updater" \notin failed => have \intersect {"mount", "fd", "handlers"} = {}
    /\ wrong \subseteq {"module"} \/ failed \intersect {"se->mountpoint", "intr"} # {}

=============================================================================
