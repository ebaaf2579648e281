---------------------------- MODULE FuseOptions ----------------------------
(***************************************************************************)
(* Options: fuse_opt_parse (lib/fuse_opt.c) and the parsers a command line *)
(* goes through, one after the other: fuse_parse_cmdline, fuse_new,        *)
(* fuse_session_new, parse_mount_opts, and at last fusermount3's do_mount. *)
(* Each takes the options it knows and hands the rest on.                  *)
(***************************************************************************)
EXTENDS Naturals, Sequences, FiniteSets, SequencesExt, TLC

CONSTANTS
    GivenOpts,   \* options used, with or without a value, a dash first for arguments of their own
    MaxArgs

VARIABLES
    given,   \* the command line
    stage,   \* the parser that is next
    args,    \* what the parsers have left of it
    conf     \* what they have stored: a set of <<field, value>>
optVars == <<given, stage, args, conf>>

\* An argument: an option of its own (-d), a group (-o a,b), "--", or a plain word.
Arg(o) == [k |-> "arg", o |-> o, g |-> <<>>]
Group(g) == [k |-> "group", o |-> "-o", g |-> g]
Separator == [k |-> "sep", o |-> "--", g |-> <<>>]
PlainArg(o) == [k |-> "plain", o |-> o, g |-> <<>>]
ProgramName == PlainArg("program")

-----------------------------------------------------------------------------
(***************************************************************************)
(* The tables and functions of the parsers.                                *)
(***************************************************************************)
\* What the entries of a table that match an option do, in the order of the table.
Store(f, v) == [do |-> "store", f |-> f, v |-> v]
Key(key) == [do |-> "key", f |-> key, v |-> ""]
KEEP == Key("KEEP")
DISCARD == Key("DISCARD")

Stored(c, f, v) == {x \in c : x[1] # f} \union {<<f, v>>}

\* A parser's function of arguments and keys: what it stores, and its answer.
Answer(res, c) == [res |-> res, conf |-> c]

fuse_helper_opts ==
    [o \in {"-d", "debug"} |-> <<Store("cmd.debug", "1"), Store("foreground", "1"), KEEP>>]
    @@ "-f" :> <<Store("foreground", "1")>> @@ "-s" :> <<Store("singlethread", "1")>>
    @@ [o \in {"-h", "--help"} |-> <<Store("show_help", "1")>>]
    @@ [o \in {"-V", "--version"} |-> <<Store("show_version", "1")>>]
    @@ [o \in {"fsname=", "subtype="} |-> <<Store("nodefault_subtype", "1"), KEEP>>]
    @@ "clone_fd" :> <<Store("clone_fd", "1")>> @@ "max_idle_threads=" :> <<Store("max_idle_threads", "1")>>

fuse_helper_opt_proc(c, o, key) ==
    IF key # "NONOPT" THEN Answer(1, c)
    ELSE IF \E x \in c : x[1] = "mountpoint" THEN Answer(-1, c)
    ELSE Answer(0, Stored(c, "mountpoint", o))

fuse_lib_opts ==
    [o \in {"debug", "-d"} |-> <<KEEP, Store("lib.debug", "1")>>]
    @@ "kernel_cache" :> <<Store("kernel_cache", "1")>>
    @@ "auto_cache" :> <<Store("auto_cache", "1")>> @@ "noauto_cache" :> <<Store("auto_cache", "0")>>
    @@ "umask=" :> <<Store("set_mode", "1"), Store("umask", "1")>>
    @@ "uid=" :> <<Store("set_uid", "1"), Store("uid", "1")>> @@ "gid=" :> <<Store("set_gid", "1"), Store("gid", "1")>>
    @@ [o \in {"entry_timeout=", "attr_timeout=", "negative_timeout=", "modules="} |-> <<Store(o, "1")>>]
    @@ "ac_attr_timeout=" :> <<Store("ac_attr_timeout", "1"), Store("ac_attr_timeout_set", "1")>>
    @@ "noforget" :> <<Store("remember", "0")>> @@ "remember=" :> <<Store("remember", "1")>>

\* Options that are not known are passed on.
fuse_lib_opt_proc(c, o, key) == Answer(1, c)

fuse_ll_opts ==
    [o \in {"debug", "-d", "--debug"} |-> <<Store("ll.debug", "1")>>] @@ "allow_root" :> <<Store("deny_others", "1")>>

\* The flags of a mount: name, flag, and whether it sets or clears it.
mount_flags ==
    "rw" :> <<"RDONLY", "0">> @@ "ro" :> <<"RDONLY", "1">> @@ "suid" :> <<"NOSUID", "0">> @@ "nosuid" :> <<"NOSUID", "1">>
    @@ "dev" :> <<"NODEV", "0">> @@ "nodev" :> <<"NODEV", "1">> @@ "exec" :> <<"NOEXEC", "0">>
    @@ "noexec" :> <<"NOEXEC", "1">> @@ "async" :> <<"SYNCHRONOUS", "0">> @@ "sync" :> <<"SYNCHRONOUS", "1">>
    @@ "atime" :> <<"NOATIME", "0">> @@ "noatime" :> <<"NOATIME", "1">> @@ "dirsync" :> <<"DIRSYNC", "1">>
KernOpts == {"allow_other", "blksize=", "default_permissions", "context=", "fscontext=", "defcontext=",
             "rootcontext=", "max_read="}
fuse_mount_opts ==
    "allow_other" :> <<Store("mo.allow_other", "1"), Key("KERN_OPT")>>
    @@ "max_read=" :> <<Store("mo.max_read", "1"), Key("KERN_OPT")>> @@ [o \in KernOpts |-> <<Key("KERN_OPT")>>]
    @@ "auto_unmount" :> <<Store("mo.auto_unmount", "1"), Key("FUSERMOUNT_OPT")>>
    @@ "blkdev" :> <<Store("mo.blkdev", "1"), Key("FUSERMOUNT_OPT")>>
    @@ "fsname=" :> <<Store("mo.fsname", "1"), Key("FUSERMOUNT_OPT")>>
    @@ "subtype=" :> <<Store("mo.subtype", "1"), Key("SUBTYPE_OPT")>>
    @@ "user=" :> <<Key("MTAB_OPT")>> @@ "-r" :> <<Key("RO")>>
    @@ [o \in DOMAIN mount_flags |-> <<Key("KERN_FLAG")>>]

\* set_mount_flag; the other options are kept for mount(2) or for fusermount3.
set_mount_flag(c, o) == Stored(c, mount_flags[o][1], mount_flags[o][2])
fuse_mount_opt_proc(c, o, key) ==
    CASE key = "RO" -> Answer(0, set_mount_flag(c, "ro"))
      [] key = "KERN_FLAG" -> Answer(0, set_mount_flag(c, o))
      [] key \in {"KERN_OPT", "FUSERMOUNT_OPT", "SUBTYPE_OPT", "MTAB_OPT"} -> Answer(0, Stored(c, o, key))
      [] OTHER -> Answer(1, c)

\* The options of fuse_parse_conn_info_opts, for programs that use it, and what they do to
\* the capabilities wanted (fuse_apply_conn_info_opts): those to enable, those to disable.
ConnFlags == {"sync_read", "async_read", "atomic_o_trunc", "no_remote_flock", "no_remote_posix_lock", "splice_write",
              "no_splice_write", "splice_move", "no_splice_move", "splice_read", "no_splice_read", "auto_inval_data",
              "no_auto_inval_data", "async_dio", "no_async_dio", "writeback_cache", "no_writeback_cache"}
ConnOptSpec(yes) ==
    [o \in ConnFlags |-> <<Store(o, "1")>>]
    @@ [o \in {"max_write=", "max_readahead=", "max_background=", "congestion_threshold=", "time_gran="} |-> <<Store(o, "1")>>]
    @@ "no_remote_lock" :> <<Store("no_remote_posix_lock", "1"), Store("no_remote_flock", "1")>>
    @@ "readdirplus=no" :> <<Store("no_readdirplus", "1")>> @@ "readdirplus=yes" :> yes
    @@ "readdirplus=auto" :> <<Store("no_readdirplus", "0"), Store("no_readdirplus_auto", "0")>>
conn_info_opt_spec == ConnOptSpec(<<Store("no_readdirplus", "0"), Store("no_readdirplus_auto", "1")>>)

Enables == {<<"splice_read", "SPLICE_READ">>, <<"splice_write", "SPLICE_WRITE">>, <<"splice_move", "SPLICE_MOVE">>,
            <<"auto_inval_data", "AUTO_INVAL_DATA">>, <<"async_dio", "ASYNC_DIO">>,
            <<"writeback_cache", "WRITEBACK_CACHE">>, <<"async_read", "ASYNC_READ">>}
Disables == {<<"no_splice_read", "SPLICE_READ">>, <<"no_splice_write", "SPLICE_WRITE">>,
             <<"no_splice_move", "SPLICE_MOVE">>, <<"no_auto_inval_data", "AUTO_INVAL_DATA">>,
             <<"no_readdirplus", "READDIRPLUS">>, <<"no_readdirplus_auto", "READDIRPLUS_AUTO">>,
             <<"no_async_dio", "ASYNC_DIO">>, <<"no_writeback_cache", "WRITEBACK_CACHE">>, <<"sync_read", "ASYNC_READ">>,
             <<"no_remote_posix_lock", "POSIX_LOCKS">>, <<"no_remote_flock", "FLOCK_LOCKS">>}
Named(pairs, c) == {x[2] : x \in {y \in pairs : <<y[1], "1">> \in c}}
fuse_apply_conn_info_opts(want, c) == (want \union Named(Enables, c)) \ Named(Disables, c)

-----------------------------------------------------------------------------
(***************************************************************************)
(* fuse_opt_parse.                                                         *)
(***************************************************************************)
\* ctx->proc: the function the parser was given; without one the option is passed on.
Proc(proc, c, o, key) ==
    CASE proc = "helper" -> fuse_helper_opt_proc(c, o, key)
      [] proc = "lib" -> fuse_lib_opt_proc(c, o, key)
      [] proc = "mount" -> fuse_mount_opt_proc(c, o, key)
      [] proc = "none" -> Answer(1, c)

\* The context; bad when -1 was returned.
Context == [out |-> <<ProgramName>>, opts |-> <<>>, nonopt |-> 0, conf |-> conf, bad |-> FALSE]

\* The option goes on: into the group, or as an argument (add_opt, add_arg).
HandOn(ctx, a, iso) ==
    IF iso THEN [ctx EXCEPT !.opts = Append(@, a.o)] ELSE [ctx EXCEPT !.out = Append(@, a)]

call_proc(ctx, a, key, iso, proc) ==
    IF key = "DISCARD" THEN ctx
    ELSE IF key = "KEEP" THEN HandOn(ctx, a, iso)
    ELSE LET r == Proc(proc, ctx.conf, a.o, key) IN
         CASE r.res = 1 -> HandOn(ctx, a, iso)
           [] r.res = 0 -> [ctx EXCEPT !.conf = r.conf]
           [] OTHER -> [ctx EXCEPT !.bad = TRUE]

process_opt(ctx, a, e, iso, proc) ==
    IF ctx.bad THEN ctx
    ELSE IF e.do = "store" THEN [ctx EXCEPT !.conf = Stored(@, e.f, e.v)]
    ELSE call_proc(ctx, a, e.f, iso, proc)

FirstMatchOnly(table, o) == SubSeq(table[o], 1, 1)
find_opt(table, o) == table[o]
process_gopt(ctx, a, iso, table, proc) ==
    IF ctx.bad THEN ctx
    ELSE IF a.o \in DOMAIN table
         THEN FoldLeft(LAMBDA c, e : process_opt(c, a, e, iso, proc), ctx, find_opt(table, a.o))
    ELSE call_proc(ctx, a, "OPT", iso, proc)

process_option_group(ctx, g, table, proc) ==
    FoldLeft(LAMBDA c, o : process_gopt(c, Arg(o), TRUE, table, proc), ctx, g)

process_one(ctx, a, table, proc) ==
    IF ctx.bad THEN ctx
    ELSE IF ctx.nonopt # 0 \/ a.k = "plain"
         THEN call_proc(ctx, PlainArg(a.o), "NONOPT", FALSE, proc)
    ELSE IF a.k = "group" THEN process_option_group(ctx, a.g, table, proc)
    ELSE IF a.k = "sep" THEN [HandOn(ctx, a, FALSE) EXCEPT !.nonopt = Len(ctx.out) + 1]
    ELSE process_gopt(ctx, a, FALSE, table, proc)

\* opt_parse: the options that were kept become one group after the program's name, and
\* a separator that comes last goes.
Inserted(ctx) == IF ctx.opts = <<>> THEN ctx.out ELSE InsertAt(ctx.out, 2, Group(ctx.opts))
\* "-o" and its value are two arguments.
Argc(out) == Len(out) + Cardinality({i \in DOMAIN out : out[i].k = "group"})
opt_parse(table, proc) ==
    LET ctx == FoldLeft(LAMBDA c, a : process_one(c, a, table, proc), Context, Tail(args))
        out == Inserted(ctx)
    IN [ctx EXCEPT !.out = IF ctx.nonopt # 0 /\ ctx.nonopt = Argc(out) /\ out[Len(out)].k = "sep"
                           THEN SubSeq(out, 1, Len(out) - 1) ELSE out]

-----------------------------------------------------------------------------
(***************************************************************************)
(* The parsers, one after the other.                                       *)
(***************************************************************************)
Items == {Arg(o) : o \in {p \in GivenOpts : p \in {"-d", "-f", "-s", "-r", "-x"}}}
         \union {Group(<<o>>) : o \in {p \in GivenOpts : p \notin {"-d", "-f", "-s", "-r", "-x"}}}
         \union {Separator, PlainArg("mnt")}
OptsInit ==
    /\ given \in UNION {[1..n -> Items] : n \in 0..MaxArgs}
    /\ stage = "cmdline" /\ args = <<ProgramName>> \o given
    /\ conf = {<<"NOSUID", "1">>, <<"NODEV", "1">>}

\* A parser ran: the arguments become what it left, unless it failed.
Parsed(ctx, next) ==
    /\ stage' = IF ctx.bad THEN "failed" ELSE next
    /\ args' = IF ctx.bad THEN args ELSE ctx.out
    /\ conf' = ctx.conf
    /\ UNCHANGED given
WithArg(ctx, a, due) == IF ~ctx.bad /\ due THEN [ctx EXCEPT !.out = Append(@, a)] ELSE ctx
Has(c, f) == \E x \in c : x[1] = f

\* fuse_parse_cmdline, with add_default_subtype; fuse_main_real needs a mount point.
fuse_parse_cmdline ==
    LET ctx == opt_parse(fuse_helper_opts, "helper") IN
    /\ stage = "cmdline"
    /\ Parsed(WithArg(ctx, Group(<<"subtype=">>), ~Has(ctx.conf, "nodefault_subtype")),
              IF Has(ctx.conf, "mountpoint") THEN "lib" ELSE "failed")
fuse_parse_conn_info_opts ==
    /\ stage = "lib" /\ ~Has(conf, "conn")
    /\ Parsed([opt_parse(conn_info_opt_spec, "none") EXCEPT !.conf = @ \union {<<"conn", "1">>}], "lib")
fuse_new == stage = "lib" /\ Parsed(opt_parse(fuse_lib_opts, "lib"), "ll")
fuse_session_new_args ==
    LET ctx == opt_parse(fuse_ll_opts, "none") IN
    stage = "ll" /\ Parsed(WithArg(ctx, Group(<<"allow_other">>), Has(ctx.conf, "deny_others")), "mount")
\* ... and what is left of the arguments is refused.
AfterMountOpts(ctx) == IF Len(ctx.out) = 1 THEN "mounting" ELSE "failed"
parse_mount_opts ==
    LET ctx == opt_parse(fuse_mount_opts, "mount") IN
    stage = "mount" /\ Parsed(ctx, AfterMountOpts(ctx))

\* fuse_kern_mount: the list for fusermount3, with the flags that are set
\* (get_mnt_flag_opts), as do_mount reads it.
get_mnt_flag_opts(c) ==
    (IF <<"RDONLY", "1">> \in c THEN {} ELSE {"rw"})
    \union {o \in DOMAIN mount_flags : mount_flags[o][2] = "1" /\ <<mount_flags[o][1], "1">> \in c}
ForFusermount(c) ==
    get_mnt_flag_opts(c)
    \union {x[1] : x \in {y \in c : y[2] \in {"KERN_OPT", "FUSERMOUNT_OPT", "SUBTYPE_OPT", "MTAB_OPT"}}}
\* What do_mount knows besides the flags; it drops nonempty.
FusermountOpts == {"fsname=", "subtype=", "blkdev", "auto_unmount", "nonempty", "default_permissions", "allow_other",
                   "max_read=", "blksize="}
FlagsOf(opts) ==
    {"NOSUID", "NODEV"} \union {mount_flags[o][1] : o \in {p \in opts \intersect DOMAIN mount_flags : mount_flags[p][2] = "1"}}
fuse_kern_mount ==
    /\ stage = "mounting"
    /\ \/ stage' = "mounted" /\ UNCHANGED conf        \* by mount(2)
       \/ /\ stage' = IF ForFusermount(conf) \subseteq FusermountOpts \union DOMAIN mount_flags THEN "helped" ELSE "refused"
          /\ conf' = {x \in conf : x[1] \notin {f[1] : f \in Range(mount_flags)}}
                     \union {<<f, "1">> : f \in FlagsOf(ForFusermount(conf))}
    /\ UNCHANGED <<given, args>>

OptsNext == fuse_parse_cmdline \/ fuse_parse_conn_info_opts \/ fuse_new \/ fuse_session_new_args \/ parse_mount_opts \/ fuse_kern_mount
OptsSpec == OptsInit /\ [][OptsNext]_optVars

-----------------------------------------------------------------------------
Tables == <<fuse_helper_opts, fuse_lib_opts, fuse_ll_opts, fuse_mount_opts>>
          \o (IF Has(conf, "conn") THEN <<conn_info_opt_spec>> ELSE <<>>)
OptionOf(a) == IF a.k = "group" THEN a.g[1] ELSE a.o
NoSeparator == \A i \in DOMAIN given : given[i].k # "sep"

\* What an option asks for, of all the parsers.
Asks(o) ==
    {<<e.f, e.v>> : e \in {x \in UNION {Range(Tables[t][o]) : t \in {u \in DOMAIN Tables : o \in DOMAIN Tables[u]}} : x.do = "store"}}
    \union (IF o \in DOMAIN mount_flags THEN {mount_flags[o]} ELSE IF o = "-r" THEN {mount_flags["ro"]} ELSE {})

GivenGroups == SelectSeq(given, LAMBDA a : a.k = "group")
LastPlus == SelectSeq(GivenGroups, LAMBDA a : a.g[1] \in {"readdirplus=no", "readdirplus=yes", "readdirplus=auto"})
Gave(o) == \E i \in DOMAIN given : OptionOf(given[i]) = o

\* "no" wins over its opposite, of the readdirplus options the last one counts, and nothing
\* else that the file system wants is touched.
WantsAsked ==
    stage = "mounting" /\ Has(conf, "conn") =>
        \A want \in {{}, {"READDIRPLUS", "READDIRPLUS_AUTO", "SPLICE_READ", "FLOCK_LOCKS"}} :
            LET w == fuse_apply_conn_info_opts(want, conf)
                plus == IF LastPlus = <<>> THEN "" ELSE LastPlus[Len(LastPlus)].g[1]
            IN /\ ("READDIRPLUS" \in w) = ("READDIRPLUS" \in want /\ plus # "readdirplus=no")
               /\ plus # "readdirplus=no" => ("READDIRPLUS_AUTO" \in w) = ("READDIRPLUS_AUTO" \in want /\ plus # "readdirplus=yes")
               /\ ("SPLICE_READ" \in w) = (~Gave("no_splice_read") /\ (Gave("splice_read") \/ "SPLICE_READ" \in want))
               /\ ("FLOCK_LOCKS" \in w) = ("FLOCK_LOCKS" \in want /\ ~Gave("no_remote_lock"))

\* Every option of the command line reaches every parser that knows it, through the ones
\* before, and of several options for one thing the last one of its form (a group of -o, or an
\* argument of its own) counts (call_proc, process_gopt, opt_parse); those about capabilities
\* reach what the file system wants (conn_info_opt_spec, fuse_apply_conn_info_opts).
OptionsReach ==
    NoSeparator =>
        /\ WantsAsked
        /\ stage \in {"mounting", "mounted"} =>
              \A i \in DOMAIN given : given[i].k \in {"arg", "group"} =>
                  \A x \in Asks(OptionOf(given[i])) :
                      \/ x \in conf
                      \/ \E j \in DOMAIN given : /\ given[j].k \in {"arg", "group"} /\ (j > i \/ given[j].k # given[i].k)
                                                  /\ \E y \in Asks(OptionOf(given[j])) : y[1] = x[1] /\ y # x
=============================================================================
