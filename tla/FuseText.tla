------------------------------ MODULE FuseText ------------------------------
(***************************************************************************)
(* The conversions of text on the way from a command line to a mount: the  *)
(* escapes of option lists (lib/fuse_opt.c, util/fusermount.c), the quotes *)
(* of mount.fuse3's command, the lines of fuse.conf, and the mount point's *)
(* path (lib/mount_util.c).  Texts are sequences of characters.            *)
(***************************************************************************)
EXTENDS Naturals, Sequences, SequencesExt

CONSTANTS
    OptTexts,     \* options, none empty; F stands for "fsname=" at the start of one
    Words,        \* words of a command
    ConfFiles,    \* contents of fuse.conf; N stands for the newline
    ConfBuffer,   \* characters that fit in read_conf's buffer
    Paths         \* mount points; the working directory is /w

VARIABLES input, text, result
textVars == <<input, text, result>>

Drop(s, n) == SubSeq(s, n + 1, Len(s))
Char(s, i) == IF i \in DOMAIN s THEN s[i] ELSE "end"

-----------------------------------------------------------------------------
\* add_opt_common: a comma before all but the first, commas and backslashes escaped.
EscapesCommasOnly(opt) == FlattenSeq([i \in DOMAIN opt |-> IF opt[i] = "," THEN <<"\\", opt[i]>> ELSE <<opt[i]>>])
Escaped(opt) == FlattenSeq([i \in DOMAIN opt |-> IF opt[i] \in {",", "\\"} THEN <<"\\", opt[i]>> ELSE <<opt[i]>>])
add_opt_common(opts, opt, esc) ==
    (IF opts = <<>> THEN <<>> ELSE Append(opts, ",")) \o (IF esc THEN Escaped(opt) ELSE opt)
AddAll(opts) == FoldLeft(LAMBDA l, o : add_opt_common(l, o, TRUE), <<>>, opts)

\* process_real_option_group, from character i on, with d read of the option.  Three octal
\* digits behind a backslash are one character; 1 is the only digit here, A the character 111.
RECURSIVE GroupFrom(_, _, _)
GroupFrom(s, i, d) ==
    IF i > Len(s) THEN <<d>>
    ELSE IF s[i] = "," THEN <<d>> \o GroupFrom(s, i + 1, <<>>)
    ELSE IF s[i] = "\\" /\ i < Len(s)
         THEN IF Char(s, i + 1) = "1" /\ Char(s, i + 2) = "1" /\ Char(s, i + 3) = "1"
              THEN GroupFrom(s, i + 4, Append(d, "A"))
              ELSE GroupFrom(s, i + 2, Append(d, s[i + 1]))
    ELSE GroupFrom(s, i + 1, Append(d, s[i]))
process_real_option_group(s) == GroupFrom(s, 1, <<>>)

\* do_mount of fusermount3: the length of the first option, where only fsname= and subtype=
\* may hold escapes ...
RECURSIVE OptionLength(_, _, _)
OptionLength(s, i, escape_ok) ==
    IF i > Len(s) THEN Len(s)
    ELSE IF escape_ok /\ s[i] = "\\" /\ i < Len(s) THEN OptionLength(s, i + 2, escape_ok)
    ELSE IF s[i] = "," THEN i - 1 ELSE OptionLength(s, i + 1, escape_ok)
\* ... get_string_opt, without the escapes ...
RECURSIVE Unescaped(_)
Unescaped(s) ==
    IF s = <<>> THEN <<>>
    ELSE IF s[1] = "\\" /\ Len(s) > 1 THEN <<s[2]>> \o Unescaped(Drop(s, 2)) ELSE <<s[1]>> \o Unescaped(Tail(s))
get_string_opt(s) == Unescaped(Tail(s))
\* ... and the values it finds for fsname, the others being skipped.
RECURSIVE do_mount_fsnames(_)
do_mount_fsnames(s) ==
    IF s = <<>> THEN <<>>
    ELSE LET len == OptionLength(s, 1, s[1] = "F")
             rest == Drop(s, IF len < Len(s) THEN len + 1 ELSE len)
         IN (IF s[1] = "F" THEN <<get_string_opt(SubSeq(s, 1, len))>> ELSE <<>>) \o do_mount_fsnames(rest)

\* add_arg of mount.fuse3: the word in quotes, a quote written '\''.
Quoted(w) == <<"'">> \o FlattenSeq([i \in DOMAIN w |-> IF w[i] = "'" THEN <<"'", "\\", "'", "'">> ELSE <<w[i]>>]) \o <<"'">>
add_arg(cmd, w) == (IF cmd = <<>> THEN <<>> ELSE Append(cmd, " ")) \o Quoted(w)

\* The shell: words at blanks, with quotes and backslashes.
RECURSIVE ShellFrom(_, _, _)
ShellFrom(s, w, quoted) ==
    IF s = <<>> THEN <<w>>
    ELSE IF s[1] = "'" THEN ShellFrom(Tail(s), w, ~quoted)
    ELSE IF ~quoted /\ s[1] = "\\" /\ Len(s) > 1 THEN ShellFrom(Drop(s, 2), Append(w, s[2]), FALSE)
    ELSE IF ~quoted /\ s[1] = " " THEN <<w>> \o ShellFrom(Tail(s), <<>>, FALSE)
    ELSE ShellFrom(Tail(s), Append(w, s[1]), quoted)

\* read_conf: fgets takes what fits in the buffer, up to a newline.
RECURSIVE ConfChunks(_)
ConfChunks(s) ==
    IF s = <<>> THEN <<>>
    ELSE LET nl == SelectInSeq(s, LAMBDA c : c = "N")
             n == IF nl # 0 /\ nl <= ConfBuffer THEN nl ELSE IF Len(s) < ConfBuffer THEN Len(s) ELSE ConfBuffer
         IN <<SubSeq(s, 1, n)>> \o ConfChunks(Drop(s, n))
Whole(chunk) == chunk[Len(chunk)] = "N"
ParseDue(isnewline, chunk) == isnewline /\ Whole(chunk)
read_conf(s) ==
    FoldLeft(LAMBDA r, chunk : [isnewline |-> Whole(chunk),
                                parsed |-> IF ParseDue(r.isnewline, chunk) THEN Append(r.parsed, Front(chunk)) ELSE r.parsed],
             [isnewline |-> TRUE, parsed |-> <<>>], ConfChunks(s)).parsed

\* The parts of a path between its slashes, and realpath of one without links.
RECURSIVE Parts(_, _)
Parts(s, d) ==
    IF s = <<>> THEN IF d = <<>> THEN <<>> ELSE <<d>>
    ELSE IF s[1] = "/" THEN (IF d = <<>> THEN <<>> ELSE <<d>>) \o Parts(Tail(s), <<>>) ELSE Parts(Tail(s), Append(d, s[1]))
realpath(s) ==
    FoldLeft(LAMBDA r, p : IF p = <<".">> THEN r
                           ELSE IF p = <<".", ".">> THEN (IF r = <<>> THEN <<>> ELSE Front(r)) ELSE Append(r, p),
             IF s # <<>> /\ s[1] = "/" THEN <<>> ELSE <<<<"w">>>>, Parts(s, <<>>))

\* fuse_mnt_resolve_path: the directory is resolved and the last part is kept as it is,
\* unless it is a dot or two.
LastSlash(s) == SelectLastInSeq(s, LAMBDA c : c = "/")
EndOf(s) == IF \A i \in DOMAIN s : s[i] = "/" THEN 1 ELSE SelectLastInSeq(s, LAMBDA c : c # "/")
fuse_mnt_resolve_path(orig) ==
    LET s == SubSeq(orig, 1, EndOf(orig))
        last == Drop(s, LastSlash(s))
    IN IF s[Len(s)] = "/" \/ last \in {<<".">>, <<".", ".">>} THEN realpath(s)
       ELSE Append(realpath(CASE LastSlash(s) = 0 -> <<".">>
                              [] LastSlash(s) = 1 -> <<"/">>
                              [] OTHER -> SubSeq(s, 1, LastSlash(s) - 1)), last)

-----------------------------------------------------------------------------
TextInit ==
    /\ \/ \E a, b \in OptTexts : input = [kind |-> "group", v |-> <<a, b>>] /\ text = AddAll(<<a, b>>)
       \/ \E a, b \in Words : input = [kind |-> "shell", v |-> <<a, b>>] /\ text = add_arg(add_arg(<<>>, a), b)
       \/ \E c \in ConfFiles : input = [kind |-> "conf", v |-> c] /\ text = c
       \/ \E p \in Paths : input = [kind |-> "path", v |-> p] /\ text = p
    /\ result = <<"none">>

\* A parser reads the group and writes what it hands on; fusermount3 reads it in the end.
HandsOn ==
    /\ input.kind = "group" /\ result = <<"none">>
    /\ text' = AddAll(process_real_option_group(text)) /\ UNCHANGED <<input, result>>
Reads ==
    /\ result = <<"none">> /\ UNCHANGED <<input, text>>
    /\ result' = CASE input.kind = "group" -> <<process_real_option_group(text), do_mount_fsnames(text)>>
                   [] input.kind = "shell" -> ShellFrom(text, <<>>, FALSE)
                   [] input.kind = "conf" -> read_conf(text)
                   [] OTHER -> fuse_mnt_resolve_path(text)
TextNext == HandsOn \/ Reads
TextSpec == TextInit /\ [][TextNext]_textVars

-----------------------------------------------------------------------------
Read(kind) == input.kind = kind /\ result # <<"none">>

Fsnames(opts) == LET f == SelectSeq(opts, LAMBDA o : o[1] = "F") IN [i \in DOMAIN f |-> Tail(f[i])]
Plain(opt) == opt[1] = "F" \/ \A i \in DOMAIN opt : opt[i] \notin {",", "\\"}

RECURSIVE ConfLines(_, _)
ConfLines(s, d) ==
    IF s = <<>> THEN <<>>
    ELSE IF s[1] = "N" THEN <<d>> \o ConfLines(Tail(s), <<>>) ELSE ConfLines(Tail(s), Append(d, s[1]))

\* What one program writes the next one reads as it was meant.  Options with commas and
\* backslashes come out as they went in, after any number of parsers, and a name for the file
\* system as fusermount3 reads it (fuse_opt_add_opt_escaped); the shell that mount.fuse3 starts
\* sees the words it was to see (add_arg); of fuse.conf exactly the lines are parsed that end
\* and fit in the buffer, no rest of a longer one (read_conf); and the path of the mount point
\* names the directory it was given for (fuse_mnt_resolve_path).
TextKept ==
    /\ Read("group") => /\ result[1] = input.v
                        /\ (\A i \in DOMAIN input.v : Plain(input.v[i])) => result[2] = Fsnames(input.v)
    /\ Read("shell") => result = input.v
    /\ Read("conf") => result = SelectSeq(ConfLines(input.v, <<>>), LAMBDA l : Len(l) < ConfBuffer)
    /\ Read("path") => result = realpath(input.v)
=============================================================================
