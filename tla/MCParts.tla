------------------------------ MODULE MCParts ------------------------------
(***************************************************************************)
(* The parts of the driver, of the node server and of libfuse that share   *)
(* no state with each other, each on a small instance.  A behaviour is one *)
(* of one part; the other parts stay as they begin.                        *)
(***************************************************************************)
EXTENDS F3Names, F3Inodes, NodeServer, FuseSession, FuseTables, FusePipe, FuseBuffers,
        FuseLocks, FuseReaddir, FuseOptions, FuseText, PassthroughLL, Passthrough

VARIABLE part
partVars == <<part, nameVars, inodeVars, vars, sessionVars, tableVars, pipeVars, bufferVars,
              lockVars, dirVars, optVars, textVars, loVars, ptVars>>

-----------------------------------------------------------------------------
(* Values of constants. *)
SomeOffers ==
    {{}, {"POSIX_LOCKS", "FLOCK_LOCKS"}, InitFlags \ {"PARALLEL_DIROPS", "HANDLE_KILLPRIV"},
     InitFlags \cup {"MAX_PAGES"}, {"MAX_PAGES"}}

BufKinds == {"mem", "file", "pipe"}
Sources ==
    {<<Buf(k, 2, r, h), Buf(l, n, r, n)>> : k, l \in BufKinds, r \in BOOLEAN, h \in {1, 3}, n \in {1, 3}}
Dests ==
    {<<Buf(k, n, r, 0), Buf(l, 4 - n, r, 0)>> : k, l \in BufKinds, r \in BOOLEAN, n \in {1, 3}}
    \cup {<<Buf(k, 3, r, 0)>> : k \in BufKinds, r \in BOOLEAN}

UpTo(n, A) == UNION {[1..k -> A] : k \in 0..n}
SomeOptTexts ==
    {<<"F">> \o s : s \in UpTo(3, {"a", ",", "\\", "1"})}
    \cup {<<"a">>, <<"a", ",", "F">>, <<"F", "\\", "1", "1", "1">>}
SomeWords == UpTo(3, {"a", "'", "\\", " "})
SomeConfFiles == UpTo(8, {"x", "N"})
SomePaths == UpTo(6, {"/", "a", "."}) \ {<<>>}

SomeLoOps ==
    {"lookup", "make", "create", "unlink", "rename", "link", "open", "forget", "opendir", "readdir",
     "readdirplus", "release", "releasedir"} \cup DOMAIN lo_oper

-----------------------------------------------------------------------------
\* Where a part can begin in several ways, it has one while another part runs.
Rests(p, state) == part # p => state

PartsInit ==
    /\ part \in {"names", "inodes", "node", "session", "tables", "pipe", "buffers", "locks",
                 "readdir", "options", "text", "lo", "handlers"}
    /\ NamesInit /\ Init /\ TablesInit /\ PipeInit /\ LocksInit
    /\ InodesInit /\ Rests("inodes", single)
    /\ SessionInit /\ Rests("session", fs = "f3")
    /\ ReaddirInit /\ Rests("readdir", present = {} /\ listed = {} /\ gives)
    /\ LoInit /\ Rests("lo", source = [n \in LoNames |-> 1])
    /\ PtInit /\ Rests("handlers", program = "f3" /\ isId /\ sizes = [t \in {"source", "local"} |-> 0] /\ targetSize = 0)
    /\ BuffersInit
    /\ Rests("buffers", /\ srcv = Vec(<<Buf("mem", 2, TRUE, 1), Buf("mem", 1, TRUE, 1)>>)
                        /\ dstv = Vec(<<Buf("mem", 3, TRUE, 0)>>) /\ bflags = "none")
    /\ IF part = "options" THEN OptsInit
       ELSE given = <<>> /\ stage = "cmdline" /\ args = <<ProgramName>> /\ conf = {<<"NOSUID", "1">>, <<"NODEV", "1">>}
    /\ IF part = "text" THEN TextInit
       ELSE input = [kind |-> "path", v |-> <<"/">>] /\ text = <<"/">> /\ result = <<"none">>

Only(p, A, v) == IF part = p THEN A ELSE UNCHANGED v

PartsNext ==
    /\ UNCHANGED part
    /\ Only("names", NamesNext, nameVars) /\ Only("inodes", InodesNext, inodeVars) /\ Only("node", Next, vars)
    /\ Only("session", SessionNext, sessionVars) /\ Only("tables", TablesNext, tableVars)
    /\ Only("pipe", PipeNext, pipeVars) /\ Only("buffers", BuffersNext, bufferVars)
    /\ Only("locks", LocksNext, lockVars) /\ Only("readdir", ListingNext, dirVars)
    /\ Only("options", OptsNext, optVars) /\ Only("text", TextNext, textVars)
    /\ Only("lo", LoNext, loVars) /\ Only("handlers", PtNext, ptVars)

PartsSpec == PartsInit /\ [][PartsNext]_partVars

=============================================================================
