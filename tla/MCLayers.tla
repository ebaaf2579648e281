------------------------------ MODULE MCLayers ------------------------------
(***************************************************************************)
(* The layers of libfuse that a request passes, its table of paths and its *)
(* mounting, each on a small instance.  As in MCParts a behaviour is one   *)
(* of one part.                                                            *)
(***************************************************************************)
EXTENDS FuseStack, FuseTree, FuseMount

VARIABLE part
partVars == <<part, stackVars, treeVars, mountVars>>

-----------------------------------------------------------------------------
(* Values of constants. *)
AllOps == DOMAIN subdir_oper \cup {"read", "write", "ioctl", "poll", "fallocate", "copy_file_range"}
SomeStacks == {<<>>, <<"subdir">>, <<"iconv">>, <<"subdir", "iconv">>}
SomeFsOps ==
    {AllOps, {"getattr"}, AllOps \ {"flush", "create", "read_buf", "write_buf"}, AllOps \ {"lock", "getattr", "open"}}
SomeLowOps == {DOMAIN fuse_path_ops, {}}

-----------------------------------------------------------------------------
\* Where a part can begin in several ways, it has one while another part runs.
Rests(p, state) == part # p => state

LayersInit ==
    /\ part \in {"stack", "tree", "mount"}
    /\ MountInit /\ Rests("mount", ~mtabfile /\ \A p \in Programs : prog[p].root /\ ~prog[p].auto /\ ~prog[p].sub)
    /\ StackInit /\ Rests("stack", layers = <<>> /\ has = {"getattr"} /\ low = {} /\ ~nullpath)
    /\ TreeInit /\ Rests("tree", Cardinality(fs) = 3 /\ \A j \in Ids : opened[j] = 0)

Only(p, A, v) == IF part = p THEN A ELSE UNCHANGED v

LayersNext ==
    /\ UNCHANGED part
    /\ Only("stack", StackNext, stackVars) /\ Only("tree", TreeNext, treeVars) /\ Only("mount", MountNext, mountVars)

LayersSpec == LayersInit /\ [][LayersNext]_partVars
=============================================================================
