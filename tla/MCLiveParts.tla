---------------------------- MODULE MCLiveParts ----------------------------
(***************************************************************************)
(* The parts of libfuse with threads and processes that something is       *)
(* promised to happen in, each on a small instance.  As in MCParts a       *)
(* behaviour is one of one part; fairness is that of the part that runs.   *)
(***************************************************************************)
EXTENDS FuseWorkers, FuseRequests, FuseMount, FuseLife

VARIABLE part
partVars == <<part, poolVars, reqVars, mountVars, lifeVars>>

-----------------------------------------------------------------------------
\* Where a part can begin in several ways, it has one while another part runs.
Rests(p, state) == part # p => state

LivePartsInit ==
    /\ part \in {"pool", "requests", "mount", "life"}
    /\ PoolInit /\ Rests("pool", ~multi /\ ~cloneFd)
    /\ RequestsInit
    /\ MountInit /\ Rests("mount", ~mtabfile /\ \A p \in Programs : prog[p].root /\ ~prog[p].auto /\ ~prog[p].sub)
    /\ LifeInit /\ Rests("life", main = "fuse_main_real" /\ foreground /\ ~modules /\ passed)

Only(p, A, v) == IF part = p THEN A ELSE UNCHANGED v

LivePartsNext ==
    /\ UNCHANGED part
    /\ Only("pool", PoolNext, poolVars) /\ Only("requests", RequestsNext, reqVars)
    /\ Only("mount", MountNext, mountVars) /\ Only("life", LifeNext, lifeVars)

\* PoolFairness, RequestsFairness, MountFairness and LifeFairness, each for the
\* behaviours of its part.
LivePartsFairness ==
    /\ WF_poolVars(part = "pool" /\ MainStep)
    /\ \A w \in Workers : /\ WF_poolVars(part = "pool" /\ WorkerStep(w))
                          /\ WF_poolVars(part = "pool" /\ AnswerMessage(w))
    /\ \A t \in Threads : WF_reqVars(part = "requests" /\ ThreadStep(t))
    /\ \A p \in Programs : WF_mountVars(part = "mount" /\ ProgramStep(p))
    /\ \A a \in Actors : WF_mountVars(part = "mount" /\ HelperStep(a))
    /\ WF_lifeVars(part = "life" /\ LifeNext)

LivePartsSpec == LivePartsInit /\ [][LivePartsNext]_partVars /\ LivePartsFairness
=============================================================================
