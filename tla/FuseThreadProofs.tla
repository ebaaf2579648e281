-------------------------- MODULE FuseThreadProofs --------------------------
(***************************************************************************)
(* What the threads of libfuse rely on, for any number of threads and      *)
(* requests: interrupt functions find the data they use, and a request is  *)
(* not freed while somebody holds it (FuseRequests); and a worker is left  *)
(* to take the next message (FuseWorkers).                                 *)
(***************************************************************************)
EXTENDS FuseWorkers, FuseRequests, FiniteSetTheorems, TLAPS

-----------------------------------------------------------------------------
(***************************************************************************)
(* Requests and interrupts.                                                *)
(***************************************************************************)
\* A thread that handles a request, and one that has found it for an interrupt, hold a
\* reference to it.
Handling == {"enter", "prepare", "work", "finish", "unset", "reply"}
Holding == Handling \cup {"lock", "call", "put"}
Holders(r) == {t \in Threads : treq[t] = r /\ tpc[t] \in Holding}

RequestsTypeOK ==
    /\ rst \in [Reqs -> {"absent", "read", "listed", "freed", "destroyed"}]
    /\ ctr \in [Reqs -> Nat]
    /\ func \subseteq Reqs /\ tfunc \subseteq Threads
    /\ rlock \in [Reqs -> Threads \cup {NoThread}]
    /\ tpc \in [Threads -> Holding \cup {"idle", "interrupt"}]
    /\ treq \in [Threads -> Reqs \cup {NoReq}]
    /\ \A t \in Threads : tpc[t] # "idle" => treq[t] \in Reqs

\* A function is set only while its handler is past fuse_do_prepare_interrupt; who calls one
\* holds the lock of the request, and the function is still set.
FunctionInv ==
    /\ \A r \in func : \E h \in Threads : treq[h] = r /\ tpc[h] \in {"work", "finish", "unset"}
    /\ \A t \in Threads : tpc[t] = "call" => rlock[treq[t]] = t
    /\ \A t \in tfunc : tpc[t] = "call" /\ treq[t] \in func

\* The reference count counts the holders.
CountInv ==
    \A r \in Reqs :
        /\ ctr[r] = Cardinality(Holders(r))
        /\ rst[r] \in {"absent", "destroyed"} => ctr[r] = 0

RequestsInv == RequestsTypeOK /\ FunctionInv /\ CountInv

\* No request is used after fuse_free_req or do_interrupt has destroyed it: the one who holds
\* a reference finds it there.
RequestsAlive ==
    \A t \in Threads : tpc[t] \in Holding => rst[treq[t]] \notin {"absent", "destroyed"}

USE RequestsAssumption

LEMMA RequestsInitInv == RequestsInit => RequestsInv
<1> SUFFICES ASSUME RequestsInit PROVE RequestsInv
  OBVIOUS
<1> USE DEF RequestsInit
<1>1. RequestsTypeOK
  BY DEF RequestsTypeOK
<1>2. FunctionInv
  BY DEF FunctionInv
<1>3. CountInv
  <2>1. \A r \in Reqs : Holders(r) = {}
    BY DEF Holders, Holding, Handling
  <2> QED BY Zenon, <2>1, FS_EmptySet DEF CountInv
<1> QED BY <1>1, <1>2, <1>3 DEF RequestsInv

\* do_interrupt: a listed request gets a reference, or the interrupt is parked or dropped.
LEMMA InterruptEffect ==
    ASSUME NEW t \in Threads, Interrupt(t)
    PROVE  /\ tpc[t] = "interrupt"
           /\ \/ /\ rst[treq[t]] = "listed" /\ ctr' = [ctr EXCEPT ![treq[t]] = @ + 1]
                 /\ tpc' = [tpc EXCEPT ![t] = "lock"] /\ treq' = [treq EXCEPT ![t] = treq[t]]
              \/ /\ rst[treq[t]] # "listed" /\ ctr' = ctr
                 /\ tpc' = [tpc EXCEPT ![t] = "idle"] /\ treq' = [treq EXCEPT ![t] = NoReq]
           /\ UNCHANGED <<rst, func, rlock, tfunc>>
BY DEF Interrupt, At

LEMMA RequestsTypeStep == RequestsTypeOK /\ CountInv /\ [RequestsNext]_reqVars => RequestsTypeOK'
<1> SUFFICES ASSUME RequestsTypeOK, CountInv, [RequestsNext]_reqVars PROVE RequestsTypeOK'
  OBVIOUS
<1> USE DEF RequestsTypeOK, Holding, Handling, At
<1>1. ASSUME NEW r \in Reqs, SendRequest(r) \/ SendInterrupt(r) PROVE RequestsTypeOK'
  BY <1>1 DEF SendRequest, SendInterrupt
<1>2. ASSUME NEW t \in Threads, NEW r \in Reqs, Take(t, r) \/ TakeInterrupt(t, r) PROVE RequestsTypeOK'
  BY <1>2 DEF Take, TakeInterrupt
<1>3. ASSUME NEW t \in Threads, Enter(t) \/ Prepare(t) \/ Work(t) \/ Finish(t) \/ Unset(t)
      PROVE RequestsTypeOK'
  BY <1>3 DEF Enter, Prepare, Work, Finish, Unset
<1>4. ASSUME NEW t \in Threads, Interrupt(t) \/ Mark(t) \/ Call(t) PROVE RequestsTypeOK'
  <2>1. CASE Interrupt(t)
    BY <2>1, InterruptEffect
  <2>2. CASE Mark(t)
    BY <2>2 DEF Mark
  <2>3. CASE Call(t)
    BY <2>3 DEF Call
  <2> QED BY <1>4, <2>1, <2>2, <2>3
<1>5. ASSUME NEW t \in Threads, tpc[t] \in Holding PROVE ctr[treq[t]] \in Nat \ {0}
  <2>1. t \in Holders(treq[t])
    BY <1>5 DEF Holders
  <2>2. IsFiniteSet(Holders(treq[t]))
    BY FS_Subset DEF Holders
  <2> QED BY <1>5, <2>1, <2>2, FS_EmptySet, FS_CardinalityType DEF CountInv
<1>6. ASSUME NEW t \in Threads, ReplyTo(t) \/ Put(t) PROVE RequestsTypeOK'
  BY <1>5, <1>6 DEF ReplyTo, Put, Drop
<1>7. CASE UNCHANGED reqVars
  BY <1>7 DEF reqVars
<1> QED BY <1>1, <1>2, <1>3, <1>4, <1>6, <1>7 DEF RequestsNext, ThreadStep

LEMMA FunctionStep == RequestsTypeOK /\ FunctionInv /\ [RequestsNext]_reqVars => FunctionInv'
<1> SUFFICES ASSUME RequestsTypeOK, FunctionInv, [RequestsNext]_reqVars PROVE FunctionInv'
  OBVIOUS
<1> USE DEF RequestsTypeOK, FunctionInv, At
<1>1. ASSUME NEW r \in Reqs, SendRequest(r) \/ SendInterrupt(r) PROVE FunctionInv'
  BY <1>1 DEF SendRequest, SendInterrupt
<1>2. ASSUME NEW t \in Threads, NEW r \in Reqs, Take(t, r) \/ TakeInterrupt(t, r) PROVE FunctionInv'
  BY <1>2 DEF Take, TakeInterrupt
<1>3. ASSUME NEW t \in Threads, Enter(t) PROVE FunctionInv'
  BY Zenon, <1>3 DEF Enter
<1>4. ASSUME NEW t \in Threads, Prepare(t) PROVE FunctionInv'
  BY <1>4 DEF Prepare
<1>5. ASSUME NEW t \in Threads, Work(t) \/ Finish(t) PROVE FunctionInv'
  BY <1>5 DEF Work, Finish
<1>6. ASSUME NEW t \in Threads, Unset(t) PROVE FunctionInv'
  BY <1>6 DEF Unset
<1>7. ASSUME NEW t \in Threads, ReplyTo(t) \/ Put(t) PROVE FunctionInv'
  BY <1>7 DEF ReplyTo, Put
<1>8. ASSUME NEW t \in Threads, Interrupt(t) PROVE FunctionInv'
  BY <1>8, InterruptEffect
<1>9. ASSUME NEW t \in Threads, Mark(t) PROVE FunctionInv'
  BY <1>9 DEF Mark
<1>10. ASSUME NEW t \in Threads, Call(t) PROVE FunctionInv'
  BY <1>10 DEF Call
<1>11. CASE UNCHANGED reqVars
  BY <1>11 DEF reqVars
<1> QED BY <1>1, <1>2, <1>3, <1>4, <1>5, <1>6, <1>7, <1>8, <1>9, <1>10, <1>11 DEF RequestsNext, ThreadStep

\* A thread comes to hold a request, or lets go of one.
LEMMA HolderAdded ==
    ASSUME NEW r, Holders(r) \in SUBSET Threads, NEW t \in Threads, t \notin Holders(r)
    PROVE  Cardinality(Holders(r) \cup {t}) = Cardinality(Holders(r)) + 1
BY FS_Subset, FS_AddElement

LEMMA HolderGone ==
    ASSUME NEW r, Holders(r) \in SUBSET Threads, NEW t \in Holders(r)
    PROVE  /\ Cardinality(Holders(r) \ {t}) = Cardinality(Holders(r)) - 1
           /\ Cardinality(Holders(r)) \in Nat \ {0}
BY Zenon, FS_Subset, FS_RemoveElement, FS_CardinalityType, FS_EmptySet

LEMMA CountStep == RequestsInv /\ [RequestsNext]_reqVars => CountInv'
<1> SUFFICES ASSUME RequestsInv, [RequestsNext]_reqVars PROVE CountInv'
  OBVIOUS
<1> USE DEF RequestsInv, RequestsTypeOK, At
<1>sub. \A r : Holders(r) \in SUBSET Threads
  BY DEF Holders
\* What a step does to the holders and the count of the request it is about.
<1>same. ASSUME \A r \in Reqs : Holders(r)' = Holders(r),
                ctr' = ctr,
                \A r \in Reqs : rst'[r] \in {"absent", "destroyed"} => rst[r] \in {"absent", "destroyed"}
         PROVE  CountInv'
  BY <1>same DEF CountInv
<1>more. ASSUME NEW t \in Threads, NEW r \in Reqs, t \notin Holders(r), Holders(r)' = Holders(r) \cup {t},
                \A q \in Reqs \ {r} : Holders(q)' = Holders(q),
                ctr' = [ctr EXCEPT ![r] = @ + 1],
                rst'[r] \notin {"absent", "destroyed"},
                \A q \in Reqs \ {r} : rst'[q] = rst[q]
         PROVE  CountInv'
  BY <1>more, <1>sub, HolderAdded DEF CountInv
<1>less. ASSUME NEW t \in Threads, NEW r \in Reqs, NEW left, t \in Holders(r), Holders(r)' = Holders(r) \ {t},
                \A q \in Reqs \ {r} : Holders(q)' = Holders(q),
                Drop(r, left), left \notin {"absent", "destroyed"}
         PROVE  CountInv'
  BY <1>less, <1>sub, HolderGone DEF CountInv, Drop
<1>1. ASSUME NEW r \in Reqs, SendRequest(r) \/ SendInterrupt(r) PROVE CountInv'
  BY <1>1, <1>same DEF SendRequest, SendInterrupt, Holders
<1>2. ASSUME NEW t \in Threads, NEW r \in Reqs, Take(t, r) PROVE CountInv'
  <2>1. ctr[r] = 0 /\ tpc[t] = "idle" /\ rst'[r] = "read"
    BY <1>2 DEF Take, CountInv
  <2>2. /\ Holders(r)' = Holders(r) \cup {t} /\ t \notin Holders(r)
        /\ \A q \in Reqs \ {r} : Holders(q)' = Holders(q)
    BY <1>2, <2>1 DEF Take, Holders, Holding, Handling
  <2>3. ctr' = [ctr EXCEPT ![r] = @ + 1] /\ \A q \in Reqs \ {r} : rst'[q] = rst[q]
    BY <1>2, <2>1 DEF Take
  <2> QED BY Zenon, <2>1, <2>2, <2>3, <1>more
<1>3. ASSUME NEW t \in Threads, NEW r \in Reqs, TakeInterrupt(t, r) PROVE CountInv'
  <2>1. \A q \in Reqs : Holders(q)' = Holders(q)
    BY <1>3 DEF TakeInterrupt, Holders, Holding, Handling
  <2> QED BY <1>3, <2>1, <1>same DEF TakeInterrupt
<1>4. ASSUME NEW t \in Threads, Enter(t) PROVE CountInv'
  <2>1. \A q \in Reqs : Holders(q)' = Holders(q)
    BY <1>4 DEF Enter, Holders, Holding, Handling
  <2>2. /\ ctr' = ctr
        /\ \A r \in Reqs : rst'[r] \in {"absent", "destroyed"} => rst[r] \in {"absent", "destroyed"}
    BY <1>4 DEF Enter
  <2> QED BY <2>1, <2>2, <1>same
<1>5. ASSUME NEW t \in Threads, Prepare(t) \/ Work(t) \/ Finish(t) \/ Unset(t) \/ Mark(t) \/ Call(t) PROVE CountInv'
  <2>1. \A q \in Reqs : Holders(q)' = Holders(q)
    BY <1>5 DEF Prepare, Work, Finish, Unset, Mark, Call, Holders, Holding, Handling
  <2>2. ctr' = ctr /\ rst' = rst
    BY <1>5 DEF Prepare, Work, Finish, Unset, Mark, Call
  <2> QED BY <2>1, <2>2, <1>same
<1>6. ASSUME NEW t \in Threads, ReplyTo(t) \/ Put(t) PROVE CountInv'
  <2>0. PICK r \in Reqs : r = treq[t]
    BY <1>6 DEF ReplyTo, Put
  <2>1. tpc[t] \in {"reply", "put"} /\ tpc' = [tpc EXCEPT ![t] = "idle"] /\ treq' = [treq EXCEPT ![t] = NoReq]
    BY <1>6 DEF ReplyTo, Put
  <2>2. /\ Holders(r)' = Holders(r) \ {t} /\ t \in Holders(r)
        /\ \A q \in Reqs \ {r} : Holders(q)' = Holders(q)
    BY <2>0, <2>1 DEF Holders, Holding, Handling
  <2>3. PICK left : left \notin {"absent", "destroyed"} /\ Drop(r, left)
    <3>1. rst[r] \notin {"absent", "destroyed"}
      BY Zenon, <2>2, <1>sub, HolderGone DEF CountInv
    <3> QED BY <1>6, <2>0, <3>1 DEF ReplyTo, Put
  <2> QED BY <2>2, <2>3, <1>less
<1>7. ASSUME NEW t \in Threads, Interrupt(t) PROVE CountInv'
  <2>0. PICK r \in Reqs : r = treq[t]
    BY <1>7, InterruptEffect
  <2>1. tpc[t] = "interrupt" /\ rst' = rst
    BY <1>7, InterruptEffect
  <2>2. CASE rst[r] = "listed"
    <3>1. tpc' = [tpc EXCEPT ![t] = "lock"] /\ treq' = [treq EXCEPT ![t] = r]
          /\ ctr' = [ctr EXCEPT ![r] = @ + 1]
      BY <1>7, <2>0, <2>2, InterruptEffect
    <3>2. /\ Holders(r)' = Holders(r) \cup {t} /\ t \notin Holders(r)
          /\ \A q \in Reqs \ {r} : Holders(q)' = Holders(q)
      BY <2>0, <2>1, <3>1 DEF Holders, Holding, Handling
    <3> QED BY Zenon, <2>1, <2>2, <3>1, <3>2, <1>more
  <2>3. CASE rst[r] # "listed"
    <3>1. tpc' = [tpc EXCEPT ![t] = "idle"] /\ treq' = [treq EXCEPT ![t] = NoReq] /\ ctr' = ctr
      BY <1>7, <2>0, <2>3, InterruptEffect
    <3>2. \A q \in Reqs : Holders(q)' = Holders(q)
      BY <2>0, <2>1, <3>1 DEF Holders, Holding, Handling
    <3> QED BY <2>1, <3>1, <3>2, <1>same
  <2> QED BY <2>2, <2>3
<1>8. CASE UNCHANGED reqVars
  BY <1>8, <1>same DEF reqVars, Holders
<1> QED BY <1>1, <1>2, <1>3, <1>4, <1>5, <1>6, <1>7, <1>8 DEF RequestsNext, ThreadStep

LEMMA RequestsInvariance == RequestsSpec => []RequestsInv
<1>1. RequestsInit => RequestsInv
  BY RequestsInitInv
<1>2. RequestsInv /\ [RequestsNext]_reqVars => RequestsInv'
  BY RequestsTypeStep, FunctionStep, CountStep DEF RequestsInv
<1> QED BY <1>1, <1>2, PTL DEF RequestsSpec

\* An interrupt function that runs finds the data of its handler: fuse_do_finish_interrupt waits
\* for it on the lock of the request (fuse_req_interrupt_func, do_interrupt).
THEOREM FunctionsFindData == RequestsSpec => []FunctionDataAlive
<1>1. RequestsInv => FunctionDataAlive
  BY DEF RequestsInv, FunctionInv, FunctionDataAlive
<1> QED BY <1>1, RequestsInvariance, PTL

\* The reference count is exact, so nobody uses a request that was destroyed (fuse_free_req,
\* destroy_req, do_interrupt).
THEOREM HeldRequestsAlive == RequestsSpec => []RequestsAlive
<1>1. RequestsInv => RequestsAlive
  <2> SUFFICES ASSUME RequestsInv, NEW t \in Threads, tpc[t] \in Holding
               PROVE  rst[treq[t]] \notin {"absent", "destroyed"}
    BY DEF RequestsAlive
  <2>1. treq[t] \in Reqs
    BY DEF RequestsInv, RequestsTypeOK, Holding, Handling
  <2>2. t \in Holders(treq[t]) /\ Holders(treq[t]) \in SUBSET Threads
    BY DEF Holders
  <2> QED BY Zenon, <2>1, <2>2, HolderGone DEF RequestsInv, CountInv
<1> QED BY <1>1, RequestsInvariance, PTL

-----------------------------------------------------------------------------
(***************************************************************************)
(* The pool of workers.                                                    *)
(***************************************************************************)
Places == {"none", "loop", "receive", "got", "process", "after", "post", "detached", "gone", "ended"}

\* The workers of the list that numavail is meant to count.
Available == {w \in listed : ~(wpc[w] \in {"process", "after"} /\ wmsg[w] = "request")}

PoolTypeOK ==
    /\ troubles \in Nat /\ numavail \in Int
    /\ listed \subseteq Workers
    /\ wpc \in [Workers -> Places] /\ wmsg \in [Workers -> Kinds]

\* mt.exit, the cancellations and the ends of workers in the course of the main thread.
CourseInv ==
    /\ exit => mpc \in {"next", "join", "return", "done"}
    /\ mpc \in {"next", "join"} => exit
    /\ mpc \in {"start", "wait"} => multi
    /\ cancelled # {} => exit
    /\ ~exit /\ ~exited /\ mpc # "done" => \A w \in Workers : wpc[w] \notin {"post", "ended"}

\* Until mt.exit is set the list holds the workers that run, numavail counts those of them
\* that are available, and there is one as long as nothing has failed.
AvailInv ==
    ~exit =>
        /\ \A w \in Workers : w \in listed <=> wpc[w] \notin {"none", "detached", "gone"}
        /\ numavail = Cardinality(Available)
        /\ MaxIdle > 0 /\ multi /\ mpc # "start" /\ troubles = 0 => numavail > 0

PoolInv == PoolTypeOK /\ CourseInv /\ AvailInv

USE WorkersAssumption

LEMMA PoolInitInv == PoolInit => PoolInv
<1> SUFFICES ASSUME PoolInit PROVE PoolInv
  OBVIOUS
<1>1. PoolTypeOK
  BY DEF PoolInit, PoolTypeOK, Places, Kinds
<1>2. CourseInv
  <2>1. multi => mpc = "start"
    BY DEF PoolInit
  <2>2. ~multi => mpc = "check"
    BY DEF PoolInit
  <2> QED BY <2>1, <2>2 DEF PoolInit, CourseInv
<1>3. AvailInv
  <2>1. Available = {}
    BY DEF PoolInit, Available
  <2> QED BY <2>1, FS_EmptySet DEF PoolInit, AvailInv
<1> QED BY <1>1, <1>2, <1>3 DEF PoolInv

\* Steps that leave the list, the places of workers with a message and the count alone.
LEMMA AvailFrame ==
    ASSUME AvailInv, UNCHANGED <<multi, numavail, listed, exit>>,
           Available' = Available,
           \A w \in Workers : wpc[w] \in {"none", "detached", "gone"} <=> wpc'[w] \in {"none", "detached", "gone"},
           troubles' = 0 => troubles = 0,
           mpc = "start" => mpc' = "start"
    PROVE  AvailInv'
BY DEF AvailInv

\* fuse_loop_start_thread: one worker more, and one more available.
LEMMA WorkerAdded ==
    ASSUME NEW S \in SUBSET Workers, NEW v \in Workers, v \notin S
    PROVE  Cardinality(S \cup {v}) = Cardinality(S) + 1 /\ Cardinality(S) \in Nat
BY FS_Subset, FS_AddElement, FS_CardinalityType

LEMMA WorkerRemoved ==
    ASSUME NEW S \in SUBSET Workers, NEW v \in S
    PROVE  Cardinality(S \ {v}) = Cardinality(S) - 1 /\ Cardinality(S) \in Nat \ {0}
BY FS_Subset, FS_RemoveElement, FS_CardinalityType, FS_EmptySet

USE DEF kernelVars, mtVars, chanVars

LEMMA PoolTypeStep == PoolTypeOK /\ [PoolNext]_poolVars => PoolTypeOK'
<1> SUFFICES ASSUME PoolTypeOK, [PoolNext]_poolVars PROVE PoolTypeOK'
  OBVIOUS
<1>1. ASSUME NEW k \in Kinds, Send(k) PROVE PoolTypeOK'
  BY <1>1 DEF Send, PoolTypeOK
<1>2. CASE Unmount \/ Signal
  BY <1>2 DEF Unmount, Signal, Trouble, PoolTypeOK
<1>3. CASE MainStart
  <2>1. ASSUME NEW w \in Workers, StartThread(w, numavail, wpc) PROVE PoolTypeOK'
    BY <1>3, <2>1 DEF MainStart, StartThread, Trouble, PoolTypeOK, Places
  <2>2. CASE StartFails(numavail, wpc)
    BY <1>3, <2>2 DEF MainStart, StartFails, Trouble, PoolTypeOK
  <2> QED BY <1>3, <2>1, <2>2 DEF MainStart
<1>4. CASE MainCheck \/ MainWakes \/ MainCancel \/ MainNext \/ MainJoin \/ MainReturn
  BY <1>4 DEF MainCheck, MainWakes, MainCancel, MainNext, MainJoin, MainReturn, PoolTypeOK
<1>5. CASE SingleStep
  BY <1>5 DEF SingleStep, Trouble, PoolTypeOK
<1>6. ASSUME NEW w \in Workers, WorkerLoop(w) \/ WorkerUnmounted(w) \/ WorkerCancelled(w) \/ WorkerReadFails(w)
      PROVE  PoolTypeOK'
  BY <1>6 DEF WorkerLoop, WorkerUnmounted, WorkerCancelled, WorkerReadFails, Place, Trouble, PoolTypeOK, Places
<1>7. ASSUME NEW w \in Workers, NEW k \in Kinds, WorkerReceives(w, k) PROVE PoolTypeOK'
  BY <1>7 DEF WorkerReceives, Place, PoolTypeOK, Places
<1>8. ASSUME NEW w \in Workers, WorkerTakes(w) PROVE PoolTypeOK'
  <2> DEFINE avail == numavail - IF wmsg[w] = "forget" THEN 0 ELSE 1
             places == [wpc EXCEPT ![w] = "process"]
  <2>1. avail \in Int /\ places \in [Workers -> Places]
    BY DEF PoolTypeOK, Places
  <2>2. CASE avail # 0
    BY <1>8, <2>1, <2>2 DEF WorkerTakes, TakesLeaving, PoolTypeOK
  <2>3. ASSUME NEW v \in Workers, StartThread(v, avail, places) PROVE PoolTypeOK'
    BY <1>8, <2>1, <2>3 DEF WorkerTakes, TakesLeaving, StartThread, Trouble, PoolTypeOK, Places
  <2>4. CASE StartFails(avail, places)
    BY <1>8, <2>1, <2>4 DEF WorkerTakes, TakesLeaving, StartFails, Trouble, PoolTypeOK
  <2> QED BY Zenon, <1>8, <2>2, <2>3, <2>4 DEF WorkerTakes, TakesLeaving
<1>9. ASSUME NEW w \in Workers, WorkerTooLate(w) \/ WorkerProcesses(w) \/ WorkerGone(w) \/ WorkerPosts(w) \/ AnswerMessage(w)
      PROVE  PoolTypeOK'
  BY <1>9 DEF WorkerTooLate, WorkerProcesses, WorkerGone, WorkerPosts, AnswerMessage, Place, PoolTypeOK, Places
<1>10. ASSUME NEW w \in Workers, WorkerAfter(w) PROVE PoolTypeOK'
  BY <1>10 DEF WorkerAfter, Place, PoolTypeOK, Places
<1>11. CASE UNCHANGED poolVars
  BY <1>11 DEF poolVars, PoolTypeOK
<1> QED BY <1>1, <1>2, <1>3, <1>4, <1>5, <1>6, <1>7, <1>8, <1>9, <1>10, <1>11 DEF PoolNext, MainStep, WorkerStep

LEMMA CourseStep == PoolInv /\ [PoolNext]_poolVars => CourseInv'
<1> SUFFICES ASSUME PoolInv, [PoolNext]_poolVars PROVE CourseInv'
  OBVIOUS
<1> USE DEF PoolInv, PoolTypeOK, CourseInv, Place
<1>1. ASSUME NEW k \in Kinds, Send(k) PROVE CourseInv'
  BY <1>1 DEF Send
<1>2. CASE Unmount \/ Signal
  BY <1>2 DEF Unmount, Signal
<1>3. CASE MainStart
  BY <1>3 DEF MainStart, StartThread, StartFails
<1>4. CASE MainCheck \/ MainWakes \/ MainCancel \/ MainNext \/ MainJoin \/ MainReturn
  BY <1>4 DEF MainCheck, MainWakes, MainCancel, MainNext, MainJoin, MainReturn
<1>5. CASE SingleStep
  BY <1>5 DEF SingleStep
<1>6. ASSUME NEW w \in Workers, WorkerLoop(w) \/ WorkerUnmounted(w) \/ WorkerCancelled(w) \/ WorkerReadFails(w)
      PROVE  CourseInv'
  BY <1>6 DEF WorkerLoop, WorkerUnmounted, WorkerCancelled, WorkerReadFails
<1>7. ASSUME NEW w \in Workers, NEW k \in Kinds, WorkerReceives(w, k) PROVE CourseInv'
  BY <1>7 DEF WorkerReceives
<1>8. ASSUME NEW w \in Workers, WorkerTakes(w) PROVE CourseInv'
  BY <1>8 DEF WorkerTakes, TakesLeaving, StartThread, StartFails
<1>9. ASSUME NEW w \in Workers, WorkerTooLate(w) \/ WorkerProcesses(w) \/ WorkerGone(w) \/ WorkerPosts(w) \/ AnswerMessage(w)
      PROVE  CourseInv'
  BY <1>9 DEF WorkerTooLate, WorkerProcesses, WorkerGone, WorkerPosts, AnswerMessage
<1>10. ASSUME NEW w \in Workers, WorkerAfter(w) PROVE CourseInv'
  BY <1>10 DEF WorkerAfter
<1>11. CASE UNCHANGED poolVars
  BY <1>11 DEF poolVars
<1> QED BY <1>1, <1>2, <1>3, <1>4, <1>5, <1>6, <1>7, <1>8, <1>9, <1>10, <1>11 DEF PoolNext, MainStep, WorkerStep

LEMMA AvailStep == PoolInv /\ [PoolNext]_poolVars => AvailInv'
<1> SUFFICES ASSUME PoolInv, [PoolNext]_poolVars PROVE AvailInv'
  OBVIOUS
<1> USE DEF PoolInv, PoolTypeOK, Place
<1>1. ASSUME NEW k \in Kinds, Send(k) PROVE AvailInv'
  BY <1>1, AvailFrame DEF Send, Available
<1>2. CASE Unmount \/ Signal
  BY <1>2, AvailFrame DEF Unmount, Signal, Trouble, Available
<1>3. CASE MainStart
  <2>1. ~exit /\ Available \in SUBSET Workers
    BY <1>3 DEF MainStart, CourseInv, Available
  <2>2. ASSUME NEW w \in Workers, StartThread(w, numavail, wpc) PROVE AvailInv'
    <3>1. w \notin listed /\ w \notin Available
      BY <2>1, <2>2 DEF StartThread, AvailInv, Available
    <3>2. Available' = Available \cup {w}
      BY <1>3, <2>2, <3>1 DEF MainStart, StartThread, Available
    <3>3. numavail' = Cardinality(Available') /\ numavail' > 0
      BY <2>1, <2>2, <3>1, <3>2, WorkerAdded DEF StartThread, AvailInv
    <3>4. \A x \in Workers : x \in listed' <=> wpc'[x] \notin {"none", "detached", "gone"}
      BY <2>1, <2>2 DEF StartThread, AvailInv
    <3> QED BY <3>3, <3>4 DEF AvailInv
  <2>3. CASE StartFails(numavail, wpc)
    <3>1. UNCHANGED <<numavail, listed, exit, wpc, wmsg>> /\ troubles' # 0
      BY <1>3, <2>3 DEF MainStart, StartFails, Trouble
    <3> QED BY <2>1, <3>1 DEF AvailInv, Available
  <2> QED BY <1>3, <2>2, <2>3 DEF MainStart
<1>4. CASE MainCheck \/ MainWakes \/ MainNext \/ MainReturn
  BY <1>4, AvailFrame DEF MainCheck, MainWakes, MainNext, MainReturn, Available
<1>5. CASE MainCancel \/ MainJoin
  BY <1>5 DEF MainCancel, MainJoin, CourseInv, AvailInv
<1>6. CASE SingleStep
  <2>1. UNCHANGED <<multi, numavail, listed, exit, wpc, wmsg>> /\ (troubles' = 0 => troubles = 0) /\ mpc # "start"
    BY <1>6 DEF SingleStep, Trouble
  <2> QED BY <2>1 DEF AvailInv, Available
<1>7. ASSUME NEW w \in Workers, WorkerLoop(w) \/ WorkerUnmounted(w) \/ WorkerCancelled(w) \/ WorkerReadFails(w)
                                \/ WorkerTooLate(w) \/ WorkerProcesses(w) \/ WorkerGone(w) \/ WorkerPosts(w) \/ AnswerMessage(w)
      PROVE  AvailInv'
  <2>1. /\ UNCHANGED <<multi, numavail, listed, exit, mpc, wmsg>> /\ (troubles' = 0 => troubles = 0)
        /\ \/ wpc' = wpc
           \/ /\ wpc[w] \in {"loop", "receive", "got", "post"}
              /\ wpc' \in {[wpc EXCEPT ![w] = p] : p \in {"loop", "receive", "post", "ended"}}
           \/ wpc[w] = "process" /\ wpc' = [wpc EXCEPT ![w] = "after"]
           \/ wpc[w] = "detached" /\ wpc' = [wpc EXCEPT ![w] = "gone"]
    <3>1. CASE WorkerLoop(w) \/ WorkerUnmounted(w) \/ WorkerCancelled(w)
      BY <3>1 DEF WorkerLoop, WorkerUnmounted, WorkerCancelled
    <3>2. CASE WorkerReadFails(w)
      <4>1. UNCHANGED <<multi, numavail, listed, exit, mpc, wmsg>> /\ (troubles' = 0 => troubles = 0)
        BY <3>2 DEF WorkerReadFails, Trouble
      <4>2. /\ wpc[w] = "receive"
            /\ wpc' = [wpc EXCEPT ![w] = "post"] \/ wpc' = [wpc EXCEPT ![w] = "loop"]
        BY <3>2 DEF WorkerReadFails
      <4> QED BY <4>1, <4>2
    <3>3. CASE WorkerTooLate(w) \/ WorkerProcesses(w) \/ WorkerGone(w)
      BY <3>3 DEF WorkerTooLate, WorkerProcesses, WorkerGone
    <3>4. CASE WorkerPosts(w) \/ AnswerMessage(w)
      BY <3>4 DEF WorkerPosts, AnswerMessage
    <3> QED BY <1>7, <3>1, <3>2, <3>3, <3>4
  <2>2. \A x \in Workers : wpc[x] \in {"none", "detached", "gone"} <=> wpc'[x] \in {"none", "detached", "gone"}
    BY <2>1
  <2>3. \A x \in Workers : wpc[x] \in {"process", "after"} <=> wpc'[x] \in {"process", "after"}
    BY <2>1
  <2>4. Available' = Available
    BY <2>1, <2>3 DEF Available
  <2> QED BY <2>1, <2>2, <2>4, AvailFrame
<1>8. ASSUME NEW w \in Workers, NEW k \in Kinds, WorkerReceives(w, k) PROVE AvailInv'
  <2>1. /\ UNCHANGED <<multi, numavail, listed, exit, mpc, troubles>>
        /\ wpc[w] = "receive" /\ wpc' \in {[wpc EXCEPT ![w] = p] : p \in {"got", "post"}}
        /\ wmsg' = [wmsg EXCEPT ![w] = k]
    BY Zenon, <1>8 DEF WorkerReceives
  <2>2. \A x \in Workers : wpc[x] \in {"none", "detached", "gone"} <=> wpc'[x] \in {"none", "detached", "gone"}
    BY <2>1
  <2>3. Available' = Available
    BY <2>1 DEF Available
  <2> QED BY <2>1, <2>2, <2>3, AvailFrame
<1>9. ASSUME NEW w \in Workers, WorkerTakes(w) PROVE AvailInv'
  <2> DEFINE avail == numavail - IF wmsg[w] = "forget" THEN 0 ELSE 1
             places == [wpc EXCEPT ![w] = "process"]
  <2>1. wpc[w] = "got" /\ ~exit /\ ~exit' /\ UNCHANGED <<multi, wmsg, mpc>>
    BY <1>9 DEF WorkerTakes, TakesLeaving
  <2>2. /\ w \in Available /\ Available \in SUBSET Workers /\ numavail = Cardinality(Available)
        /\ \A x \in Workers : x \in listed <=> wpc[x] \notin {"none", "detached", "gone"}
    BY <2>1 DEF AvailInv, Available
  <2>3. PICK left \in SUBSET Workers : left = IF wmsg[w] = "forget" THEN Available ELSE Available \ {w}
    BY Zenon, <2>2
  <2>4. avail = Cardinality(left) /\ avail \in Nat
    <3>1. Cardinality(Available \ {w}) = Cardinality(Available) - 1 /\ Cardinality(Available) \in Nat \ {0}
      BY <2>2, WorkerRemoved
    <3>2. CASE wmsg[w] = "forget"
      BY <2>2, <2>3, <3>1, <3>2
    <3>3. CASE wmsg[w] # "forget"
      BY <2>2, <2>3, <3>1, <3>3
    <3> QED BY <3>2, <3>3
  <2>5. left = {x \in listed : ~(places[x] \in {"process", "after"} /\ wmsg[x] = "request")}
    BY <2>1, <2>2, <2>3 DEF Available, Kinds
  <2>6. CASE avail # 0
    <3>1. UNCHANGED listed /\ wpc' = places /\ numavail' = avail
      BY <1>9, <2>6 DEF WorkerTakes, TakesLeaving
    <3>2. Available' = left
      BY <2>1, <2>5, <3>1 DEF Available
    <3> QED BY <2>1, <2>2, <2>4, <2>6, <3>1, <3>2 DEF AvailInv
  <2>7. ASSUME NEW v \in Workers, StartThread(v, avail, places) PROVE AvailInv'
    <3>1. wpc[v] \in {"none", "gone"} /\ wpc' = [places EXCEPT ![v] = "loop"] /\ listed' = listed \cup {v} /\ numavail' = avail + 1
      BY <2>7 DEF StartThread
    <3>2. v # w /\ v \notin listed /\ v \notin left
      BY <2>1, <2>2, <2>5, <3>1
    <3>3. Available' = left \cup {v}
      BY <2>1, <2>5, <3>1, <3>2 DEF Available
    <3>4. numavail' = Cardinality(Available') /\ numavail' > 0
      BY <2>4, <3>1, <3>2, <3>3, WorkerAdded
    <3>5. \A x \in Workers : x \in listed' <=> wpc'[x] \notin {"none", "detached", "gone"}
      BY <2>1, <2>2, <3>1
    <3> QED BY <3>4, <3>5 DEF AvailInv
  <2>8. CASE StartFails(avail, places)
    <3>1. UNCHANGED listed /\ wpc' = places /\ numavail' = avail /\ troubles' # 0
      BY <2>8 DEF StartFails, Trouble
    <3>2. Available' = left
      BY <2>1, <2>5, <3>1 DEF Available
    <3> QED BY <2>1, <2>2, <2>4, <3>1, <3>2 DEF AvailInv
  <2> QED BY Zenon, <1>9, <2>6, <2>7, <2>8 DEF WorkerTakes, TakesLeaving
<1>10. ASSUME NEW w \in Workers, WorkerAfter(w) PROVE AvailInv'
  <2> DEFINE avail == numavail + IF wmsg[w] = "forget" THEN 0 ELSE 1
  <2>1. wpc[w] = "after" /\ UNCHANGED <<multi, wmsg, mpc, exit, troubles>>
    BY <1>10 DEF WorkerAfter
  <2> SUFFICES ASSUME ~exit PROVE AvailInv'
    BY <2>1 DEF AvailInv
  <2>2. /\ w \in listed /\ Available \in SUBSET Workers /\ numavail = Cardinality(Available)
        /\ \A x \in Workers : x \in listed <=> wpc[x] \notin {"none", "detached", "gone"}
        /\ w \in Available <=> wmsg[w] = "forget"
    BY <2>1 DEF AvailInv, Available, Kinds
  <2>3. CASE avail > MaxIdle
    <3>1. listed' = listed \ {w} /\ numavail' = avail - 1 /\ wpc' = [wpc EXCEPT ![w] = "detached"]
      BY <1>10, <2>3 DEF WorkerAfter
    <3>2. Available' = Available \ {w}
      BY <2>1, <3>1 DEF Available
    <3>3. numavail' = Cardinality(Available')
      <4>1. CASE w \in Available
        <5>1. Cardinality(Available \ {w}) = Cardinality(Available) - 1
          BY <2>2, <4>1, WorkerRemoved
        <5> QED BY <2>2, <3>1, <3>2, <4>1, <5>1
      <4>2. CASE w \notin Available
        <5>1. Available \ {w} = Available
          BY <4>2
        <5>2. numavail' = numavail
          BY <2>2, <3>1, <4>2
        <5>3. Available' = Available
          BY <3>2, <5>1
        <5> QED BY <2>2, <5>2, <5>3
      <4> QED BY <4>1, <4>2
    <3>4. \A x \in Workers : x \in listed' <=> wpc'[x] \notin {"none", "detached", "gone"}
      BY <2>2, <3>1
    <3>5. MaxIdle > 0 => numavail' > 0
      BY <2>3, <3>1
    <3> QED BY <3>3, <3>4, <3>5 DEF AvailInv
  <2>4. CASE ~(avail > MaxIdle)
    <3>1. listed' = listed /\ numavail' = avail /\ wpc' = [wpc EXCEPT ![w] = "loop"]
      BY <1>10, <2>4 DEF WorkerAfter
    <3>2. Available' = Available \cup {w}
      BY <2>1, <2>2, <3>1 DEF Available
    <3>3. numavail' = Cardinality(Available')
      <4>1. CASE wmsg[w] = "forget"
        BY <2>2, <3>1, <3>2, <4>1
      <4>2. CASE wmsg[w] # "forget"
        BY <2>2, <3>1, <3>2, <4>2, WorkerAdded
      <4> QED BY <4>1, <4>2
    <3>4. \A x \in Workers : x \in listed' <=> wpc'[x] \notin {"none", "detached", "gone"}
      BY <2>2, <3>1
    <3> QED BY <2>1, <3>1, <3>3, <3>4 DEF AvailInv
  <2> QED BY <2>3, <2>4
<1>11. CASE UNCHANGED poolVars
  BY <1>11, AvailFrame DEF poolVars, Available
<1> QED BY <1>1, <1>2, <1>3, <1>4, <1>5, <1>6, <1>7, <1>8, <1>9, <1>10, <1>11 DEF PoolNext, MainStep, WorkerStep

LEMMA PoolInvariance == PoolSpec => []PoolInv
<1>1. PoolInit => PoolInv
  BY PoolInitInv
<1>2. PoolInv /\ [PoolNext]_poolVars => PoolInv'
  BY PoolTypeStep, CourseStep, AvailStep DEF PoolInv
<1> QED BY <1>1, <1>2, PTL DEF PoolSpec

\* A worker is left to take the next message, whatever the others are busy with: numavail is
\* exact until mt.exit is set, and no worker brings it to zero (fuse_do_work, fuse_loop_start_thread).
THEOREM ReceiverIsLeft == PoolSpec => []ReceiverLeft
<1>1. PoolInv => ReceiverLeft
  <2> SUFFICES ASSUME PoolInv, MaxIdle > 0, mpc = "wait", ~exited, troubles = 0
               PROVE  \E w \in listed : \/ wpc[w] \in {"loop", "receive", "got"}
                                        \/ wpc[w] \in {"process", "after"} /\ wmsg[w] = "forget"
    BY DEF ReceiverLeft
  <2>1. ~exit /\ multi /\ \A w \in Workers : wpc[w] \notin {"post", "ended"}
    BY DEF PoolInv, CourseInv
  <2>2. numavail > 0 /\ numavail = Cardinality(Available)
    BY <2>1 DEF PoolInv, AvailInv
  <2>3. PICK w : w \in Available
    BY <2>2, FS_EmptySet
  <2>4. w \in Workers /\ w \in listed /\ wpc[w] \notin {"none", "detached", "gone"}
    BY <2>1, <2>3 DEF PoolInv, PoolTypeOK, AvailInv, Available
  <2> QED BY <2>1, <2>3, <2>4 DEF PoolInv, PoolTypeOK, Available, Places, Kinds
<1> QED BY <1>1, PoolInvariance, PTL
=============================================================================
