----------------------------- MODULE FuseWorkers -----------------------------
(***************************************************************************)
(* The session loops of libfuse (lib/fuse_loop_mt.c, lib/fuse_loop.c) with *)
(* the signal handlers of lib/fuse_signals.c: the main thread starts a     *)
(* worker, waits for the end of the session, cancels and joins.  Workers   *)
(* take messages from the kernel, start another worker when none is left   *)
(* to take the next one, and end themselves when too many are idle.        *)
(*                                                                         *)
(* A section under mt.lock is one step.  What a message asks for is left   *)
(* out; only FORGET messages are told apart, as the code does.             *)
(***************************************************************************)
EXTENDS Integers, FiniteSets

CONSTANTS
    Workers,      \* bound: threads at a time; a name is used again
    MaxIdle,      \* config.max_idle_threads
    MaxMessages,  \* bound: messages the kernel sends
    MaxTroubles   \* bound: failed calls, and signals

ASSUME WorkersAssumption ==
    /\ MaxIdle \in Nat /\ MaxMessages \in Nat /\ MaxTroubles \in Nat
    /\ IsFiniteSet(Workers)

VARIABLES
    multi,      \* fuse_session_loop_mt is run, or else fuse_session_loop
    mounted,    \* the kernel's side of the connection is there
    messages,   \* messages the kernel still may send
    queue,      \* queue[k]: messages of kind k nobody has read
    troubles,   \* failures and signals so far
    exited,     \* se.exited
    numavail, numworker, exit, cloneFd,  \* fields of mt
    finish,     \* the semaphore mt.finish
    listed,     \* the workers in mt's list
    wpc,        \* wpc[w]: where worker w is
    wmsg,       \* wmsg[w]: the kind of message w has
    cancelled,  \* the workers pthread_cancel was called for
    chan,       \* chan[w]: references to the channel w got by clone_fd
    unanswered, \* unanswered[w]: requests taken from it, answered later
    mpc,        \* where the main thread is
    joining     \* the worker it joins

mtVars   == <<numavail, numworker, exit, cloneFd, finish, listed>>
chanVars == <<chan, unanswered>>
kernelVars == <<mounted, messages, queue, troubles>>
poolVars == <<multi, kernelVars, exited, mtVars, wpc, wmsg, cancelled,
              chanVars, mpc, joining>>

Kinds == {"request", "forget"}
NoWorker == "no worker"

\* wpc[w] is "none", "loop": at the loop's test; "receive": in the read, cancellable; "got",
\* "process", "after": with a message; "post": past the loop; "detached": has
\* left the list by itself, "gone" when it is over; "ended": can be joined.
PoolInit ==
    /\ multi \in BOOLEAN /\ cloneFd \in BOOLEAN
    /\ mounted = TRUE /\ messages = MaxMessages
    /\ queue = [k \in Kinds |-> 0] /\ troubles = 0
    /\ exited = FALSE /\ exit = FALSE
    /\ numavail = 0 /\ numworker = 0 /\ finish = 0 /\ listed = {}
    /\ wpc = [w \in Workers |-> "none"] /\ wmsg = [w \in Workers |-> "request"]
    /\ cancelled = {}
    /\ chan = [w \in Workers |-> 0] /\ unanswered = [w \in Workers |-> 0]
    /\ mpc = (IF multi THEN "start" ELSE "check") /\ joining = NoWorker

-----------------------------------------------------------------------------
\* The kernel sends a message, or the file system is unmounted.
Send(k) ==
    /\ mounted /\ messages > 0
    /\ messages' = messages - 1
    /\ queue' = [queue EXCEPT ![k] = @ + 1]
    /\ UNCHANGED <<multi, mounted, troubles, exited, mtVars, wpc, wmsg,
                   cancelled, chanVars, mpc, joining>>

Unmount ==
    /\ mounted
    /\ mounted' = FALSE
    /\ queue' = [k \in Kinds |-> 0]
    /\ UNCHANGED <<multi, messages, troubles, exited, mtVars, wpc, wmsg,
                   cancelled, chanVars, mpc, joining>>

Trouble == troubles < MaxTroubles /\ troubles' = troubles + 1

\* exit_handler runs in the main thread, the only one that takes signals: it
\* ends the session, and a sem_wait or read it interrupts returns.
Signal ==
    /\ Trouble
    /\ mpc \notin {"start", "done"}
    /\ exited' = TRUE
    /\ mpc' = (IF mpc \in {"wait", "read"} THEN "check" ELSE mpc)
    /\ UNCHANGED <<multi, mounted, messages, queue, mtVars, wpc, wmsg,
                   cancelled, chanVars, joining>>

-----------------------------------------------------------------------------
Place(w, p) == wpc' = [wpc EXCEPT ![w] = p]

\* fuse_loop_start_thread in a state where avail workers are available: a new
\* worker with a channel of its own when clone_fd is on, or a failure, which
\* leaves everything as it was.  A failed clone turns clone_fd off for good.
StartThread(w, avail, places) ==
    /\ wpc[w] \in {"none", "gone"} /\ chan[w] = 0
    /\ \/ /\ cloneFd /\ chan' = [chan EXCEPT ![w] = 1]
          /\ UNCHANGED <<cloneFd, troubles>>
       \/ ~cloneFd /\ UNCHANGED <<cloneFd, chan, troubles>>
       \/ cloneFd /\ Trouble /\ cloneFd' = FALSE /\ chan' = chan
    /\ wpc' = [places EXCEPT ![w] = "loop"]
    /\ listed' = listed \cup {w}
    /\ numavail' = avail + 1
    /\ numworker' = numworker + 1

StartFails(avail, places) ==
    /\ Trouble
    /\ wpc' = places
    /\ numavail' = avail
    /\ UNCHANGED <<listed, numworker, chan, cloneFd>>

\* fuse_session_loop_mt: the first worker.
MainStart ==
    /\ mpc = "start"
    /\ \/ \E w \in Workers : StartThread(w, numavail, wpc) /\ mpc' = "check"
       \/ StartFails(numavail, wpc) /\ mpc' = "return"
    /\ UNCHANGED <<multi, mounted, messages, queue, exited, exit, finish, wmsg,
                   cancelled, unanswered, joining>>

\* Then the main thread waits on the semaphore until the session is over.
MainCheck ==
    /\ multi /\ mpc = "check"
    /\ mpc' = (IF exited THEN "cancel" ELSE "wait")
    /\ UNCHANGED <<multi, kernelVars, exited, mtVars, wpc, wmsg, cancelled,
                   chanVars, joining>>

MainWakes ==
    /\ mpc = "wait" /\ finish > 0
    /\ finish' = finish - 1
    /\ mpc' = "check"
    /\ UNCHANGED <<multi, kernelVars, exited, numavail, numworker, exit, cloneFd,
                   listed, wpc, wmsg, cancelled, chanVars, joining>>

\* All listed workers are cancelled and mt.exit is set, under mt.lock.
MainCancel ==
    /\ mpc = "cancel"
    /\ cancelled' = listed /\ exit' = TRUE
    /\ mpc' = "next"
    /\ UNCHANGED <<multi, kernelVars, exited, numavail, numworker, cloneFd, finish,
                   listed, wpc, wmsg, chanVars, joining>>

\* fuse_join_worker for the first in the list; the list is read without lock.
MainNext ==
    /\ mpc = "next"
    /\ \/ \E w \in listed : joining' = w /\ mpc' = "join"
       \/ listed = {} /\ mpc' = "return" /\ joining' = joining
    /\ UNCHANGED <<multi, kernelVars, exited, mtVars, wpc, wmsg, cancelled,
                   chanVars>>

MainJoin ==
    /\ mpc = "join" /\ wpc[joining] = "ended"
    /\ listed' = listed \ {joining}
    /\ chan' = [chan EXCEPT ![joining] = IF @ > 0 THEN @ - 1 ELSE 0]
    /\ joining' = NoWorker /\ mpc' = "next"
    /\ UNCHANGED <<multi, kernelVars, exited, numavail, numworker, exit, cloneFd,
                   finish, wpc, wmsg, cancelled, unanswered>>

\* mt, a variable of this function, is gone; fuse_session_reset.
MainReturn ==
    /\ mpc = "return"
    /\ exited' = FALSE /\ mpc' = "done"
    /\ UNCHANGED <<multi, kernelVars, mtVars, wpc, wmsg, cancelled, chanVars,
                   joining>>

-----------------------------------------------------------------------------
\* fuse_do_work: the loop's test.
WorkerLoop(w) ==
    /\ wpc[w] = "loop"
    /\ Place(w, IF exited THEN "post" ELSE "receive")
    /\ UNCHANGED <<multi, kernelVars, exited, mtVars, wmsg, cancelled, chanVars,
                   mpc, joining>>

\* fuse_session_receive_buf_int returns a message; when the session is over by
\* then the message is dropped.
WorkerReceives(w, k) ==
    /\ wpc[w] = "receive" /\ queue[k] > 0
    /\ queue' = [queue EXCEPT ![k] = @ - 1]
    /\ wmsg' = [wmsg EXCEPT ![w] = k]
    /\ Place(w, IF exited THEN "post" ELSE "got")
    /\ UNCHANGED <<multi, mounted, messages, troubles, exited, mtVars, cancelled,
                   chanVars, mpc, joining>>

\* The connection is gone (ENODEV): the session is over.
WorkerUnmounted(w) ==
    /\ wpc[w] = "receive" /\ ~mounted
    /\ exited' = TRUE
    /\ Place(w, "post")
    /\ UNCHANGED <<multi, kernelVars, mtVars, wmsg, cancelled, chanVars, mpc, joining>>

\* Another error ends the session too; an interrupted read is tried again.
WorkerReadFails(w) ==
    /\ wpc[w] = "receive" /\ Trouble
    /\ \/ exited' = TRUE /\ Place(w, "post")
       \/ exited' = exited /\ Place(w, "loop")
    /\ UNCHANGED <<multi, mounted, messages, queue, mtVars, wmsg, cancelled,
                   chanVars, mpc, joining>>

\* Only the read can be cancelled; the thread then ends without a post.
WorkerCancelled(w) ==
    /\ wpc[w] = "receive" /\ w \in cancelled
    /\ Place(w, "ended")
    /\ UNCHANGED <<multi, kernelVars, exited, mtVars, wmsg, cancelled, chanVars,
                   mpc, joining>>

\* A worker that leaves avail of them available sees to it that there is one.
TakesLeaving(w, avail, start) ==
    LET places == [wpc EXCEPT ![w] = "process"]
    IN  /\ wpc[w] = "got" /\ ~exit
        /\ IF ~start
           THEN /\ numavail' = avail /\ wpc' = places
                /\ UNCHANGED <<numworker, listed, chan, cloneFd, troubles>>
           ELSE \/ \E v \in Workers : StartThread(v, avail, places)
                \/ StartFails(avail, places)
        /\ UNCHANGED <<multi, mounted, messages, queue, exited, exit, finish,
                       wmsg, cancelled, unanswered, mpc, joining>>

\* Bug: the count is tested before it is decremented.
WorkerTakesAlone(w) ==
    TakesLeaving(w, numavail - IF wmsg[w] = "forget" THEN 0 ELSE 1, numavail = 0)

\* The first section under mt.lock: a worker that takes anything but a FORGET
\* is no longer available, and sees to it that another one is.
WorkerTakes(w) ==
    LET avail == numavail - IF wmsg[w] = "forget" THEN 0 ELSE 1
    IN  TakesLeaving(w, avail, avail = 0)

WorkerTooLate(w) ==
    /\ wpc[w] = "got" /\ exit
    /\ Place(w, "ended")
    /\ UNCHANGED <<multi, kernelVars, exited, mtVars, wmsg, cancelled, chanVars,
                   mpc, joining>>

\* fuse_session_process_buf_int.  A request holds a reference to the channel
\* until it is answered, which the file system may do later.
WorkerProcesses(w) ==
    /\ wpc[w] = "process"
    /\ Place(w, "after")
    /\ \/ UNCHANGED chanVars
       \/ /\ wmsg[w] = "request" /\ chan[w] > 0
          /\ unanswered' = [unanswered EXCEPT ![w] = @ + 1]
          /\ chan' = [chan EXCEPT ![w] = @ + 1]
    /\ UNCHANGED <<multi, kernelVars, exited, mtVars, wmsg, cancelled, mpc, joining>>

\* The file system answers; fuse_free_req drops the reference.
AnswerMessage(w) ==
    /\ unanswered[w] > 0
    /\ unanswered' = [unanswered EXCEPT ![w] = @ - 1]
    /\ chan' = [chan EXCEPT ![w] = @ - 1]
    /\ UNCHANGED <<multi, kernelVars, exited, mtVars, wpc, wmsg, cancelled, mpc, joining>>

\* The second section: the worker is available again.  If that makes too many
\* it leaves the list and detaches, unless the main thread is about to join it.
WorkerAfter(w) ==
    LET avail == numavail + IF wmsg[w] = "forget" THEN 0 ELSE 1
        leaves == avail > MaxIdle /\ ~exit
    IN  /\ wpc[w] = "after"
        /\ IF leaves
           THEN /\ listed' = listed \ {w}
                /\ numavail' = avail - 1 /\ numworker' = numworker - 1
                /\ Place(w, "detached")
           ELSE /\ numavail' = avail
                /\ Place(w, IF avail > MaxIdle THEN "ended" ELSE "loop")
                /\ UNCHANGED <<listed, numworker>>
        /\ UNCHANGED <<multi, kernelVars, exited, exit, cloneFd, finish, wmsg,
                       cancelled, chanVars, mpc, joining>>

\* fuse_chan_put by a worker that has left.
WorkerGone(w) ==
    /\ wpc[w] = "detached"
    /\ Place(w, "gone")
    /\ chan' = [chan EXCEPT ![w] = IF @ > 0 THEN @ - 1 ELSE 0]
    /\ UNCHANGED <<multi, kernelVars, exited, mtVars, wmsg, cancelled, unanswered,
                   mpc, joining>>

\* Bug: no post when the loop ends.
WorkerEndsSilently(w) ==
    /\ wpc[w] = "post"
    /\ Place(w, "ended")
    /\ UNCHANGED <<multi, kernelVars, exited, mtVars, wmsg, cancelled, chanVars,
                   mpc, joining>>

WorkerPosts(w) ==
    /\ wpc[w] = "post"
    /\ finish' = finish + 1
    /\ Place(w, "ended")
    /\ UNCHANGED <<multi, kernelVars, exited, numavail, numworker, exit, cloneFd,
                   listed, wmsg, cancelled, chanVars, mpc, joining>>

-----------------------------------------------------------------------------
\* fuse_session_loop: the main thread does all the work itself.
SingleStep ==
    /\ ~multi
    /\ \/ /\ mpc = "check"
          /\ mpc' = (IF exited THEN "return" ELSE "read")
          /\ UNCHANGED <<kernelVars, exited>>
       \/ \E k \in Kinds :
             /\ mpc = "read" /\ queue[k] > 0
             /\ queue' = [queue EXCEPT ![k] = @ - 1]
             /\ mpc' = (IF exited THEN "return" ELSE "handle")
             /\ UNCHANGED <<mounted, messages, troubles, exited>>
       \/ /\ mpc = "read" /\ ~mounted
          /\ exited' = TRUE /\ mpc' = "return"
          /\ UNCHANGED kernelVars
       \/ /\ mpc = "read" /\ Trouble
          /\ mpc' = "return"
          /\ UNCHANGED <<mounted, messages, queue, exited>>
       \/ /\ mpc = "handle"
          /\ mpc' = "check"
          /\ UNCHANGED <<kernelVars, exited>>
    /\ UNCHANGED <<multi, mtVars, wpc, wmsg, cancelled, chanVars, joining>>

WorkerStep(w) ==
    \/ WorkerLoop(w) \/ WorkerUnmounted(w) \/ WorkerCancelled(w)
    \/ \E k \in Kinds : WorkerReceives(w, k)
    \/ WorkerTakes(w) \/ WorkerTooLate(w) \/ WorkerProcesses(w)
    \/ WorkerAfter(w) \/ WorkerGone(w) \/ WorkerPosts(w)

MainStep ==
    \/ MainStart \/ MainCheck \/ MainWakes \/ MainCancel
    \/ MainNext \/ MainJoin \/ MainReturn \/ SingleStep

PoolNext ==
    \/ \E k \in Kinds : Send(k)
    \/ Unmount \/ Signal
    \/ MainStep
    \/ \E w \in Workers : WorkerStep(w) \/ WorkerReadFails(w) \/ AnswerMessage(w)

\* Threads go on, and the file system answers in the end.
PoolFairness ==
    /\ WF_poolVars(MainStep)
    /\ \A w \in Workers : WF_poolVars(WorkerStep(w)) /\ WF_poolVars(AnswerMessage(w))
PoolSpec == PoolInit /\ [][PoolNext]_poolVars /\ PoolFairness

-----------------------------------------------------------------------------
\* As long as no call has failed, some worker is free to take the next message,
\* however long the file system takes for the present ones
\* (fuse_loop_mt.c:158, :167).  Not so when no idle worker is allowed: the last one
\* leaves after a FORGET, for which it has started no other.
ReceiverLeft ==
    MaxIdle > 0 /\ mpc = "wait" /\ ~exited /\ troubles = 0 =>
        \E w \in listed :
            \/ wpc[w] \in {"loop", "receive", "got"}
            \/ wpc[w] \in {"process", "after"} /\ wmsg[w] = "forget"

\* After an unmount the loop returns, whatever the workers were doing.
LoopReturns == ~mounted ~> mpc = "done"
=============================================================================
