---------------------------- MODULE FuseRequests ----------------------------
(***************************************************************************)
(* Requests and their interrupts in libfuse (lib/fuse_lowlevel.c, and the  *)
(* interrupt function of the path-based layer in lib/fuse.c).  A request   *)
(* is entered in se.list, handled and answered by the thread that read it. *)
(* An INTERRUPT message may be read by another thread, before or after its *)
(* request is entered.  Interrupt functions are called with the request's  *)
(* lock held and use data on the handler's stack.                          *)
(*                                                                         *)
(* A section under se.lock is one step; req.lock is held across steps.     *)
(***************************************************************************)
EXTENDS Integers, Sequences, FiniteSets, SequencesExt

CONSTANTS
    Reqs,      \* the requests the kernel makes, by their unique number
    Threads    \* the threads that read from the device

VARIABLES
    kernel,      \* kernel[r]: "unsent", "sent" or "answered"
    intr,        \* intr[r]: "none", "queued" for reading, "taken" by a thread
    rst,         \* rst[r]: the fuse_req of r
    ctr,         \* ctr[r]: its reference count
    interrupted, \* the requests with the interrupted flag
    func,        \* the requests with an interrupt function
    finished,    \* the requests whose fuse_intr_data says finished
    parked,      \* se.interrupts: interrupts of requests not entered yet
    rlock,       \* rlock[r]: the thread that holds req.lock, or NoThread
    tpc,         \* tpc[t]: where thread t is
    treq,        \* treq[t]: the request it is about
    tfunc        \* the threads that found an interrupt function to call

reqVars == <<kernel, intr, rst, ctr, interrupted, func, finished, parked,
             rlock, tpc, treq, tfunc>>

NoThread == "no thread"
NoReq == "no request"

ASSUME RequestsAssumption ==
    IsFiniteSet(Threads) /\ NoThread \notin Threads /\ NoReq \notin Reqs

\* rst[r] is "absent", "read": taken from the device; "listed": in se.list; "freed": answered but
\* still referenced; "destroyed": its memory is free.
RequestsInit ==
    /\ kernel = [r \in Reqs |-> "unsent"]
    /\ intr = [r \in Reqs |-> "none"]
    /\ rst = [r \in Reqs |-> "absent"]
    /\ ctr = [r \in Reqs |-> 0]
    /\ interrupted = {} /\ func = {} /\ finished = {}
    /\ parked = <<>>
    /\ rlock = [r \in Reqs |-> NoThread]
    /\ tpc = [t \in Threads |-> "idle"]
    /\ treq = [t \in Threads |-> NoReq]
    /\ tfunc = {}

At(t, p, r) ==
    /\ tpc' = [tpc EXCEPT ![t] = p]
    /\ treq' = [treq EXCEPT ![t] = r]

-----------------------------------------------------------------------------
\* The kernel sends a request, and may interrupt one that is being handled.
SendRequest(r) ==
    /\ kernel[r] = "unsent"
    /\ kernel' = [kernel EXCEPT ![r] = "sent"]
    /\ UNCHANGED <<intr, rst, ctr, interrupted, func, finished, parked, rlock,
                   tpc, treq, tfunc>>

SendInterrupt(r) ==
    /\ kernel[r] = "sent" /\ rst[r] # "absent" /\ intr[r] = "none"
    /\ intr' = [intr EXCEPT ![r] = "queued"]
    /\ UNCHANGED <<kernel, rst, ctr, interrupted, func, finished, parked, rlock,
                   tpc, treq, tfunc>>

\* fuse_ll_alloc_req for a request that was read.
Take(t, r) ==
    /\ tpc[t] = "idle" /\ kernel[r] = "sent" /\ rst[r] = "absent"
    /\ rst' = [rst EXCEPT ![r] = "read"]
    /\ ctr' = [ctr EXCEPT ![r] = 1]
    /\ At(t, "enter", r)
    /\ UNCHANGED <<kernel, intr, interrupted, func, finished, parked, rlock, tfunc>>

\* check_interrupt and list_add_req: an interrupt parked for this request marks
\* it.  If there is none, the oldest parked one is answered EAGAIN, and the
\* kernel sends it again if its request still waits.
Enter(t) ==
    LET r == treq[t]
        mine == \E i \in DOMAIN parked : parked[i] = r
    IN  /\ tpc[t] = "enter"
        /\ rst' = [rst EXCEPT ![r] = "listed"]
        /\ \/ /\ mine
              /\ interrupted' = interrupted \cup {r}
              /\ parked' = SelectSeq(parked, LAMBDA p : p # r)
              /\ intr' = intr
           \/ /\ ~mine /\ parked # <<>>
              /\ parked' = Tail(parked)
              /\ intr' = [intr EXCEPT ![Head(parked)] =
                            IF kernel[Head(parked)] = "sent" THEN "queued" ELSE @]
              /\ interrupted' = interrupted
           \/ parked = <<>> /\ UNCHANGED <<parked, intr, interrupted>>
        /\ At(t, "prepare", r)
        /\ UNCHANGED <<kernel, ctr, func, finished, rlock, tfunc>>

\* fuse_do_prepare_interrupt.  If the request is marked the function is called
\* at once, by the handling thread itself, and returns at once.
Prepare(t) ==
    LET r == treq[t]
    IN  /\ tpc[t] = "prepare" /\ rlock[r] = NoThread
        /\ func' = func \cup {r}
        /\ finished' = finished \ {r}
        /\ At(t, "work", r)
        /\ UNCHANGED <<kernel, intr, rst, ctr, interrupted, parked, rlock, tfunc>>

\* The file system's operation.
Work(t) ==
    /\ tpc[t] = "work"
    /\ At(t, "finish", treq[t])
    /\ UNCHANGED <<kernel, intr, rst, ctr, interrupted, func, finished, parked,
                   rlock, tfunc>>

\* fuse_do_finish_interrupt: finished is set, so that a running function ends;
Finish(t) ==
    /\ tpc[t] = "finish"
    /\ finished' = finished \cup {treq[t]}
    /\ At(t, "unset", treq[t])
    /\ UNCHANGED <<kernel, intr, rst, ctr, interrupted, func, parked, rlock, tfunc>>

\* Bug: req.lock is not waited for.
UnsetAtOnce(t) ==
    LET r == treq[t]
    IN  /\ tpc[t] = "unset"
        /\ func' = func \ {r}
        /\ At(t, "reply", r)
        /\ UNCHANGED <<kernel, intr, rst, ctr, interrupted, finished, parked,
                       rlock, tfunc>>

\* then the function is taken away, after it has ended.
Unset(t) ==
    LET r == treq[t]
    IN  /\ tpc[t] = "unset" /\ rlock[r] = NoThread
        /\ func' = func \ {r}
        /\ At(t, "reply", r)
        /\ UNCHANGED <<kernel, intr, rst, ctr, interrupted, finished, parked,
                       rlock, tfunc>>

\* One reference less: the last one destroys the request.
Drop(r, left) ==
    /\ ctr' = [ctr EXCEPT ![r] = @ - 1]
    /\ rst' = [rst EXCEPT ![r] = IF ctr[r] = 1 THEN "destroyed" ELSE left]

\* The reply is written and fuse_free_req takes the request out of se.list.
ReplyTo(t) ==
    LET r == treq[t]
    IN  /\ tpc[t] = "reply"
        /\ kernel' = [kernel EXCEPT ![r] = "answered"]
        /\ Drop(r, "freed")
        /\ At(t, "idle", NoReq)
        /\ UNCHANGED <<intr, interrupted, func, finished, parked, rlock, tfunc>>

-----------------------------------------------------------------------------
TakeInterrupt(t, r) ==
    /\ tpc[t] = "idle" /\ intr[r] = "queued"
    /\ intr' = [intr EXCEPT ![r] = "taken"]
    /\ At(t, "interrupt", r)
    /\ UNCHANGED <<kernel, rst, ctr, interrupted, func, finished, parked, rlock, tfunc>>

\* do_interrupt, the search of find_interrupted: in se.list the request gets a
\* reference; if another interrupt is parked for it this one is dropped; else
\* it is parked, also when the request is answered already.
Interrupt(t) ==
    LET r == treq[t]
    IN  /\ tpc[t] = "interrupt"
        /\ \/ /\ rst[r] = "listed"
              /\ ctr' = [ctr EXCEPT ![r] = @ + 1]
              /\ At(t, "lock", r)
              /\ parked' = parked
           \/ /\ rst[r] # "listed"
              /\ parked' = (IF r \in ToSet(parked) THEN parked ELSE Append(parked, r))
              /\ At(t, "idle", NoReq)
              /\ ctr' = ctr
        /\ UNCHANGED <<kernel, intr, rst, interrupted, func, finished, rlock, tfunc>>

\* With req.lock the request is marked and its function read.
Mark(t) ==
    LET r == treq[t]
    IN  /\ tpc[t] = "lock" /\ rlock[r] = NoThread
        /\ rlock' = [rlock EXCEPT ![r] = t]
        /\ interrupted' = interrupted \cup {r}
        /\ tfunc' = (IF r \in func THEN tfunc \cup {t} ELSE tfunc)
        /\ At(t, "call", r)
        /\ UNCHANGED <<kernel, intr, rst, ctr, func, finished, parked>>

\* fuse_interrupt signals the handler until that has finished.
Call(t) ==
    LET r == treq[t]
    IN  /\ tpc[t] = "call"
        /\ t \in tfunc => r \in finished
        /\ rlock' = [rlock EXCEPT ![r] = NoThread]
        /\ tfunc' = tfunc \ {t}
        /\ At(t, "put", r)
        /\ UNCHANGED <<kernel, intr, rst, ctr, interrupted, func, finished, parked>>

Put(t) ==
    LET r == treq[t]
    IN  /\ tpc[t] = "put"
        /\ Drop(r, rst[r])
        /\ At(t, "idle", NoReq)
        /\ UNCHANGED <<kernel, intr, interrupted, func, finished, parked, rlock, tfunc>>

ThreadStep(t) ==
    \/ \E r \in Reqs : Take(t, r) \/ TakeInterrupt(t, r)
    \/ Enter(t) \/ Prepare(t) \/ Work(t) \/ Finish(t) \/ Unset(t) \/ ReplyTo(t)
    \/ Interrupt(t) \/ Mark(t) \/ Call(t) \/ Put(t)

RequestsNext ==
    \/ \E r \in Reqs : SendRequest(r) \/ SendInterrupt(r)
    \/ \E t \in Threads : ThreadStep(t)

\* Threads go on, and the file system's operations return.
RequestsFairness == \A t \in Threads : WF_reqVars(ThreadStep(t))
RequestsSpec == RequestsInit /\ [][RequestsNext]_reqVars /\ RequestsFairness

-----------------------------------------------------------------------------
\* While an interrupt function runs, the data it uses on the stack of the
\* handler is there (fuse.c:1594, fuse_lowlevel.c:2437).
FunctionDataAlive ==
    \A t \in tfunc : \E h \in Threads :
        treq[h] = treq[t] /\ tpc[h] \in {"work", "finish", "unset"}

=============================================================================
