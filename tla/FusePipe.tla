------------------------------ MODULE FusePipe ------------------------------
(***************************************************************************)
(* The pipe of a worker thread (libfuse/lib/fuse_lowlevel.c): requests are *)
(* spliced into it from the device and data replies out of it, and it is   *)
(* kept from one request to the next.  A thread receives a request, takes  *)
(* its header and its data out of the pipe, and answers with data that may *)
(* pass through the same pipe; calls fail or move less than asked.         *)
(***************************************************************************)
EXTENDS Integers, Sequences, FiniteSets

CONSTANTS
    PipeRequests,   \* requests served
    PipeData,       \* pieces of data in a large request
    ReplyLen,       \* pieces of data asked for by a read
    MaxPipeFaults   \* calls that fail

ASSUME PipeAssumption ==
    PipeRequests \in Nat /\ PipeData \in Nat \ {0} /\ ReplyLen \in Nat \ {0} /\ MaxPipeFaults \in Nat

VARIABLES
    pipe,      \* what is in the pipe: <<request, "in" or "out", piece>>, piece 0 the header
    made,      \* the thread has a pipe (pthread_getspecific(se->pipe_key))
    broken_splice_nonblock,
    pt,        \* the thread: at, req, op, and the state of a reply
    answer,    \* the answers the kernel got: answer[n] is a sequence of answers
    unsent,    \* requests whose answer could not be sent or whose header was lost
    pfaults
pipeVars == <<pipe, made, broken_splice_nonblock, pt, answer, unsent, pfaults>>

\* "write" has data that a write_buf operation takes from the pipe, "notify" is the reply
\* to a retrieve request, "setxattr" has data the library reads first, "read" is small.
PipeOps == {"write", "notify", "setxattr", "read"}
Large == PipeOps \ {"read"}
Pieces(n, dir, len) == [k \in 1..len |-> <<n, dir, k>>]
RequestPieces(n, op) == <<<<n, "in", 0>>>> \o Pieces(n, "in", IF op \in Large THEN PipeData ELSE 0)
Receiving(n) == [at |-> "receive", req |-> n]

PipeInit ==
    /\ pipe = <<>> /\ made = FALSE /\ broken_splice_nonblock = FALSE
    /\ pt = Receiving(1) /\ answer = [n \in 1..PipeRequests |-> <<>>] /\ unsent = {} /\ pfaults = 0

PipeFault == pfaults < MaxPipeFaults /\ pfaults' = pfaults + 1
fuse_ll_clear_pipe == pipe' = <<>> /\ made' = FALSE
NextRequest == pt' = Receiving(pt.req + 1)
Ended == pt' = [pt EXCEPT !.at = "ended"]
\* An answer without data, or with an error, sent by fuse_send_msg.
Reply(kind) == answer' = [answer EXCEPT ![pt.req] = Append(@, [kind |-> kind, data |-> <<>>, from |-> 0])]

\* fuse_session_receive_buf_int without splice: the whole request in memory.
ReceiveRead ==
    /\ pt.at = "receive" /\ pt.req <= PipeRequests
    /\ \E op \in PipeOps : pt' = [at |-> "handler", req |-> pt.req, op |-> op, buf |-> "mem"]
    /\ UNCHANGED <<pipe, made, broken_splice_nonblock, answer, unsent, pfaults>>

\* fuse_session_receive_buf_int: from the device into the pipe; fuse_ll_get_pipe makes it.
ReceiveSpliced ==
    /\ pt.at = "receive" /\ pt.req <= PipeRequests
    /\ made' = TRUE
    /\ \E op \in PipeOps :
         /\ pipe' = pipe \o RequestPieces(pt.req, op)
         /\ pt' = [at |-> IF op \in Large THEN "header" ELSE "copyout", req |-> pt.req, op |-> op, buf |-> "fd"]
    /\ UNCHANGED <<broken_splice_nonblock, answer, unsent, pfaults>>

\* A small request is copied to memory at once; on an error the loop ends.
CopySmall ==
    /\ pt.at = "copyout"
    /\ \/ /\ pipe' = SubSeq(pipe, 2, Len(pipe)) /\ pt' = [pt EXCEPT !.at = "handler", !.buf = "mem"]
          /\ UNCHANGED <<made, pfaults>>
       \/ PipeFault /\ fuse_ll_clear_pipe /\ Ended
    /\ UNCHANGED <<broken_splice_nonblock, answer, unsent>>

\* fuse_session_process_buf_int: header out of the pipe (fuse_ll_copy_from_pipe); on
\* an error the request is dropped.
ReadHeader ==
    /\ pt.at = "header"
    /\ \/ /\ pipe' = Tail(pipe) /\ pt' = [pt EXCEPT !.at = "checks"]
          /\ UNCHANGED <<made, unsent, pfaults>>
       \/ PipeFault /\ fuse_ll_clear_pipe /\ unsent' = unsent \union {pt.req} /\ NextRequest
    /\ UNCHANGED <<broken_splice_nonblock, answer>>

\* No memory, not allowed, or not known: reply_err, clear_pipe.
Refuse ==
    /\ pt.at = "checks"
    /\ PipeFault /\ Reply("error") /\ fuse_ll_clear_pipe /\ NextRequest
    /\ UNCHANGED <<broken_splice_nonblock, unsent>>

\* The rest of a request other than a write or a notify reply is read as well.
ReadRest ==
    /\ pt.at = "checks" /\ pt.op \notin {"write", "notify"}
    /\ \/ /\ pipe' = SubSeq(pipe, PipeData + 1, Len(pipe)) /\ pt' = [pt EXCEPT !.at = "handler", !.buf = "mem"]
          /\ UNCHANGED <<made, answer, pfaults>>
       \/ PipeFault /\ Reply("error") /\ fuse_ll_clear_pipe /\ NextRequest
    /\ UNCHANGED <<broken_splice_nonblock, unsent>>

\* do_write_buf: the operation takes some or all of the data.
do_write_buf_fd ==
    /\ pt.at = "checks" /\ pt.op = "write"
    /\ \E k \in 0..PipeData :
         IF k < PipeData THEN fuse_ll_clear_pipe
         ELSE pipe' = SubSeq(pipe, k + 1, Len(pipe)) /\ UNCHANGED made
    /\ Reply("done") /\ NextRequest
    /\ UNCHANGED <<broken_splice_nonblock, unsent, pfaults>>

\* fuse_ll_retrieve_reply: the same, without an answer.
fuse_ll_retrieve_reply ==
    /\ pt.at = "checks" /\ pt.op = "notify"
    /\ \E k \in 0..PipeData :
         IF k < PipeData THEN fuse_ll_clear_pipe
         ELSE pipe' = SubSeq(pipe, k + 1, Len(pipe)) /\ UNCHANGED made
    /\ NextRequest
    /\ UNCHANGED <<broken_splice_nonblock, answer, unsent, pfaults>>

\* The handler of a request in memory; a read answers with fuse_reply_data: has pieces
\* are there to be read.
CallHandler ==
    /\ pt.at = "handler"
    /\ IF pt.op = "read"
       THEN /\ \E has \in 0..ReplyLen : pt' = [at |-> "send", req |-> pt.req, op |-> "read", has |-> has, got |-> 0]
            /\ UNCHANGED answer
       ELSE NextRequest /\ (IF pt.op = "notify" THEN UNCHANGED answer ELSE Reply("done"))
    /\ UNCHANGED <<pipe, made, broken_splice_nonblock, unsent, pfaults>>

\* What the kernel gets of the reply: the pieces and the length the header gives.
Sent(data, len) == answer' = [answer EXCEPT ![pt.req] = Append(@, [kind |-> "data", data |-> data, from |-> len])]
NotSent == unsent' = unsent \union {pt.req} /\ NextRequest

\* fuse_send_data_iov_fallback.
fuse_send_data_iov_fallback ==
    /\ pt.at = "fallback"
    /\ \/ Sent(Pieces(pt.req, "out", pt.has), pt.has) /\ NextRequest /\ UNCHANGED <<unsent, pfaults>>
       \/ PipeFault /\ Reply("error") /\ NextRequest /\ UNCHANGED unsent
       \/ PipeFault /\ NotSent /\ UNCHANGED answer
    /\ UNCHANGED <<pipe, made, broken_splice_nonblock>>

\* fuse_send_data_iov: the ways to the fallback before the pipe is touched; a pipe too
\* small that cannot be grown is one of them (fuse_ll_get_pipe may have made it).
SendFallback ==
    /\ pt.at = "send"
    /\ made' \in {made, TRUE}
    /\ pt' = [pt EXCEPT !.at = "fallback"]
    /\ UNCHANGED <<pipe, broken_splice_nonblock, answer, unsent, pfaults>>

\* vmsplice of the header.
SendHeader ==
    /\ pt.at = "send" /\ ~broken_splice_nonblock
    /\ \/ /\ pipe' = Append(pipe, <<pt.req, "out", 0>>) /\ pt' = [pt EXCEPT !.at = "data"]
          /\ made' = TRUE /\ UNCHANGED <<unsent, pfaults>>
       \/ PipeFault /\ pt' = [pt EXCEPT !.at = "fallback"] /\ made' = TRUE /\ UNCHANGED <<pipe, unsent>>
       \/ PipeFault /\ NotSent /\ fuse_ll_clear_pipe   \* the header is cut
    /\ UNCHANGED <<broken_splice_nonblock, answer>>

GiveUpPipe == pt' = [pt EXCEPT !.at = "fallback"] /\ fuse_ll_clear_pipe

\* fuse_buf_copy into the pipe, which may be short; on EAGAIN or EINVAL the pipe is freed.
SendIntoPipe ==
    /\ pt.at = "data"
    /\ \/ \E n \in 0..pt.has :
            /\ n = 0 => pt.has = 0
            /\ pipe' = pipe \o Pieces(pt.req, "out", n)
            /\ pt' = [pt EXCEPT !.at = IF n # 0 /\ n < ReplyLen THEN "more" ELSE "out", !.got = n]
            /\ UNCHANGED <<made, broken_splice_nonblock, answer, pfaults>>
       \/ PipeFault /\ broken_splice_nonblock' \in {broken_splice_nonblock, TRUE} /\ GiveUpPipe /\ UNCHANGED answer
       \/ PipeFault /\ Reply("error") /\ fuse_ll_clear_pipe /\ NextRequest /\ UNCHANGED broken_splice_nonblock
    /\ UNCHANGED <<unsent>>

\* What the second fuse_buf_copy finds, into memory behind the first part.
MoreData == pt.has - pt.got

\* As a bug: the header is not read back first.
ReadBackAll(got) == SubSeq(pipe, 1, got)
\* read_back of the header, which is dropped, and of the data.
ReadBack(got) == SubSeq(pipe, 2, got + 1)

\* After a short count: is there more?  Then all is read back and sent from memory.
SendMore ==
    /\ pt.at = "more"
    /\ \/ /\ MoreData = 0 /\ pt' = [pt EXCEPT !.at = "out"] /\ UNCHANGED <<pipe, made, answer, unsent, pfaults>>
       \/ /\ MoreData > 0
          /\ pipe' = SubSeq(pipe, pt.got + 2, Len(pipe)) /\ UNCHANGED made
          /\ \/ /\ Sent(ReadBack(pt.got) \o [k \in 1..MoreData |-> <<pt.req, "out", pt.got + k>>], pt.has)
                /\ NextRequest /\ UNCHANGED <<unsent, pfaults>>
             \/ PipeFault /\ NotSent /\ UNCHANGED answer
       \/ /\ PipeFault /\ pt' = [pt EXCEPT !.at = "out"]  \* the second copy fails
          /\ UNCHANGED <<pipe, made, answer, unsent>>
       \/ PipeFault /\ Reply("error") /\ fuse_ll_clear_pipe /\ NextRequest /\ UNCHANGED unsent  \* no memory
       \/ MoreData > 0 /\ PipeFault /\ NotSent /\ fuse_ll_clear_pipe /\ UNCHANGED answer        \* read_back
    /\ UNCHANGED <<broken_splice_nonblock>>

\* splice from the pipe to the device, out->len pieces.
SendOut ==
    /\ pt.at = "out"
    /\ \/ /\ Sent(SubSeq(pipe, 2, pt.got + 1), pt.got)
          /\ pipe' = SubSeq(pipe, pt.got + 2, Len(pipe)) /\ NextRequest /\ UNCHANGED <<made, unsent, pfaults>>
       \/ PipeFault /\ NotSent /\ fuse_ll_clear_pipe /\ UNCHANGED answer
    /\ UNCHANGED <<broken_splice_nonblock>>

PipeNext ==
    \/ ReceiveRead \/ ReceiveSpliced \/ CopySmall \/ ReadHeader \/ Refuse \/ ReadRest \/ do_write_buf_fd
    \/ fuse_ll_retrieve_reply \/ CallHandler \/ fuse_send_data_iov_fallback \/ SendFallback \/ SendHeader
    \/ SendIntoPipe \/ SendMore \/ SendOut
PipeSpec == PipeInit /\ [][PipeNext]_pipeVars

-----------------------------------------------------------------------------

\* A request has at most one answer, none if sending it failed, and an answer with data has the
\* pieces of its own request, from the first on, as many as its header says, whatever an
\* earlier request left in the pipe (fuse_send_data_iov, with out->len changed after the
\* header is in the pipe; the error paths of fuse_reply_data and process_buf).
AnsweredWhole ==
    \A n \in DOMAIN answer :
        /\ Len(answer[n]) <= 1 /\ (n \in unsent => answer[n] = <<>>)
        /\ \A i \in DOMAIN answer[n] : answer[n][i].data = Pieces(n, "out", answer[n][i].from)
=============================================================================
