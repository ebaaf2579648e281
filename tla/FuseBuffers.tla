---------------------------- MODULE FuseBuffers -----------------------------
(***************************************************************************)
(* Copying between buffer vectors (libfuse/lib/buffer.c), through which    *)
(* the driver's do_write_buf and read move file data: buffers in memory or *)
(* behind descriptors, read and write calls that do less than they were    *)
(* asked, splice and its fallback.  A byte of the source is <<buffer,      *)
(* position>>; each system call is a step.                                 *)
(***************************************************************************)
EXTENDS Integers, Sequences, SequencesExt, FiniteSets

CONSTANTS
    SourceVecs, DestVecs,  \* vectors of buffers
    CopyFlags,             \* subset of {"none", "no_splice", "force"}
    TmpSize                \* size of the block of fuse_buf_fd_to_fd

ASSUME BuffersAssumption == TmpSize \in Nat \ {0} /\ CopyFlags \subseteq {"none", "no_splice", "force"}

VARIABLES
    srcv, dstv,  \* the vectors: buf, idx, off
    taken,       \* taken[i]: bytes consumed from the descriptor of source buffer i
    data,        \* data[j]: what is in destination buffer j
    one,         \* the call of fuse_buf_copy_one and what it calls
    copied,
    bres,        \* the value returned
    refused,     \* fuse_buf_fd_to_fd could not write all it had read
    bflags
bufferVars == <<srcv, dstv, taken, data, one, copied, bres, refused, bflags>>

\* A buffer: "mem", "file" (a descriptor with FUSE_BUF_FD_SEEK) or "pipe" (one without);
\* has is what a descriptor can deliver.
Buf(kind, size, retry, has) == [kind |-> kind, size |-> size, retry |-> retry, has |-> has]
IsFd(b) == b.kind # "mem"
Vec(bufs) == [buf |-> bufs, idx |-> 1, off |-> 0]
Lesser(a, b) == IF a < b THEN a ELSE b
NoCopy == [at |-> "copy"]

BuffersInit ==
    /\ \E s \in SourceVecs : srcv = Vec(s)
    /\ \E d \in DestVecs : dstv = Vec(d)
    /\ bflags \in CopyFlags
    /\ taken = [i \in DOMAIN srcv.buf |-> 0]
    /\ data = [j \in DOMAIN dstv.buf |-> <<>>]
    /\ one = NoCopy /\ copied = 0 /\ bres = "running" /\ refused = FALSE

fuse_bufvec_current(v) == v.buf[v.idx]
AtEnd(v) == v.idx > Len(v.buf)
Src == fuse_bufvec_current(srcv)
Dst == fuse_bufvec_current(dstv)

fuse_bufvec_advance(v, n) ==
    IF v.off + n = fuse_bufvec_current(v).size
    THEN [v EXCEPT !.idx = @ + 1, !.off = IF v.idx = Len(v.buf) THEN @ + n ELSE 0]
    ELSE [v EXCEPT !.off = @ + n]

\* The bytes a read of n at offset off gives, and the descriptor after it.
BytesAt(off, n) ==
    LET from == IF Src.kind = "pipe" THEN taken[srcv.idx] ELSE off
    IN [k \in 1..n |-> <<srcv.idx, from + k>>]
Readable(off) ==
    IF ~IsFd(Src) THEN Src.size ELSE Src.has - (IF Src.kind = "pipe" THEN taken[srcv.idx] ELSE off)
TakenBy(n) == IF Src.kind = "pipe" THEN [taken EXCEPT ![srcv.idx] = @ + n] ELSE taken

\* data after bytes are put at offset off of the current destination buffer: a
\* descriptor without a position takes them behind what it has.
DataWith(off, bytes) ==
    [data EXCEPT ![dstv.idx] =
        IF Dst.kind = "pipe" THEN @ \o bytes ELSE SubSeq(@, 1, off) \o bytes \o SubSeq(@, off + Len(bytes) + 1, Len(@))]

\* fuse_buf_copy, up to the call of fuse_buf_copy_one.
fuse_buf_copy ==
    /\ one.at = "copy" /\ bres = "running"
    /\ LET len == Lesser(Src.size - srcv.off, Dst.size - dstv.off)
           how == CASE ~IsFd(Src) /\ ~IsFd(Dst) -> "memcpy"
                    [] ~IsFd(Src) /\ IsFd(Dst) -> "write"
                    [] IsFd(Src) /\ ~IsFd(Dst) -> "read"
                    [] OTHER -> IF bflags = "no_splice" THEN "fdread" ELSE "splice"
       IN one' = [at |-> how, soff |-> srcv.off, doff |-> dstv.off, len |-> len, all |-> len,
                  done |-> 0, tmp |-> <<>>, tdone |-> 0, this |-> 0]
    /\ UNCHANGED <<srcv, dstv, taken, data, copied, bres, refused, bflags>>

Returns(n) == one' = [one EXCEPT !.at = "ret", !.done = n]
\* A system call failed: an error only if nothing was copied.
Fails == one' = [one EXCEPT !.at = IF one.done = 0 THEN "fail" ELSE "ret"]

CopyMemory ==
    /\ one.at = "memcpy"
    /\ data' = DataWith(one.doff, BytesAt(one.soff, one.len)) /\ Returns(one.len)
    /\ UNCHANGED <<srcv, dstv, taken, copied, bres, refused, bflags>>

\* As a bug: the retry starts at the old position of the source.
MovedOnDestOnly(c, n) == [c EXCEPT !.done = @ + n, !.doff = @ + n, !.len = @ - n]
\* After a call that moved n bytes; ends without FUSE_BUF_FD_RETRY or when all is done.
MovedOn(c, n) == [c EXCEPT !.done = @ + n, !.soff = @ + n, !.doff = @ + n, !.len = @ - n]
Retried(retry, n) ==
    LET c == MovedOn(one, n) IN one' = [c EXCEPT !.at = IF retry /\ n > 0 /\ c.len > 0 THEN @ ELSE "ret"]

fuse_buf_write ==
    /\ one.at = "write"
    /\ \E n \in 0..one.len : /\ data' = DataWith(one.doff, BytesAt(one.soff, n))
                             /\ Retried(Dst.retry, n)
    /\ UNCHANGED <<srcv, dstv, taken, copied, bres, refused, bflags>>

fuse_buf_read ==
    /\ one.at = "read"
    /\ \E n \in 0..Lesser(one.len, Readable(one.soff)) :
         /\ n = 0 => Readable(one.soff) = 0
         /\ data' = DataWith(one.doff, BytesAt(one.soff, n)) /\ taken' = TakenBy(n)
         /\ Retried(Src.retry, n)
    /\ UNCHANGED <<srcv, dstv, copied, bres, refused, bflags>>

\* fuse_buf_splice; on EINVAL at the first call it falls back unless forced.
fuse_buf_splice ==
    /\ one.at = "splice"
    /\ \/ \E n \in 0..Lesser(one.len, Readable(one.soff)) :
            /\ n = 0 => Readable(one.soff) = 0
            /\ data' = DataWith(one.doff, BytesAt(one.soff, n)) /\ taken' = TakenBy(n)
            /\ Retried(Src.retry \/ Dst.retry, n)
       \/ /\ one.done = 0 /\ bflags = "none"
          /\ one' = [one EXCEPT !.at = "fdread"] /\ UNCHANGED <<data, taken>>
    /\ UNCHANGED <<srcv, dstv, copied, bres, refused, bflags>>

BlockLen(c) == Lesser(TmpSize, c.len)

\* fuse_buf_fd_to_fd: a block is read (fuse_buf_read into tmp) ...
ReadBlock ==
    /\ one.at = "fdread"
    /\ LET this == BlockLen(one) - Len(one.tmp)
           off == one.soff + Len(one.tmp)
       IN \E n \in 0..Lesser(this, Readable(off)) :
            /\ n = 0 => Readable(off) = 0
            /\ taken' = TakenBy(n)
            /\ LET t == one.tmp \o BytesAt(off, n)
                   more == Src.retry /\ n > 0 /\ n < this
               IN one' = [one EXCEPT !.tmp = t, !.tdone = 0, !.this = BlockLen(one),
                                     !.at = IF more THEN @ ELSE IF t = <<>> THEN "ret" ELSE "fdwrite"]
    /\ UNCHANGED <<srcv, dstv, data, copied, bres, refused, bflags>>

\* The next block is read only when this one was whole.
BlockWhole(c) == c.len > 0 /\ c.tdone = c.this

\* ... and written (fuse_buf_write from tmp).
WriteBlock ==
    /\ one.at = "fdwrite"
    /\ LET left == Len(one.tmp) - one.tdone IN
       \E n \in 0..left :
         LET c == [one EXCEPT !.tdone = @ + n]
             more == Dst.retry /\ n > 0 /\ n < left
             all == [MovedOn(c, c.tdone) EXCEPT !.tmp = <<>>]
         IN /\ data' = DataWith(one.doff + one.tdone, SubSeq(one.tmp, one.tdone + 1, one.tdone + n))
            /\ refused' = (refused \/ (~more /\ n < left))
            /\ one' = IF more THEN c
                      ELSE [all EXCEPT !.at = IF c.tdone > 0 /\ BlockWhole([all EXCEPT !.tdone = c.tdone])
                                              THEN "fdread" ELSE "ret"]
    /\ UNCHANGED <<srcv, dstv, taken, copied, bres, bflags>>

\* A call of the system fails.
CallFails ==
    /\ one.at \in {"write", "read", "splice", "fdread", "fdwrite"}
    /\ \/ one.at \in {"write", "read"} /\ Fails /\ UNCHANGED refused
       \/ one.at = "splice" /\ (bflags = "force" \/ one.done > 0) /\ Fails /\ UNCHANGED refused
       \/ /\ one.at = "fdread"   \* with a part of the block in tmp, that part is written
          /\ IF one.tmp # <<>> THEN one' = [one EXCEPT !.at = "fdwrite"] ELSE Fails
          /\ UNCHANGED refused
       \/ /\ one.at = "fdwrite" /\ refused' = TRUE
          /\ LET c == [MovedOn(one, one.tdone) EXCEPT !.tmp = <<>>]
             IN one' = [c EXCEPT !.at = IF c.done = 0 THEN "fail" ELSE "ret"]
    /\ UNCHANGED <<srcv, dstv, taken, data, copied, bres, bflags>>

\* fuse_buf_copy, after fuse_buf_copy_one.
CopyReturns ==
    /\ one.at \in {"ret", "fail"}
    /\ IF one.at = "fail"
       THEN /\ bres' = (IF copied = 0 THEN "error" ELSE "done") /\ UNCHANGED <<srcv, dstv, copied>>
       ELSE LET s == fuse_bufvec_advance(srcv, one.done)
                d == IF AtEnd(s) THEN dstv ELSE fuse_bufvec_advance(dstv, one.done)
            IN /\ srcv' = s /\ dstv' = d /\ copied' = copied + one.done
               /\ bres' = IF AtEnd(s) \/ AtEnd(d) \/ one.done < one.all THEN "done" ELSE "running"
    /\ one' = NoCopy
    /\ UNCHANGED <<taken, data, refused, bflags>>

BuffersNext ==
    \/ fuse_buf_copy \/ CopyMemory \/ fuse_buf_write \/ fuse_buf_read \/ fuse_buf_splice
    \/ ReadBlock \/ WriteBlock \/ CallFails \/ CopyReturns
BuffersSpec == BuffersInit /\ [][BuffersNext]_bufferVars

-----------------------------------------------------------------------------
\* All bytes of the vectors in order.
SourceBytes == FlattenSeq([i \in DOMAIN srcv.buf |-> [k \in 1..srcv.buf[i].size |-> <<i, k>>]])

\* What the copy reports is what it did: the destination holds the first bytes of the
\* source, in order, none missing or twice, as many as fuse_buf_copy returns, however
\* the calls of read, write and splice were cut short; and of a pipe no more was consumed,
\* unless the destination refused part of a block (fuse_buf_fd_to_fd drops what it has read
\* then), so that the next copy from the vector goes on where this one stopped.
CopyExact ==
    bres # "running" =>
        /\ FlattenSeq(data) = SubSeq(SourceBytes, 1, IF bres = "error" THEN 0 ELSE copied)
        /\ ~refused => \A i \in DOMAIN srcv.buf : srcv.buf[i].kind = "pipe" =>
              taken[i] = Cardinality({k \in 1..copied : SourceBytes[k][1] = i})
=============================================================================
