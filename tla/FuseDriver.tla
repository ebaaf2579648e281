----------------------------- MODULE FuseDriver -----------------------------
(***************************************************************************)
(* The data path of the FUSE driver of each node (fuse/f3.cc and           *)
(* fuse/uds_client.cc), as the CSI plugin starts it: one thread handles    *)
(* the requests of the kernel (--single), nothing is cached (--nocache).   *)
(* Downloads run in threads of their own.                                  *)
(*                                                                         *)
(* The pods that write f run on node Writer[f], those that read f on the   *)
(* nodes Readers[f]; a node in both has a local reader.                    *)
(***************************************************************************)
EXTENDS F3Base

VARIABLES
    op,             \* op[n]: the request in progress, "idle" when there is none
    cur,            \* cur[n]: the file it is about
    inodes,         \* inodes[n]: the files fs.inodes has an entry for
    needsDownload,  \* needsDownload[n]: the inodes with needs_download
    size,           \* size[n][f]: the inode's size, the furthest byte written
    targetSize,     \* targetSize[n][f]: the inode's target_size
    dl,             \* dl[n][f]: "none", "wait" (a thread), "done" (download_done)
    wopen,          \* wopen[f]: open write handles, all on Writer[f]
    ropen,          \* ropen[n]: the files a pod of n has open for reading
    seen,           \* seen[n][f]: the blocks that reader has been given
    rd,             \* rd[n]: size and remaining polls of the read in progress
    sess,           \* sess[f]: times f was opened for writing
    \* History, never read by an action:
    doneSent,       \* the files named in a line to the server of their node
    writeOnce       \* the files only appended to, and not changed since then

handlerVars == <<op, cur, rd>>
inodeVars   == <<inodes, needsDownload, size, targetSize, dl>>
handleVars  == <<wopen, ropen, seen, sess>>
history     == <<doneSent, writeOnce>>
driverVars  == <<handlerVars, inodeVars, handleVars, history>>

Ops == {"idle", "create_id", "create_servers", "create_path", "read"}

DriverTypeOK ==
    /\ op \in [Nodes -> Ops]
    /\ cur \in [Nodes -> Files \cup {NoPath}]
    /\ inodes \in [Nodes -> SUBSET Files]
    /\ needsDownload \in [Nodes -> SUBSET Files]
    /\ size \in [Nodes -> [Files -> Nat]]
    /\ targetSize \in [Nodes -> [Files -> Nat]]
    /\ dl \in [Nodes -> [Files -> {"none", "wait", "done"}]]
    /\ wopen \in [Files -> Nat]
    /\ ropen \in [Nodes -> SUBSET Files]
    /\ seen \in [Nodes -> [Files -> Contents]]
    /\ rd \in [Nodes -> [size : Nat, left : Nat]]
    /\ sess \in [Files -> Nat]
    /\ doneSent \subseteq Files
    /\ writeOnce \subseteq Files

DriverInit ==
    /\ op = [n \in Nodes |-> "idle"]
    /\ cur = [n \in Nodes |-> NoPath]
    /\ inodes = [n \in Nodes |-> {}]
    /\ needsDownload = [n \in Nodes |-> {}]
    /\ size = [n \in Nodes |-> [f \in Files |-> 0]]
    /\ targetSize = [n \in Nodes |-> [f \in Files |-> 0]]
    /\ dl = [n \in Nodes |-> [f \in Files |-> "none"]]
    /\ wopen = [f \in Files |-> 0]
    /\ ropen = [n \in Nodes |-> {}]
    /\ seen = [n \in Nodes |-> [f \in Files |-> <<>>]]
    /\ rd = [n \in Nodes |-> [size |-> 0, left |-> 0]]
    /\ sess = [f \in Files |-> 0]
    /\ doneSent = {}
    /\ writeOnce = Files

larger(a, b) == IF a > b THEN a ELSE b

\* The request in progress on n becomes o, about f.
Goto(n, o, f) ==
    /\ op' = [op EXCEPT ![n] = o]
    /\ cur' = [cur EXCEPT ![n] = f]

Idle(n) == op[n] = "idle"

-----------------------------------------------------------------------------
\* sfs_create, first call: the file appears in the source file system.  From
\* here on other nodes can find it.
Create(n, f) ==
    /\ Idle(n)
    /\ n = Writer[f]
    /\ f \notin fsFiles
    /\ fsFiles' = fsFiles \cup {f}
    /\ Goto(n, "create_id", f)
    /\ UNCHANGED <<xServers, xPath, xSize, idVars, udsVars, tcpVars, faults,
                   rd, inodeVars, handleVars, history>>

\* Second call: the file appears under idroot.
CreateId(n) ==
    /\ op[n] = "create_id"
    /\ placed' = [placed EXCEPT ![n] = @ \cup {cur[n]}]
    /\ Goto(n, "create_servers", cur[n])
    /\ UNCHANGED <<fsVars, idFile, udsVars, tcpVars, faults,
                   rd, inodeVars, handleVars, history>>

\* It fails: the request ends with an error, the source file stays.
CreateIdFails(n) ==
    /\ Fault
    /\ op[n] = "create_id"
    /\ Goto(n, "idle", NoPath)
    /\ UNCHANGED <<fsVars, idVars, udsVars, tcpVars,
                   rd, inodeVars, handleVars, history>>

\* f3_mark_as_id sets user.f3.servers to the address of this node.
MarkServers(n) ==
    /\ op[n] = "create_servers"
    /\ xServers' = [xServers EXCEPT ![cur[n]] = n]
    /\ Goto(n, "create_path", cur[n])
    /\ UNCHANGED <<fsFiles, xPath, xSize, idVars, udsVars, tcpVars, faults,
                   rd, inodeVars, handleVars, history>>

\* It then sets user.f3.filepath.  do_lookup enters the new inode, which needs
\* no download as the file exists under idroot, and the handle is given out.
MarkPath(n) ==
    LET f == cur[n]
    IN  /\ op[n] = "create_path"
        /\ xPath' = xPath \cup {f}
        /\ inodes' = [inodes EXCEPT ![n] = @ \cup {f}]
        /\ wopen' = [wopen EXCEPT ![f] = @ + 1]
        /\ sess' = [sess EXCEPT ![f] = @ + 1]
        /\ Goto(n, "idle", NoPath)
        /\ UNCHANGED <<fsFiles, xServers, xSize, idVars, udsVars, tcpVars, faults,
                       rd, needsDownload, size, targetSize, dl, ropen, seen,
                       history>>

-----------------------------------------------------------------------------
\* do_lookup of a file with no inode yet.  When the file is not under idroot an
\* empty one is put there, the inode needs a download, and a connection to the
\* transfer client is made for it; that may fail, and is not tried again.
Lookup(n, f) ==
    /\ Idle(n)
    /\ n = Writer[f] \/ n \in Readers[f]
    /\ f \in fsFiles /\ f \notin inodes[n]
    /\ inodes' = [inodes EXCEPT ![n] = @ \cup {f}]
    /\ placed' = [placed EXCEPT ![n] = @ \cup {f}]
    /\ IF f \in placed[n]
       THEN UNCHANGED <<needsDownload, sock, faults>>
       ELSE /\ needsDownload' = [needsDownload EXCEPT ![n] = @ \cup {f}]
            /\ \/ sock' = [sock EXCEPT ![n][f] = "open"] /\ faults' = faults
               \/ sock' = [sock EXCEPT ![n][f] = "closed"] /\ Fault
    /\ UNCHANGED <<fsVars, idFile, doneMsgs, serverFd, reqs, req, tcpVars,
                   handlerVars, size, targetSize, dl, handleVars, history>>

\* sfs_open for reading.  When the inode needs a download, each open starts a
\* thread that writes a request on the inode's connection, if that still is
\* there, and waits for the answer; and takes the published size as target.
OpenRead(n, f) ==
    /\ Idle(n)
    /\ n \in Readers[f]
    /\ f \in inodes[n] /\ f \notin ropen[n]
    /\ ropen' = [ropen EXCEPT ![n] = @ \cup {f}]
    /\ seen' = [seen EXCEPT ![n][f] = <<>>]
    /\ IF f \in needsDownload[n]
       THEN /\ reqs' = IF sock[n][f] = "open"
                       THEN [reqs EXCEPT ![n][f] = @ \cup
                               {[path |-> f \in xPath, server |-> xServers[f]]}]
                       ELSE reqs
            /\ dl' = [dl EXCEPT ![n][f] = IF @ = "none" THEN "wait" ELSE @]
            /\ targetSize' = [targetSize EXCEPT ![n][f] = xSize[f]]
       ELSE UNCHANGED <<reqs, dl, targetSize>>
    /\ UNCHANGED <<fsVars, idVars, doneMsgs, serverFd, sock, req, tcpVars, faults,
                   handlerVars, inodes, needsDownload, size, wopen, sess, history>>

\* download_file_thread: whatever the answer, download_done is set.
DownloadDone(n, f) ==
    /\ dl[n][f] = "wait"
    /\ sock[n][f] # "open"
    /\ dl' = [dl EXCEPT ![n][f] = "done"]
    /\ UNCHANGED <<fsVars, idVars, udsVars, tcpVars, faults, handlerVars,
                   inodes, needsDownload, size, targetSize, handleVars, history>>

-----------------------------------------------------------------------------
\* What the content of f on n becomes; keeps the history of f.
Rewrite(n, f, content) ==
    /\ idFile' = [idFile EXCEPT ![n][f] = content]
    /\ writeOnce' = IF \/ content = idFile[n][f]
                       \/ f \notin doneSent /\ Prefix(idFile[n][f], content)
                    THEN writeOnce ELSE writeOnce \ {f}

\* sfs_open for writing, of a file this node created: O_TRUNC empties it.  The
\* size of the inode is left alone.
OpenWrite(n, f, trunc) ==
    /\ Idle(n)
    /\ n = Writer[f]
    /\ f \in inodes[n] /\ f \notin needsDownload[n]
    /\ sess[f] < MaxSessions
    /\ Rewrite(n, f, IF trunc THEN <<>> ELSE idFile[n][f])
    /\ wopen' = [wopen EXCEPT ![f] = @ + 1]
    /\ sess' = [sess EXCEPT ![f] = @ + 1]
    /\ UNCHANGED <<fsVars, placed, udsVars, tcpVars, faults, handlerVars,
                   inodeVars, ropen, seen, doneSent>>

\* The file after a block was written at offset off.
WriteAt(content, off, block) ==
    [i \in 1..larger(Len(content), off + 1) |->
        IF i = off + 1 THEN block
        ELSE IF i <= Len(content) THEN content[i] ELSE 0]

\* Bug: the size of the inode is the end of the last write.
WriteBufLast(n, f, off) ==
    /\ Idle(n)
    /\ n = Writer[f] /\ wopen[f] > 0
    /\ InOrder => off = Len(idFile[n][f])
    /\ Rewrite(n, f, WriteAt(idFile[n][f], off, sess[f] * MaxLen + off))
    /\ size' = [size EXCEPT ![n][f] = off + 1]
    /\ UNCHANGED <<fsVars, placed, udsVars, tcpVars, faults, handlerVars,
                   inodes, needsDownload, targetSize, dl, handleVars, doneSent>>

\* do_write_buf writes a block and keeps the furthest end in the inode.
WriteBuf(n, f, off) ==
    /\ Idle(n)
    /\ n = Writer[f] /\ wopen[f] > 0
    /\ InOrder => off = Len(idFile[n][f])
    /\ Rewrite(n, f, WriteAt(idFile[n][f], off, sess[f] * MaxLen + off))
    /\ size' = [size EXCEPT ![n][f] = larger(@, off + 1)]
    /\ UNCHANGED <<fsVars, placed, udsVars, tcpVars, faults, handlerVars,
                   inodes, needsDownload, targetSize, dl, handleVars, doneSent>>

\* send_fname_done: a line to this node's server, lost when it has no reader.
SendDone(n, name) ==
    /\ Len(doneMsgs[n]) < MaxQueue
    /\ IF serverFd[n]
       THEN /\ doneMsgs' = [doneMsgs EXCEPT ![n] = Append(@, name)]
            /\ doneSent' = doneSent \cup {f \in Files : f = name /\ Writer[f] = n}
       ELSE UNCHANGED <<doneMsgs, doneSent>>

\* The line for f: its user.f3.filepath, or nothing.
DoneName(f) == IF f \in xPath THEN f ELSE NoPath

\* sfs_release of a write handle: the size is published, then the server told.
ReleaseWrite(n, f) ==
    /\ Idle(n)
    /\ n = Writer[f] /\ wopen[f] > 0
    /\ xSize' = [xSize EXCEPT ![f] = size[n][f]]
    /\ SendDone(n, DoneName(f))
    /\ wopen' = [wopen EXCEPT ![f] = @ - 1]
    /\ UNCHANGED <<fsFiles, xServers, xPath, idVars, serverFd, sock, reqs, req,
                   tcpVars, faults, handlerVars, inodeVars, ropen, seen, sess,
                   writeOnce>>

\* sfs_release of a read handle: the server is told too, unless the inode
\* needs a download.
ReleaseRead(n, f) ==
    /\ Idle(n)
    /\ f \in ropen[n]
    /\ IF f \in needsDownload[n]
       THEN UNCHANGED <<doneMsgs, doneSent>>
       ELSE SendDone(n, DoneName(f))
    /\ ropen' = [ropen EXCEPT ![n] = @ \ {f}]
    /\ UNCHANGED <<fsVars, idVars, serverFd, sock, reqs, req, tcpVars, faults,
                   handlerVars, inodeVars, wopen, seen, sess, writeOnce>>

\* sfs_release of a file that is not an ID file sends an empty line.
ReleaseOther(n) ==
    /\ OtherFiles
    /\ Idle(n)
    /\ SendDone(n, NoPath)
    /\ UNCHANGED <<fsVars, idVars, serverFd, sock, reqs, req, tcpVars, faults,
                   handlerVars, inodeVars, handleVars, writeOnce>>

-----------------------------------------------------------------------------
\* sfs_read: a reader asks for k blocks from where it is.
Read(n, f, k) ==
    /\ Idle(n)
    /\ f \in ropen[n]
    /\ Goto(n, "read", f)
    /\ rd' = [rd EXCEPT ![n] = [size |-> k, left |-> ReadTimeout]]
    /\ UNCHANGED <<fsVars, idVars, udsVars, tcpVars, faults,
                   inodeVars, handleVars, history>>

\* The loop waits while the local file is too short for the read and the read
\* ends before the target size.
ReadWaits(n) ==
    LET f == cur[n]
        end == Len(seen[n][f]) + rd[n].size
    IN  /\ Len(idFile[n][f]) < end
        /\ end < targetSize[n][f]
        /\ rd[n].left > 0

\* Bug: the loop forgets to count its rounds.
ReadPollForever(n) ==
    /\ op[n] = "read"
    /\ ReadWaits(n)
    /\ UNCHANGED <<rd, op, cur, fsVars, idVars, udsVars, tcpVars, faults,
                   inodeVars, handleVars, history>>

ReadPoll(n) ==
    /\ op[n] = "read"
    /\ ReadWaits(n)
    /\ rd' = [rd EXCEPT ![n].left = @ - 1]
    /\ UNCHANGED <<op, cur, fsVars, idVars, udsVars, tcpVars, faults,
                   inodeVars, handleVars, history>>

\* do_read: the reader is given what there is, up to the end of the read.
ReadReply(n) ==
    LET f == cur[n]
        from == Len(seen[n][f])
        to == from + rd[n].size
        have == Len(idFile[n][f])
    IN  /\ op[n] = "read"
        /\ ~ReadWaits(n)
        /\ seen' = [seen EXCEPT ![n][f] =
                      @ \o SubSeq(idFile[n][f], from + 1, IF to < have THEN to ELSE have)]
        /\ Goto(n, "idle", NoPath)
        /\ UNCHANGED <<rd, fsVars, idVars, udsVars, tcpVars, faults,
                       inodeVars, wopen, ropen, sess, history>>

-----------------------------------------------------------------------------
\* The plugin kills the driver process and starts a new one, which tries to
\* connect to the server again, for ten seconds at most.  Handles disappear
\* without a release; idroot stays.
Kill(n) ==
    /\ Fault
    /\ Goto(n, "idle", NoPath)
    /\ inodes' = [inodes EXCEPT ![n] = {}]
    /\ needsDownload' = [needsDownload EXCEPT ![n] = {}]
    /\ size' = [size EXCEPT ![n] = [f \in Files |-> 0]]
    /\ targetSize' = [targetSize EXCEPT ![n] = [f \in Files |-> 0]]
    /\ dl' = [dl EXCEPT ![n] = [f \in Files |-> "none"]]
    /\ wopen' = [f \in Files |-> IF Writer[f] = n THEN 0 ELSE wopen[f]]
    /\ ropen' = [ropen EXCEPT ![n] = {}]
    /\ \E up \in BOOLEAN : serverFd' = [serverFd EXCEPT ![n] = up]
    /\ UNCHANGED <<fsVars, idVars, doneMsgs, sock, reqs, req, tcpVars, rd, seen,
                   sess, history>>

\* The rest of a request, once it has begun.
DriverStep(n) ==
    \/ CreateId(n) \/ MarkServers(n) \/ MarkPath(n)
    \/ ReadPoll(n) \/ ReadReply(n)
=============================================================================
