------------------------------ MODULE F3System ------------------------------
(***************************************************************************)
(* An F3 cluster: the drivers, transfer clients and transfer servers of    *)
(* all nodes, and the properties of the path a file takes from the pod     *)
(* that writes it to the pods that read it on other nodes.                 *)
(***************************************************************************)
EXTENDS TransferServer, TransferClient, FuseDriver

baseVars == <<fsVars, idVars, udsVars, tcpVars, faults>>
vars == <<baseVars, serverVars, clientVars, driverVars>>

Init == BaseInit /\ ServerInit /\ ClientInit /\ DriverInit

\* What the pods and the kernel may ask of the driver of node n.
AppStep(n) ==
    \/ \E f \in Files :
         \/ Create(n, f) \/ Lookup(n, f) \/ OpenRead(n, f)
         \/ ReleaseWrite(n, f) \/ ReleaseRead(n, f)
         \/ \E trunc \in BOOLEAN : OpenWrite(n, f, trunc)
         \/ \E off \in 0..(MaxLen - 1) : WriteBuf(n, f, off)
         \/ \E k \in 1..ReadMax : Read(n, f, k)
    \/ ReleaseOther(n)

DriverNext(n) ==
    /\ \/ AppStep(n) \/ DriverStep(n) \/ CreateIdFails(n) \/ Kill(n)
       \/ \E f \in Files : DownloadDone(n, f)
    /\ UNCHANGED <<serverVars, clientVars>>

ClientNext(n) ==
    /\ \E f \in Files : HandlerStep(n, f) \/ DialFails(n, f)
    /\ UNCHANGED <<serverVars, driverVars>>

ServerNext(s) ==
    /\ HandleDone(s) \/ ServerCrash(s)
    /\ UNCHANGED <<clientVars, driverVars>>

ConnNext(n) ==
    /\ \E f \in Files : ConnectionStep(n, f)
    /\ UNCHANGED <<clientVars, driverVars>>

Next == \E n \in Nodes :
            DriverNext(n) \/ ClientNext(n) \/ ServerNext(n) \/ ConnNext(n)

Spec == Init /\ [][Next]_vars

\* The goroutines and threads are scheduled, and a request the driver has begun
\* goes on.  Nothing is assumed of the pods, of crashes or of failing calls.
Fairness ==
    /\ \A n \in Nodes :
          /\ WF_vars(DriverStep(n) /\ UNCHANGED <<serverVars, clientVars>>)
          /\ WF_vars(HandleDone(n) /\ UNCHANGED <<clientVars, driverVars>>)
    /\ \A n \in Nodes, f \in Files :
          /\ WF_vars(DownloadDone(n, f) /\ UNCHANGED <<serverVars, clientVars>>)
          /\ WF_vars(HandlerStep(n, f) /\ UNCHANGED <<serverVars, driverVars>>)
          /\ WF_vars(ConnectionStep(n, f) /\ UNCHANGED <<clientVars, driverVars>>)

FairSpec == Spec /\ Fairness

-----------------------------------------------------------------------------
\* Type correctness of all the state.
TypeOK == BaseTypeOK /\ ServerTypeOK /\ ClientTypeOK /\ DriverTypeOK

\* No node downloads a file from itself: the inode of a file on the node its
\* user.f3.servers attribute names never needs a download.  The client would
\* append the file to itself without end.
NoSelfDownload ==
    \A f \in Files : xServers[f] # NoNode => f \notin needsDownload[xServers[f]]

\* The copy of a file on a node that downloads it is at any moment an initial
\* part of the file on the node that wrote it, if that file was only appended
\* to: server, stream and client neither lose, repeat nor reorder blocks.
CopyIsPrefix ==
    \A n \in Nodes, f \in writeOnce :
        Prefix(idFile[n][f], idFile[Writer[f]][f])

\* When the client tells the driver "A", the copy is the whole file, if the
\* file did not change after its writer's server was told that it is written:
\* the copy that follows the server's wait loop sends what the loop missed.
AckMeansComplete ==
    \A n \in Nodes, f \in writeOnce :
        sock[n][f] = "acked" => idFile[n][f] = idFile[Writer[f]][f]

\* A reader on any node is given only what the writer wrote, in order, from
\* the first block on, if the file was only appended to.
ReaderSeesWriterData ==
    \A n \in Nodes, f \in writeOnce :
        Prefix(seen[n][f], idFile[Writer[f]][f])

\* The size published when the only writer of a file closes it is the length
\* of the file, in whatever order the writes came.
PublishedSize ==
    \A f \in Files :
        sess[f] = 1 /\ xSize[f] # 0 => xSize[f] = Len(idFile[Writer[f]][f])

\* A download ends, one way or another, once the writer of the file has closed
\* it: the done line reaches the server, the server closes the stream, the
\* client answers, and the thread sets download_done.
DownloadsFinish ==
    \A n \in Nodes, f \in Files :
        (dl[n][f] = "wait" /\ sess[f] > 0 /\ wopen[f] = 0) ~> (dl[n][f] # "wait")

\* The driver's only thread comes back from every request: the wait in
\* sfs_read is bounded.
RequestsEnd == \A n \in Nodes : (op[n] # "idle") ~> (op[n] = "idle")

-----------------------------------------------------------------------------
\* The copies that are not the written file itself.
Copies == [n \in Nodes |-> [f \in Files |->
              IF n = Writer[f] THEN <<>> ELSE idFile[n][f]]]

Stream == INSTANCE FileStream WITH
    Blocks   <- 0..((MaxSessions + 1) * MaxLen),
    file     <- [f \in Files |-> idFile[Writer[f]][f]],
    closed   <- doneSent,
    copy     <- Copies,
    complete <- [n \in Nodes |-> {f \in Files : sock[n][f] = "acked"}]

\* For files written once, front to back, by pods on nodes without readers, the
\* drivers, clients and servers together keep the promise of FileStream,
\* whatever crashes and fails.
StreamSpec == Stream!Spec

-----------------------------------------------------------------------------
\* Statements of the code's comments that the code does not keep.

\* sfs_release, "to tell it when we're done writing": a file the driver tells
\* its server about comes to be in the server's map.
ServerLearnsDone ==
    \A f \in Files :
        LET s == Writer[f]
        IN  (\E i \in 1..Len(doneMsgs[s]) : doneMsgs[s][i] = f)
                ~> (f \in writeComplete[s])

\* handleConnection, "so we can write to it again": a stream does not end while
\* a pod has the file open for writing.
EofAfterLastClose ==
    [][\A n \in Nodes, f \in Files :
          tcp[n][f] # "eof" /\ tcp'[n][f] = "eof" /\ req[n][f].path => wopen[f] = 0]_vars

\* sfs_read, "we must not have downloaded the whole file yet": a reader is not
\* told of an end of file short of the target size before the wait is over.
NoEarlyEof ==
    [][\A n \in Nodes : LET f == cur[n] IN
          op[n] = "read" /\ op'[n] = "idle" /\ seen'[n][f] = seen[n][f]
              => rd[n].left = 0 \/ Len(seen[n][f]) >= targetSize[n][f]]_vars
=============================================================================
