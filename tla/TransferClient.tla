--------------------------- MODULE TransferClient ---------------------------
(***************************************************************************)
(* The transfer client of each node (client-server/src/client/client.go).  *)
(* One goroutine per connection of the driver reads one request, opens a   *)
(* TCP connection to the server it names while it holds filesLock, and     *)
(* starts a goroutine that appends to the local file all that arrives.     *)
(*                                                                         *)
(* The handler of the download <<n, f>> serves the connection of the inode *)
(* of f in the driver of node n.  The driver makes one such connection per *)
(* inode and a handler reads one line, so a path already in files is never *)
(* asked for again while the client runs.                                  *)
(***************************************************************************)
EXTENDS F3Base

VARIABLES
    files,  \* files[n]: the files the map of node n's client has an entry for
    hpc,    \* hpc[n][f]: where the handler, then the copying goroutine, is
    rcvd    \* rcvd[n][f]: blocks taken from the connection

clientVars == <<files, hpc, rcvd>>

ClientStates ==
    {"idle", "lock", "dial", "ack", "copy", "done", "failed"}

ClientTypeOK ==
    /\ files \in [Nodes -> SUBSET Files]
    /\ hpc \in [Nodes -> [Files -> ClientStates]]
    /\ rcvd \in [Nodes -> [Files -> Nat]]

ClientInit ==
    /\ files = [n \in Nodes |-> {}]
    /\ hpc = [n \in Nodes |-> [f \in Files |-> "idle"]]
    /\ rcvd = [n \in Nodes |-> [f \in Files |-> 0]]

clientOthers == <<fsVars, placed, doneMsgs, serverFd, reqs>>

-----------------------------------------------------------------------------
\* fuseConnectionHandler reads the first line of its connection.  When two
\* threads of the driver wrote one each, either may be the first.
TakeRequest(n, f) ==
    /\ hpc[n][f] = "idle"
    /\ sock[n][f] = "open"
    /\ \E r \in reqs[n][f] : req' = [req EXCEPT ![n][f] = r]
    /\ hpc' = [hpc EXCEPT ![n][f] = "lock"]
    /\ UNCHANGED <<files, rcvd, idFile, sock, tcpVars, faults, clientOthers>>

\* It takes filesLock, which openConnection holds until the server answers.
Lock(n, f) ==
    /\ hpc[n][f] = "lock"
    /\ \A g \in Files : hpc[n][g] \notin {"dial", "ack"}
    /\ hpc' = [hpc EXCEPT ![n][f] = "dial"]
    /\ UNCHANGED <<files, rcvd, idFile, sock, req, tcpVars, faults, clientOthers>>

\* The request fails: "N" is written, and the connection stays open.
Refuse(n, f) ==
    /\ sock' = [sock EXCEPT ![n][f] = IF @ = "open" THEN "naked" ELSE @]
    /\ hpc' = [hpc EXCEPT ![n][f] = "failed"]

\* openConnection reaches the server and sends it the name.
Dial(n, f) ==
    /\ hpc[n][f] = "dial"
    /\ req[n][f].server # NoNode
    /\ srv' = [srv EXCEPT ![n][f] = req[n][f].server]
    /\ tcp' = [tcp EXCEPT ![n][f] = "request"]
    /\ hpc' = [hpc EXCEPT ![n][f] = "ack"]
    /\ UNCHANGED <<files, rcvd, idFile, sock, req, sent, faults, clientOthers>>

\* The dial fails or takes more than a second.
DialFails(n, f) ==
    /\ Fault
    /\ hpc[n][f] = "dial"
    /\ req[n][f].server # NoNode
    /\ Refuse(n, f)
    /\ UNCHANGED <<files, rcvd, idFile, req, tcpVars, clientOthers>>

\* getServerIP indexes the empty server name and the process panics.  It is
\* started again with no connections: the driver's are closed, the servers'
\* have no reader.
Panic(n, f) ==
    /\ hpc[n][f] = "dial"
    /\ req[n][f].server = NoNode
    /\ files' = [files EXCEPT ![n] = {}]
    /\ hpc' = [hpc EXCEPT ![n] = [g \in Files |->
                  IF @[g] \in {"idle", "done"} THEN @[g] ELSE "failed"]]
    /\ sock' = [sock EXCEPT ![n] = [g \in Files |->
                  IF @[g] \in {"open", "naked"} THEN "closed" ELSE @[g]]]
    /\ tcp' = [tcp EXCEPT ![n] = [g \in Files |->
                  IF @[g] \in {"request", "yes"} THEN "gone" ELSE @[g]]]
    /\ UNCHANGED <<rcvd, idFile, req, srv, sent, faults, clientOthers>>

\* The server has the file: the local copy is opened for appending and
\* entered in files.  A request without a path would open the directory.
AckYes(n, f) ==
    /\ hpc[n][f] = "ack"
    /\ tcp[n][f] \in {"yes", "eof"}
    /\ IF req[n][f].path
       THEN /\ files' = [files EXCEPT ![n] = @ \cup {f}]
            /\ hpc' = [hpc EXCEPT ![n][f] = "copy"]
            /\ sock' = sock
       ELSE Refuse(n, f) /\ files' = files
    /\ UNCHANGED <<rcvd, idFile, req, tcpVars, faults, clientOthers>>

\* It has not, or no answer comes: the connection is closed.
AckNo(n, f) ==
    /\ hpc[n][f] = "ack"
    /\ tcp[n][f] \in {"no", "reset"}
    /\ Refuse(n, f)
    /\ tcp' = [tcp EXCEPT ![n][f] = "gone"]
    /\ UNCHANGED <<files, rcvd, idFile, req, srv, sent, faults, clientOthers>>

\* Bug: the goroutine starts again from the first block it was sent.
ReceiveFirstAgain(n, f) ==
    /\ hpc[n][f] = "copy"
    /\ tcp[n][f] \in {"yes", "eof", "reset"}
    /\ rcvd[n][f] < Len(sent[n][f])
    /\ idFile' = [idFile EXCEPT ![n][f] = Append(@, sent[n][f][1])]
    /\ rcvd' = [rcvd EXCEPT ![n][f] = @ + 1]
    /\ UNCHANGED <<files, hpc, sock, req, tcpVars, faults, clientOthers>>

\* io.CopyBuffer: a block goes from the connection to the end of the file.
Receive(n, f) ==
    /\ hpc[n][f] = "copy"
    /\ tcp[n][f] \in {"yes", "eof", "reset"}
    /\ rcvd[n][f] < Len(sent[n][f])
    /\ idFile' = [idFile EXCEPT ![n][f] = Append(@, sent[n][f][rcvd[n][f] + 1])]
    /\ rcvd' = [rcvd EXCEPT ![n][f] = @ + 1]
    /\ UNCHANGED <<files, hpc, sock, req, tcpVars, faults, clientOthers>>

\* The stream ends: "A,0" is written and the driver's connection closed.  The
\* entry in files stays.
ReceiveEof(n, f) ==
    /\ hpc[n][f] = "copy"
    /\ tcp[n][f] = "eof"
    /\ rcvd[n][f] = Len(sent[n][f])
    /\ sock' = [sock EXCEPT ![n][f] = IF @ = "open" THEN "acked" ELSE @]
    /\ hpc' = [hpc EXCEPT ![n][f] = "done"]
    /\ UNCHANGED <<files, rcvd, idFile, req, tcpVars, faults, clientOthers>>

\* The stream breaks: the driver's connection is closed with no answer.
ReceiveError(n, f) ==
    /\ hpc[n][f] = "copy"
    /\ tcp[n][f] = "reset"
    /\ sock' = [sock EXCEPT ![n][f] = IF @ = "open" THEN "closed" ELSE @]
    /\ hpc' = [hpc EXCEPT ![n][f] = "failed"]
    /\ UNCHANGED <<files, rcvd, idFile, req, tcpVars, faults, clientOthers>>

HandlerStep(n, f) ==
    \/ TakeRequest(n, f) \/ Lock(n, f) \/ Dial(n, f) \/ Panic(n, f)
    \/ AckYes(n, f) \/ AckNo(n, f)
    \/ Receive(n, f) \/ ReceiveEof(n, f) \/ ReceiveError(n, f)
=============================================================================
